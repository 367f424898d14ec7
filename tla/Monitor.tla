------------------------------ MODULE Monitor ------------------------------
(***************************************************************************)
(* The guest monitor of wolfTrust (src/src/monitor.c): round-robin         *)
(* scheduling of Non-secure guests by the secure timer, launch measurement, *)
(* restart with back-off after a fault, quarantine, and the restart budget *)
(* of src/src/restart_policy.c.                                            *)
(*                                                                         *)
(* The states WT_GUEST_WAITING_HSM and WT_GUEST_STOPPED are left out: no     *)
(* code under src/ moves a guest into one of them and every manifest of the *)
(* ports starts its guests READY, so the tasklet representative is never    *)
(* scheduled and the only terminal state is FAULTED.                        *)
(***************************************************************************)
EXTENDS Naturals

CONSTANTS
    NGuests,            \* guests are numbered 0 .. NGuests - 1
    Required,           \* guests with launch_required set
    GuestRestartLimit,  \* restart_limit: restarts granted in a crash loop
    Window,             \* restart_window_ticks
    Delay,              \* initial_delay_ticks
    TickMod             \* the tick counter is a uint32_t: 2^32

Guest == 0 .. NGuests - 1

ASSUME MonitorConstants ==
    /\ NGuests \in Nat \ {0}
    /\ Required \subseteq Guest
    /\ GuestRestartLimit \in Nat \ {0}
    /\ Delay \in Nat
    /\ TickMod \in Nat \ {0}
    /\ Window \in 1 .. TickMod - 1

VARIABLES
    st,             \* st[g]: the lifecycle state of guest g
    delay,          \* remaining_delay_ticks
    guestRestarts,  \* restart_count
    lastTick,       \* first_restart_tick: the tick of the last restart
    ticks,          \* monotonic_ticks
    cur,            \* current_guest
    mode,           \* what the core is doing
    firstPending,   \* g_wt_first_dispatch_pending
    image,          \* image[g]: whether g's flash matches its pinned measurement
    owns,           \* guests that own FF-M connections
    engine,         \* the crypto engine the image is built with: "hsm" is WT_ENGINE_HSM
    since,          \* history: ticks since g's last restart, up to Window
    burst,          \* history: restarts of g, each less than Window after the last
    passed          \* history: dispatches of other guests while g was READY

monitorVars == <<st, delay, guestRestarts, lastTick, ticks, cur, mode, firstPending, image,
                 owns, engine, since, burst, passed>>

MonitorTypeOK ==
    /\ st \in [Guest -> {"READY", "RUNNING", "FAULTED", "RESTARTING"}]
    /\ delay \in [Guest -> 0 .. Delay]
    /\ guestRestarts \in [Guest -> 0 .. GuestRestartLimit]
    /\ lastTick \in [Guest -> 0 .. TickMod - 1]
    /\ ticks \in 0 .. TickMod - 1
    /\ cur \in Guest
    /\ mode \in {"boot", "sched", "guest", "handler", "service", "idle", "halted"}
    /\ firstPending \in SUBSET Guest
    /\ image \in [Guest -> {"good", "bad"}]
    /\ owns \in SUBSET Guest
    /\ engine \in {"native", "hsm"}
    /\ since \in [Guest -> 0 .. Window]
    /\ burst \in [Guest -> Nat]
    /\ passed \in [Guest -> Nat]

-----------------------------------------------------------------------------
(* Launch measurement *)

\* wt_guest_verify_image: size, version and digest of the image in the guest's
\* window are those of its measurement record.
Matches(g) == image[g] = "good"

\* verify_guest_launch: a guest without a launch policy passes.
Verified(g) == g \in Required => Matches(g)

\* monitor_init: each guest is reset and measured, and armed for a second
\* measurement at its first dispatch.
MonitorInit ==
    /\ image \in [Guest -> {"good", "bad"}]
    /\ st = [g \in Guest |-> IF Verified(g) THEN "READY" ELSE "FAULTED"]
    /\ delay = [g \in Guest |-> 0]
    /\ guestRestarts = [g \in Guest |-> 0]
    /\ lastTick = [g \in Guest |-> 0]
    /\ ticks = 0
    /\ cur = 0
    /\ mode = "boot"
    /\ firstPending = Guest
    /\ owns = {}
    /\ engine \in {"native", "hsm"}
    /\ since = [g \in Guest |-> 0]
    /\ burst = [g \in Guest |-> 0]
    /\ passed = [g \in Guest |-> 0]

\* Boot refuses a guest (anti-rollback, nvm_boot.c) before any guest runs.
Quarantine(g) ==
    /\ mode = "boot"
    /\ st' = [st EXCEPT ![g] = "FAULTED"]
    /\ owns' = owns \ {g}
    /\ UNCHANGED <<delay, guestRestarts, lastTick, ticks, cur, mode, firstPending, image,
                   engine, since, burst, passed>>

-----------------------------------------------------------------------------
(* Scheduling *)

GuestRunnable(g) == delay[g] = 0 /\ st[g] \in {"READY", "RUNNING"}

\* The guests a search that starts at s meets before g
Before(s, g) ==
    {h \in Guest : (h + NGuests - s) % NGuests < (g + NGuests - s) % NGuests}
FindsFrom(s, g) == GuestRunnable(g) /\ \A h \in Before(s, g) : ~GuestRunnable(h)

\* Mutant of Finds: the search starts at the guest that just ran.
FindsCurrent(g) == FindsFrom(cur, g)

\* find_next_runnable: boot searches from guest 0, the scheduler from the guest
\* after the current one.
Finds(g) ==
    FindsFrom(IF mode = "boot" THEN 0 ELSE (cur + 1) % NGuests, g)

\* Mutant of Remeasured: the first dispatch trusts the boot measurement.
RemeasuredNever(g) == TRUE

\* The first dispatch of a guest measures it again.
Remeasured(g) == g \in firstPending => Verified(g)

Scheduling == mode \in {"boot", "sched"}

DispatchGuest(g) ==
    /\ Scheduling /\ Finds(g) /\ Remeasured(g)
    /\ firstPending' = firstPending \ {g}
    /\ st' = [st EXCEPT ![g] = "RUNNING"]
    /\ cur' = g
    /\ mode' = "guest"
    /\ passed' = [h \in Guest |-> IF st[h] = "READY" /\ h # g THEN passed[h] + 1 ELSE 0]
    /\ UNCHANGED <<delay, guestRestarts, lastTick, ticks, image, owns, engine, since, burst>>

\* Refused at its first dispatch: the scheduler looks for another.
DispatchRefused(g) ==
    /\ Scheduling /\ Finds(g) /\ ~Remeasured(g)
    /\ firstPending' = firstPending \ {g}
    /\ st' = [st EXCEPT ![g] = "FAULTED"]
    /\ mode' = "sched"
    /\ UNCHANGED <<delay, guestRestarts, lastTick, ticks, cur, image, owns,
                   engine, since, burst, passed>>

NoneRunnable == \A g \in Guest : ~GuestRunnable(g)

AllTerminal == \A g \in Guest : st[g] = "FAULTED"

\* Nothing to run: halt when no guest can come back, else wait for the timer.
\* At boot no guest is waiting to be restarted.
Idle ==
    /\ Scheduling /\ NoneRunnable
    /\ mode' = IF mode = "boot" \/ AllTerminal THEN "halted" ELSE "idle"
    /\ UNCHANGED <<st, delay, guestRestarts, lastTick, ticks, cur, firstPending, image,
                   owns, engine, since, burst, passed>>

-----------------------------------------------------------------------------
(* The secure timer *)

\* The restart delay of g is over on this tick.
Due(g) == delay[g] <= 1 /\ st[g] = "RESTARTING"

\* The counter wraps; since is what a counter that does not would show.
Tick ==
    /\ ticks' = (ticks + 1) % TickMod
    /\ since' = [g \in Guest |-> IF since[g] < Window THEN since[g] + 1 ELSE Window]

\* save_running_guest
Saved(s) == IF s = "RUNNING" THEN "READY" ELSE s

\* tick_restart_backoff: a restart is a launch, so the image is measured again.
Backoff(saved) ==
    /\ delay' = [g \in Guest |-> IF delay[g] > 0 THEN delay[g] - 1 ELSE 0]
    /\ st' = [g \in Guest |->
           IF Due(g) THEN IF Verified(g) THEN "READY" ELSE "FAULTED"
           ELSE IF saved /\ g = cur THEN Saved(st[g]) ELSE st[g]]

\* Only a tick taken from Non-secure thread mode (wt_arch_trap_from_guest_thread)
\* ends the guest's slice.
TimerInGuest ==
    /\ mode = "guest"
    /\ Tick /\ Backoff(TRUE)
    /\ mode' = "sched"
    /\ UNCHANGED <<guestRestarts, lastTick, cur, firstPending, image, owns, engine, burst,
                   passed>>


\* A tick inside one of the guest's interrupt handlers does not preempt it.
TimerInHandler ==
    /\ mode = "handler"
    /\ Tick /\ Backoff(FALSE)
    /\ UNCHANGED <<guestRestarts, lastTick, cur, mode, firstPending, image, owns, engine,
                   burst, passed>>

\* A tick inside a secure service never preempts it, and in the HSM engine does
\* not always run the back-off either.
TimerInService ==
    /\ mode = "service"
    /\ Tick
    /\ \/ Backoff(FALSE)
       \/ engine = "hsm" /\ UNCHANGED <<delay, st>>
    /\ UNCHANGED <<guestRestarts, lastTick, cur, mode, firstPending, image, owns, engine,
                   burst, passed>>

TimerInIdle ==
    /\ mode = "idle"
    /\ Tick /\ Backoff(FALSE)
    /\ mode' = "sched"
    /\ UNCHANGED <<guestRestarts, lastTick, cur, firstPending, image, owns, engine, burst,
                   passed>>

-----------------------------------------------------------------------------
(* What the running guest does. It runs in thread mode or in one of its      *)
(* interrupt handlers, for as long as it likes, and enters services from both. *)

InGuest == mode \in {"guest", "handler"}

GuestHandler ==
    /\ \/ mode = "guest" /\ mode' = "handler"
       \/ mode = "handler" /\ mode' = "guest"
    /\ UNCHANGED <<st, delay, guestRestarts, lastTick, ticks, cur, firstPending, image,
                   owns, engine, since, burst, passed>>

EnterService ==
    /\ InGuest /\ mode' = "service"
    /\ UNCHANGED <<st, delay, guestRestarts, lastTick, ticks, cur, firstPending, image,
                   owns, engine, since, burst, passed>>

\* The call returns to the guest, which may be in a handler by then; the guest
\* may have opened or closed connections.
LeaveService ==
    /\ mode = "service" /\ mode' \in {"guest", "handler"}
    /\ owns' \in {owns, owns \cup {cur}, owns \ {cur}}
    /\ UNCHANGED <<st, delay, guestRestarts, lastTick, ticks, cur, firstPending, image,
                   engine, since, burst, passed>>

\* A guest's flash stops matching its measurement while some guest runs.
ImageChanges(g) ==
    /\ InGuest /\ image[g] = "good"
    /\ image' = [image EXCEPT ![g] = "bad"]
    /\ UNCHANGED <<st, delay, guestRestarts, lastTick, ticks, cur, mode, firstPending,
                   owns, engine, since, burst, passed>>

-----------------------------------------------------------------------------
(* Faults *)

Elapsed(g) == (ticks + TickMod - lastTick[g]) % TickMod

\* Mutant of Spent: wall time since boot clears the budget.
SpentEver(g) == IF ticks >= Window THEN 0 ELSE guestRestarts[g]

\* restart_policy_evaluate: the budget comes back only after a whole window
\* without a restart.
Spent(g) == IF guestRestarts[g] > 0 /\ Elapsed(g) >= Window THEN 0 ELSE guestRestarts[g]

\* fail_client_connections
Released(g) == owns \ {g}

FaultRestart ==
    /\ InGuest /\ Spent(cur) < GuestRestartLimit
    /\ owns' = Released(cur)
    /\ guestRestarts' = [guestRestarts EXCEPT ![cur] = Spent(cur) + 1]
    /\ lastTick' = [lastTick EXCEPT ![cur] = ticks]
    /\ st' = [st EXCEPT ![cur] = "RESTARTING"]
    /\ delay' = [delay EXCEPT ![cur] = Delay]
    /\ burst' = [burst EXCEPT ![cur] =
           IF guestRestarts[cur] > 0 /\ since[cur] < Window THEN @ + 1 ELSE 1]
    /\ since' = [since EXCEPT ![cur] = 0]
    /\ mode' = "sched"
    /\ UNCHANGED <<ticks, cur, firstPending, image, engine, passed>>

FaultQuarantine ==
    /\ InGuest /\ Spent(cur) >= GuestRestartLimit
    /\ owns' = Released(cur)
    /\ guestRestarts' = [guestRestarts EXCEPT ![cur] = Spent(cur)]
    /\ st' = [st EXCEPT ![cur] = "FAULTED"]
    /\ mode' = "sched"
    /\ UNCHANGED <<delay, lastTick, ticks, cur, firstPending, image, engine, since,
                   burst, passed>>

Schedule == (\E g \in Guest : DispatchGuest(g) \/ DispatchRefused(g)) \/ Idle
Timer == TimerInGuest \/ TimerInHandler \/ TimerInService \/ TimerInIdle

MonitorNext ==
    \/ \E g \in Guest : Quarantine(g) \/ ImageChanges(g)
    \/ Schedule \/ Timer
    \/ GuestHandler \/ EnterService \/ LeaveService
    \/ FaultRestart \/ FaultQuarantine

MonitorSpec == MonitorInit /\ [][MonitorNext]_monitorVars

\* The monitor's own loop, and a hardware timer that ticks for ever. Nothing is
\* assumed of the guests: they need not leave a handler or a service.
MonitorFairSpec == MonitorSpec /\ WF_monitorVars(Schedule) /\ WF_monitorVars(Timer)

-----------------------------------------------------------------------------
(* Properties *)

\* Exactly the guest the core is executing, or that called the service it is
\* executing, is RUNNING: no dispatch leaves a second guest behind in that
\* state, where it would be entered without a saved context.
OneRunning ==
    \A g \in Guest :
        st[g] = "RUNNING" <=> g = cur /\ mode \in {"guest", "handler", "service"}

\* A guest that is down owns no FF-M connection, whichever way it went down.
DownOwnsNothing ==
    \A g \in Guest : st[g] \in {"FAULTED", "RESTARTING"} => g \notin owns

\* A crash loop ends: restarts that each come within a window of the last one
\* never outnumber the limit, also when the tick counter wraps.
CrashLoopStops == \A g \in Guest : burst[g] <= GuestRestartLimit

\* The platform is halted only once no guest can ever run again.
HaltedOnlyWhenDown == mode = "halted" => \A g \in Guest : st[g] = "FAULTED"

\* What the monitor keeps of its guests is consistent on every path a guest can
\* go down or come back by: fault, back-off, failed measurement, quarantine and
\* halt (wt_restart_guest, wt_schedule_next_guest, the restart policy).
GuestsOK ==
    /\ MonitorTypeOK
    /\ OneRunning
    /\ DownOwnsNothing
    /\ CrashLoopStops
    /\ HaltedOnlyWhenDown

\* No step lets a guest in that must stay out. A quarantined guest is never
\* entered again (monitor.c:430, "terminal until an external policy action"),
\* and a guest with a launch policy is first entered, and comes back after a
\* fault, only from an image that matched its measurement at that moment
\* (wt_verify_guest_launch, wt_dispatch_guest, wt_tick_restart_backoff).
LaunchGated ==
    [][\A g \in Guest :
           /\ st[g] = "FAULTED" => st'[g] = "FAULTED"
           /\ /\ g \in Required
              /\ \/ g \in firstPending /\ st'[g] = "RUNNING"
                 \/ st[g] = "RESTARTING" /\ st'[g] = "READY"
              => image[g] = "good"]_monitorVars


\* Round robin keeps the turns (wt_find_next_runnable from the guest after the
\* current one): while a guest is READY at most every other guest is dispatched
\* once, also when others fault, are refused or come back from a restart in the
\* meantime.
TurnsKept == \A g \in Guest : st[g] = "READY" => passed[g] < NGuests
=============================================================================
