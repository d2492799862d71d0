------------------------------ MODULE MainLoop ------------------------------
(***************************************************************************)
(* The life of the engine process: its startup checks, the loop around     *)
(* run_cycle with its signals, --once and --chapters, the heartbeat it     *)
(* stamps and the CLI's verdict on it, and the systemd unit that starts,   *)
(* stops and restarts it.                                                  *)
(*                                                                         *)
(* Time passes in ticks.  A turn of run_cycle is the sequence of its long  *)
(* phases: a render resumed, pass 1, pass 2, a render; what it does to the *)
(* story is in module ChapterCycle.  tokio (external): a SIGTERM reaches   *)
(* the listeners that exist when it arrives; before the first listener of  *)
(* the process it has its default effect, and from then on it never has.   *)
(***************************************************************************)
EXTENDS Integers

CONSTANTS
  Invocations,   \* command lines: [once : BOOLEAN, limit : Nat \cup {NoLimit}]
  NoLimit,       \* no --chapters
  NoBeat,        \* no engine has ever run against this database
  PollTicks,     \* poll_interval: flag, environment or configuration
  ConfigTicks,   \* poll_interval_secs of the configuration the CLI reads
  Longest,       \* how long each phase of a turn may take
  StaleCycles,   \* STALE_AFTER_CYCLES
  StaleFloor,    \* STALE_FLOOR_SECS
  StopTicks,     \* TimeoutStopSec
  MaxProduced,   \* bound: chapters a process writes
  MaxFaults,     \* bound: crashes, failed calls and outages of a behaviour
  MaxOrders      \* bound: systemctl start and stop

CyclePhases == {"resume", "write", "extract", "render"}
InLoop      == {"between", "check", "sleep"} \cup CyclePhases

ASSUME TicksAssumption ==
  /\ PollTicks \in Nat \ {0} /\ ConfigTicks \in Nat /\ StopTicks \in Nat \ {0}
  /\ Longest \in [CyclePhases -> Nat \ {0}]
  /\ StaleCycles \in Nat /\ StaleFloor \in Nat /\ NoBeat \notin Nat
ASSUME InvocationsAssumption ==
  /\ Invocations \subseteq [once : BOOLEAN, limit : Nat \cup {NoLimit}]
  /\ NoLimit \notin Nat
ASSUME LimitsAssumption == MaxProduced \in Nat /\ MaxFaults \in Nat /\ MaxOrders \in Nat

VARIABLES
  (* the engine *)
  args,        \* Args
  phase,       \* where main is; "down" if there is no process
  work,        \* ticks spent there
  produced,    \* loop_until_signal's counter
  handled,     \* tokio has replaced the default effect of SIGTERM
  heard,       \* the listener at hand has been told
  (* the store *)
  beat,        \* age of the engine_heartbeat row, NoBeat without one
  ours,        \* its pid is that of the process at hand
  (* systemd *)
  unit,        \* "active", "stopping" or "inactive"
  waited,      \* ticks since `systemctl stop`
  exit,        \* how the last process ended
  (* the environment *)
  ember, faults, orders,
  (* history, read by the properties only *)
  askedIn,     \* where SIGTERM found the process
  laps,        \* turns begun since then, counted up to 2
  retried,     \* the turn at hand began with a resumed render
  cutIn        \* where a stop ended the process

beatVars    == <<beat, ours>>
signalVars  == <<handled, heard>>
unitVars    == <<unit, exit>>
worldVars   == <<ember, faults, orders>>
historyVars == <<askedIn, laps, retried, cutIn>>
vars == <<args, phase, work, beatVars, produced, signalVars, unitVars, waited,
          worldVars, historyVars>>

-----------------------------------------------------------------------------
(* The heartbeat and the CLI's verdict on it.                              *)

(* stale_after_secs.                                                       *)
staleAfter ==
  IF ConfigTicks * StaleCycles > StaleFloor THEN ConfigTicks * StaleCycles ELSE StaleFloor

(* engine_status: NeverSeen, or Reported with a verdict.                   *)
engineStatus ==
  IF beat = NoBeat THEN "never seen" ELSE IF beat > staleAfter THEN "stale" ELSE "fresh"

(* Mutant: the clock is set back, and the age is not clamped at 0.         *)
Older_Unclamped(age) == IF age = NoBeat THEN age ELSE age - 1

(* Ages are told apart up to the threshold; none is below 0.               *)
Older(age) == IF age = NoBeat \/ age > staleAfter THEN age ELSE age + 1

-----------------------------------------------------------------------------
Init ==
  /\ args \in Invocations
  /\ phase = "down" /\ work = 0 /\ produced = 0 /\ handled = FALSE /\ heard = FALSE
  /\ beat = NoBeat /\ ours = FALSE
  /\ unit \in {"active", "inactive"} /\ waited = 0 /\ exit = "none"
  /\ ember = "up" /\ faults = 0 /\ orders = 0
  /\ askedIn = "none" /\ laps = 0 /\ retried = FALSE /\ cutIn = "none"

Fault == faults < MaxFaults /\ faults' = faults + 1 /\ UNCHANGED orders
Order == orders < MaxOrders /\ orders' = orders + 1 /\ UNCHANGED <<ember, faults>>

Goto(p) == phase' = p /\ work' = 0

(* Mutant: no failure is restarted.                                        *)
Restarts_Never(how) == FALSE

(* Restart=on-failure, RestartPreventExitStatus=2; SIGTERM is a clean end. *)
Restarts(how) == how = "crash"

(* The process is gone.                                                    *)
Exit(how) ==
  /\ exit' = how
  /\ unit' = IF unit = "active" /\ Restarts(how) THEN "active" ELSE "inactive"
  /\ Goto("down") /\ waited' = 0
  /\ produced' = 0 /\ handled' = FALSE /\ heard' = FALSE
  /\ cutIn' = IF how \in {"sigterm", "sigkill"} THEN phase ELSE cutIn

(* stamp_heartbeat: a failure is logged and nothing else.                  *)
Stamp ==
  \/ beat' = 0 /\ ours' = TRUE /\ UNCHANGED worldVars
  \/ Fault /\ UNCHANGED <<beatVars, ember>>

-----------------------------------------------------------------------------
(* The engine.                                                             *)

Launch ==
  /\ phase = "down" /\ unit = "active"
  /\ Goto("starting")
  /\ ours' = FALSE /\ exit' = "none"
  /\ askedIn' = "none" /\ laps' = 0 /\ retried' = FALSE /\ cutIn' = "none"
  /\ UNCHANGED <<args, beat, waited, produced, signalVars, unit, worldVars>>

(* run: configuration, story row, backends, voices and Ember are checked;  *)
(* only Ember comes and goes.                                              *)
StartupFails ==
  /\ phase = "starting" /\ ember = "down"
  /\ Exit("startup")
  /\ UNCHANGED <<args, beatVars, worldVars, askedIn, laps, retried>>

(* Mutant: the heartbeat is stamped when there is something to render.     *)
BeginTurn_Working ==
  /\ \/ Goto("resume") /\ retried' = TRUE /\ Stamp
     \/ Goto("write") /\ retried' = FALSE /\ UNCHANGED <<beatVars, worldVars>>
  /\ laps' = IF unit = "stopping" /\ laps < 2 THEN laps + 1 ELSE laps

(* A turn begins: the heartbeat is stamped before any branch, and a        *)
(* chapter without audio, if there is one with retries left, is resumed.   *)
BeginTurn ==
  /\ \/ Goto("resume") /\ retried' = TRUE
     \/ Goto("write") /\ retried' = FALSE
  /\ Stamp
  /\ laps' = IF unit = "stopping" /\ laps < 2 THEN laps + 1 ELSE laps

StartOnce ==
  /\ phase = "starting" /\ ember = "up" /\ args.once
  /\ BeginTurn
  /\ UNCHANGED <<args, produced, signalVars, unitVars, waited, askedIn, cutIn>>

StartLoop ==
  /\ phase = "starting" /\ ember = "up" /\ ~args.once
  /\ Goto("between")
  /\ UNCHANGED <<args, beatVars, produced, signalVars, unitVars, waited>>
  /\ UNCHANGED <<worldVars, historyVars>>

(* Mutant: signals are first listened for in the sleep after a turn.       *)
Listen_Later ==
  /\ phase = "between"
  /\ Goto("check") /\ UNCHANGED handled /\ heard' = FALSE
  /\ UNCHANGED <<args, beatVars, produced, unitVars, waited, worldVars, historyVars>>

(* shutdown_requested makes a listener of its own ...                      *)
Listen ==
  /\ phase = "between"
  /\ Goto("check") /\ handled' = TRUE /\ heard' = FALSE
  /\ UNCHANGED <<args, beatVars, produced, unitVars, waited, worldVars, historyVars>>

(* ... and asks it once.                                                   *)
StopBetweenCycles ==
  /\ phase = "check" /\ heard
  /\ Exit("success")
  /\ UNCHANGED <<args, beatVars, worldVars, askedIn, laps, retried>>

BeginCycle ==
  /\ phase = "check" /\ ~heard
  /\ BeginTurn
  /\ UNCHANGED <<args, produced, signalVars, unitVars, waited, askedIn, cutIn>>

(* A failed resume goes on to write, and leaves no heartbeat.              *)
ResumeFails ==
  /\ phase = "resume"
  /\ Goto("write")
  /\ UNCHANGED <<args, beatVars, produced, signalVars, unitVars, waited>>
  /\ UNCHANGED <<worldVars, historyVars>>

WriteEnds ==
  /\ phase = "write" /\ ember = "up" /\ produced < MaxProduced
  /\ Goto("extract") /\ Stamp
  /\ UNCHANGED <<args, produced, signalVars, unitVars, waited, historyVars>>

ExtractEnds ==
  /\ phase = "extract"
  /\ Goto("render") /\ Stamp
  /\ UNCHANGED <<args, produced, signalVars, unitVars, waited, historyVars>>

(* sleep_or_shutdown makes its own listener.                               *)
Sleep ==
  /\ Goto("sleep")
  /\ handled' = TRUE /\ heard' = FALSE
  /\ UNCHANGED <<unitVars, waited, cutIn>>

(* run_cycle returned an outcome, having produced so many chapters.        *)
EndTurn(made) ==
  LET count == produced + made IN
    /\ \/ /\ args.once \/ (args.limit # NoLimit /\ count >= args.limit)
          /\ Exit("success")
       \/ /\ ~args.once /\ (args.limit # NoLimit => count < args.limit)
          /\ produced' = count
          /\ Sleep
    /\ UNCHANGED <<args, askedIn, laps, retried>>

(* ResumedRender; Idle, when the buffer is full, or Abandoned; Produced.   *)
Resumed   == phase = "resume" /\ EndTurn(0) /\ UNCHANGED <<beatVars, worldVars>>
NoChapter == phase = "write" /\ EndTurn(0) /\ UNCHANGED <<beatVars, worldVars>>
Produced  == phase = "render" /\ EndTurn(1) /\ Stamp

(* run_cycle returned an error, perhaps before its first heartbeat.        *)
CycleFails ==
  /\ phase \in CyclePhases \cup {"check"} /\ (phase = "check" => ~heard)
  /\ Fault
  /\ \/ args.once /\ Exit("startup")
     \/ ~args.once /\ Sleep /\ UNCHANGED produced
  /\ UNCHANGED <<args, beatVars, ember, askedIn, laps, retried>>

(* The timer of the sleep has run out.  select! takes either branch when   *)
(* both are ready.                                                         *)
SleepEnds ==
  /\ phase = "sleep" /\ work = PollTicks
  /\ Goto("between")
  /\ UNCHANGED <<args, beatVars, produced, signalVars, unitVars, waited>>
  /\ UNCHANGED <<worldVars, historyVars>>

StopInSleep ==
  /\ phase = "sleep" /\ heard
  /\ Exit("success")
  /\ UNCHANGED <<args, beatVars, worldVars, askedIn, laps, retried>>

-----------------------------------------------------------------------------
(* systemd, time and the environment.                                      *)

(* Where a listener exists.                                                *)
Listening == {"check", "sleep"}

(* Where SIGTERM finds the process: a sleep whose timer has run out is not *)
(* sure to hear it.                                                        *)
Whereabouts == IF phase = "sleep" /\ work = PollTicks THEN "waking" ELSE phase

(* systemctl stop.                                                         *)
Stop ==
  /\ unit = "active" /\ Order
  /\ askedIn' = Whereabouts
  /\ \/ /\ phase = "down"
        /\ unit' = "inactive"
        /\ UNCHANGED <<phase, work, produced, signalVars, waited, exit, cutIn>>
     \/ phase # "down" /\ ~handled /\ Exit("sigterm")
     \/ /\ handled
        /\ unit' = "stopping" /\ waited' = 0
        /\ heard' = (heard \/ phase \in Listening)
        /\ UNCHANGED <<phase, work, produced, handled, exit, cutIn>>
  /\ UNCHANGED <<args, beatVars, laps, retried>>

(* TimeoutStopSec is over.                                                 *)
Kill ==
  /\ unit = "stopping" /\ phase # "down" /\ waited = StopTicks
  /\ Exit("sigkill")
  /\ UNCHANGED <<args, beatVars, worldVars, askedIn, laps, retried>>

(* systemctl start.                                                        *)
Start ==
  /\ unit = "inactive" /\ phase = "down" /\ Order
  /\ unit' = "active"
  /\ UNCHANGED <<args, phase, work, beatVars, produced, signalVars, waited, exit, historyVars>>

Crash ==
  /\ phase # "down" /\ Fault
  /\ Exit("crash")
  /\ UNCHANGED <<args, beatVars, ember, askedIn, laps, retried>>

EmberFails ==
  /\ ember = "up" /\ ember' = "down" /\ Fault
  /\ UNCHANGED <<args, phase, work, beatVars, produced, signalVars, unitVars, waited, historyVars>>

EmberRecovers ==
  /\ ember = "down" /\ ember' = "up"
  /\ UNCHANGED <<args, phase, work, beatVars, produced, signalVars, unitVars, waited>>
  /\ UNCHANGED <<faults, orders, historyVars>>

(* What lasts: a phase of a turn, a sleep nobody has interrupted, the time *)
(* without a process, RestartSec or more.  The rest takes no time worth    *)
(* counting.                                                               *)
MayLast ==
  \/ phase = "down"
  \/ phase \in CyclePhases /\ work < Longest[phase]
  \/ phase = "sleep" /\ work < PollTicks /\ ~heard

Tick ==
  /\ MayLast
  /\ unit = "stopping" => waited < StopTicks
  /\ work' = IF phase = "down" THEN 0 ELSE work + 1
  /\ waited' = IF unit = "stopping" THEN waited + 1 ELSE 0
  /\ beat' = Older(beat)
  /\ UNCHANGED <<args, phase, ours, produced, signalVars, unitVars, worldVars, historyVars>>

-----------------------------------------------------------------------------
Engine ==
  \/ StartupFails \/ StartOnce \/ StartLoop
  \/ Listen \/ StopBetweenCycles \/ BeginCycle
  \/ ResumeFails \/ WriteEnds \/ ExtractEnds
  \/ Resumed \/ NoChapter \/ Produced
  \/ SleepEnds \/ StopInSleep

Next ==
  \/ Engine \/ CycleFails \/ Crash
  \/ Launch \/ Stop \/ Kill \/ Start
  \/ EmberFails \/ EmberRecovers
  \/ Tick

Spec == Init /\ [][Next]_vars

(* The engine's code goes on when nothing holds it up, a phase ends when   *)
(* its time is over, systemd and the clock do their work, and outages end. *)
Fairness ==
  /\ WF_vars(Engine) /\ WF_vars(Tick) /\ WF_vars(Launch) /\ WF_vars(Kill)
  /\ WF_vars(EmberRecovers)

FairSpec == Spec /\ Fairness

-----------------------------------------------------------------------------
Ends == {"none", "success", "startup", "crash", "sigterm", "sigkill"}
Phases == {"down", "starting"} \cup InLoop

TypeOK ==
  /\ args \in Invocations
  /\ phase \in Phases /\ work \in Nat /\ produced \in Nat
  /\ handled \in BOOLEAN /\ heard \in BOOLEAN
  /\ beat \in Nat \cup {NoBeat} /\ ours \in BOOLEAN
  /\ unit \in {"active", "stopping", "inactive"}
  /\ waited \in 0..StopTicks /\ exit \in Ends
  /\ ember \in {"up", "down"} /\ faults \in 0..MaxFaults /\ orders \in 0..MaxOrders
  /\ askedIn \in Phases \cup {"none", "waking"} /\ laps \in 0..2
  /\ retried \in BOOLEAN /\ cutIn \in Phases \cup {"none"}

(* The CLI never says of an engine that runs that it has probably stopped, *)
(* however long its phases, however full the buffer, and although a few    *)
(* heartbeats may be lost (cli engine.rs:110-118, cycle.rs:370-373).       *)
AliveIsNotStale == ours /\ phase # "down" => engineStatus = "fresh"

(* A stop that finds the engine asleep ends it cleanly: no new turn, no    *)
(* SIGKILL (main.rs:486-492).                                              *)
IdleStopIsClean ==
  askedIn = "sleep" => (phase = "sleep" /\ heard) \/ exit \in {"success", "crash"}

(* TimeoutStopSec lets the chapter in flight finish: a stop never cuts the *)
(* turn it arrived in, unless that turn had first retried a render; --once *)
(* has no handler at all (litrpg-engine.service:35-37).                    *)
StopSparesItsChapter ==
  cutIn \in CyclePhases /\ ~args.once => laps > 0 \/ retried

(* An outage or a failed store call never ends the loop: the process gives *)
(* up only at startup (main.rs:429-431).                                   *)
LoopNeverGivesUp ==
  [][(phase \in InLoop /\ ~args.once) => exit' # "startup"]_exit

(* A crashed engine comes back unless it finds Ember down or is stopped.   *)
CrashedComesBack ==
  (exit = "crash" /\ askedIn = "none") ~> (phase \in InLoop \/ exit = "startup" \/ askedIn # "none")

(* The unit file (:35-37): signals are checked between cycles, so a stop *)
(* during a turn is honoured at its end.                                   *)
StopHonouredBetweenCycles == askedIn \in CyclePhases => laps = 0
=============================================================================
