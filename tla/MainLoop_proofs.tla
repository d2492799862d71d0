-------------------------- MODULE MainLoop_proofs ---------------------------
(***************************************************************************)
(* Proofs about the life of the engine process, for every poll interval,   *)
(* every length of the phases and any number of faults and orders: what a  *)
(* stop may end, and how old a heartbeat may be.                           *)
(***************************************************************************)
EXTENDS MainLoop, TLAPS

(* A turn without a resumed render is over before systemd loses patience.  *)
ChapterFits == Longest["write"] + Longest["extract"] + Longest["render"] < StopTicks

-----------------------------------------------------------------------------
(* The inductive invariant.                                                *)

(* From the first turn on a listener has been made; a phase lasts no       *)
(* longer than it may; only a process that is gone was cut.                *)
Standing ==
  /\ ~args.once /\ phase \in {"check", "sleep"} \cup CyclePhases => handled
  /\ phase = "sleep" => handled
  /\ phase \in CyclePhases => work <= Longest[phase]
  /\ phase = "resume" => retried = TRUE
  /\ cutIn # "none" => phase = "down"

(* A stop that found the engine asleep has been heard, at a moment when    *)
(* the timer cannot win, or has taken effect.                              *)
AskedAsleep ==
  askedIn = "sleep" =>
    \/ phase = "sleep" /\ heard /\ work # PollTicks /\ unit = "stopping" /\ waited = 0
    \/ phase = "down" /\ exit \in {"success", "crash"}

(* How long a stop has waited, in the turn it arrived in.                  *)
WaitedSoFar ==
  unit = "stopping" /\ laps = 0 /\ ~retried =>
    /\ phase = "write" => waited <= work
    /\ phase = "extract" => waited <= Longest["write"] + work
    /\ phase = "render" => waited <= Longest["write"] + Longest["extract"] + work

StopInvariant == Standing /\ AskedAsleep /\ WaitedSoFar /\ StopSparesItsChapter

-----------------------------------------------------------------------------
(* TypeOK in two parts: the flags, and what has more values.               *)
FlagsOK ==
  handled \in BOOLEAN /\ heard \in BOOLEAN /\ ours \in BOOLEAN /\ retried \in BOOLEAN

RangesOK ==
  /\ args \in Invocations
  /\ phase \in Phases /\ work \in Nat /\ produced \in Nat
  /\ beat \in Nat \cup {NoBeat}
  /\ unit \in {"active", "stopping", "inactive"}
  /\ waited \in 0..StopTicks /\ exit \in Ends
  /\ ember \in {"up", "down"} /\ faults \in 0..MaxFaults /\ orders \in 0..MaxOrders
  /\ askedIn \in Phases \cup {"none", "waking"} /\ laps \in 0..2
  /\ cutIn \in Phases \cup {"none"}

LEMMA TypeParts == (TypeOK <=> FlagsOK /\ RangesOK) /\ (TypeOK' <=> FlagsOK' /\ RangesOK')
  BY Zenon DEF TypeOK, FlagsOK, RangesOK

(* Every step keeps every variable in its range.                           *)
LEMMA TypeStep == TypeOK /\ [Next]_vars => TypeOK'
<1> SUFFICES ASSUME FlagsOK, RangesOK, [Next]_vars PROVE FlagsOK' /\ RangesOK'
  BY TypeParts
<1> USE TicksAssumption, LimitsAssumption
    DEF TicksAssumption, LimitsAssumption, vars, beatVars, signalVars, unitVars, worldVars,
        historyVars, InLoop, CyclePhases, Phases, Ends
<1>1. CASE StartupFails
  <2>1. FlagsOK'
    BY <1>1 DEF FlagsOK, StartupFails, Exit, Goto, Restarts
  <2>2. RangesOK'
    BY <1>1 DEF RangesOK, StartupFails, Exit, Goto, Restarts
  <2>3. QED
    BY <2>1, <2>2
<1>2. CASE StartOnce
  <2>1. FlagsOK'
    BY <1>2 DEF FlagsOK, StartOnce, BeginTurn, Goto, Stamp, Fault
  <2>2. RangesOK'
    BY <1>2 DEF RangesOK, StartOnce, BeginTurn, Goto, Stamp, Fault
  <2>3. QED
    BY <2>1, <2>2
<1>3. CASE StartLoop
  <2>1. FlagsOK'
    BY <1>3 DEF FlagsOK, StartLoop, Goto
  <2>2. RangesOK'
    BY <1>3 DEF RangesOK, StartLoop, Goto
  <2>3. QED
    BY <2>1, <2>2
<1>4. CASE Listen
  <2>1. FlagsOK'
    BY <1>4 DEF FlagsOK, Listen, Goto
  <2>2. RangesOK'
    BY <1>4 DEF RangesOK, Listen, Goto
  <2>3. QED
    BY <2>1, <2>2
<1>5. CASE StopBetweenCycles
  <2>1. FlagsOK'
    BY <1>5 DEF FlagsOK, StopBetweenCycles, Exit, Goto, Restarts
  <2>2. RangesOK'
    BY <1>5 DEF RangesOK, StopBetweenCycles, Exit, Goto, Restarts
  <2>3. QED
    BY <2>1, <2>2
<1>6. CASE BeginCycle
  <2>1. FlagsOK'
    BY <1>6 DEF FlagsOK, BeginCycle, BeginTurn, Goto, Stamp, Fault
  <2>2. RangesOK'
    BY <1>6 DEF RangesOK, BeginCycle, BeginTurn, Goto, Stamp, Fault
  <2>3. QED
    BY <2>1, <2>2
<1>7. CASE ResumeFails
  <2>1. FlagsOK'
    BY <1>7 DEF FlagsOK, ResumeFails, Goto
  <2>2. RangesOK'
    BY <1>7 DEF RangesOK, ResumeFails, Goto
  <2>3. QED
    BY <2>1, <2>2
<1>8. CASE WriteEnds
  <2>1. FlagsOK'
    BY <1>8 DEF FlagsOK, WriteEnds, Goto, Stamp, Fault
  <2>2. RangesOK'
    BY <1>8 DEF RangesOK, WriteEnds, Goto, Stamp, Fault
  <2>3. QED
    BY <2>1, <2>2
<1>9. CASE ExtractEnds
  <2>1. FlagsOK'
    BY <1>9 DEF FlagsOK, ExtractEnds, Goto, Stamp, Fault
  <2>2. RangesOK'
    BY <1>9 DEF RangesOK, ExtractEnds, Goto, Stamp, Fault
  <2>3. QED
    BY <2>1, <2>2
<1>10. CASE Resumed
  <2>1. FlagsOK'
    BY <1>10 DEF FlagsOK, Resumed, EndTurn, Sleep, Exit, Goto, Restarts
  <2>2. RangesOK'
    BY <1>10 DEF RangesOK, Resumed, EndTurn, Sleep, Exit, Goto, Restarts
  <2>3. QED
    BY <2>1, <2>2
<1>11. CASE NoChapter
  <2>1. FlagsOK'
    BY <1>11 DEF FlagsOK, NoChapter, EndTurn, Sleep, Exit, Goto, Restarts
  <2>2. RangesOK'
    BY <1>11 DEF RangesOK, NoChapter, EndTurn, Sleep, Exit, Goto, Restarts
  <2>3. QED
    BY <2>1, <2>2
<1>12. CASE Produced
  <2>1. FlagsOK'
    BY <1>12 DEF FlagsOK, Produced, EndTurn, Sleep, Exit, Goto, Restarts, Stamp, Fault
  <2>2. RangesOK'
    BY <1>12 DEF RangesOK, Produced, EndTurn, Sleep, Exit, Goto, Restarts, Stamp, Fault
  <2>3. QED
    BY <2>1, <2>2
<1>13. CASE SleepEnds
  <2>1. FlagsOK'
    BY <1>13 DEF FlagsOK, SleepEnds, Goto
  <2>2. RangesOK'
    BY <1>13 DEF RangesOK, SleepEnds, Goto
  <2>3. QED
    BY <2>1, <2>2
<1>14. CASE StopInSleep
  <2>1. FlagsOK'
    BY <1>14 DEF FlagsOK, StopInSleep, Exit, Goto, Restarts
  <2>2. RangesOK'
    BY <1>14 DEF RangesOK, StopInSleep, Exit, Goto, Restarts
  <2>3. QED
    BY <2>1, <2>2
<1>15. CASE CycleFails
  <2>1. FlagsOK'
    BY <1>15 DEF FlagsOK, CycleFails, Sleep, Exit, Goto, Restarts, Fault
  <2>2. RangesOK'
    BY <1>15 DEF RangesOK, CycleFails, Sleep, Exit, Goto, Restarts, Fault
  <2>3. QED
    BY <2>1, <2>2
<1>16. CASE Crash
  <2>1. FlagsOK'
    BY <1>16 DEF FlagsOK, Crash, Exit, Goto, Restarts, Fault
  <2>2. RangesOK'
    BY <1>16 DEF RangesOK, Crash, Exit, Goto, Restarts, Fault
  <2>3. QED
    BY <2>1, <2>2
<1>17. CASE Launch
  <2>1. FlagsOK'
    BY <1>17 DEF FlagsOK, Launch, Goto
  <2>2. RangesOK'
    BY <1>17 DEF RangesOK, Launch, Goto
  <2>3. QED
    BY <2>1, <2>2
<1>18. CASE Stop
  <2>1. FlagsOK'
    BY <1>18 DEF FlagsOK, Stop, Exit, Goto, Restarts, Order, Whereabouts, Listening
  <2>2. RangesOK'
    BY <1>18 DEF RangesOK, Stop, Exit, Goto, Restarts, Order, Whereabouts, Listening
  <2>3. QED
    BY <2>1, <2>2
<1>19. CASE Kill
  <2>1. FlagsOK'
    BY <1>19 DEF FlagsOK, Kill, Exit, Goto, Restarts
  <2>2. RangesOK'
    BY <1>19 DEF RangesOK, Kill, Exit, Goto, Restarts
  <2>3. QED
    BY <2>1, <2>2
<1>20. CASE Start
  <2>1. FlagsOK'
    BY <1>20 DEF FlagsOK, Start, Order
  <2>2. RangesOK'
    BY <1>20 DEF RangesOK, Start, Order
  <2>3. QED
    BY <2>1, <2>2
<1>21. CASE EmberFails
  <2>1. FlagsOK'
    BY <1>21 DEF FlagsOK, EmberFails, Fault
  <2>2. RangesOK'
    BY <1>21 DEF RangesOK, EmberFails, Fault
  <2>3. QED
    BY <2>1, <2>2
<1>22. CASE EmberRecovers
  <2>1. FlagsOK'
    BY <1>22 DEF FlagsOK, EmberRecovers
  <2>2. RangesOK'
    BY <1>22 DEF RangesOK, EmberRecovers
  <2>3. QED
    BY <2>1, <2>2
<1>23. CASE Tick
  <2>1. FlagsOK'
    BY <1>23 DEF FlagsOK, Tick, MayLast, Older
  <2>2. RangesOK'
    BY <1>23 DEF RangesOK, Tick, MayLast, Older
  <2>3. QED
    BY <2>1, <2>2
<1>24. CASE UNCHANGED vars
  <2>1. FlagsOK'
    BY <1>24 DEF FlagsOK
  <2>2. RangesOK'
    BY <1>24 DEF RangesOK
  <2>3. QED
    BY <2>1, <2>2
<1>25. QED
  BY <1>1, <1>2, <1>3, <1>4, <1>5, <1>6, <1>7, <1>8, <1>9, <1>10, <1>11, <1>12, <1>13,
     <1>14, <1>15, <1>16, <1>17, <1>18, <1>19, <1>20, <1>21, <1>22, <1>23, <1>24
  DEF Next, Engine

(* What a turn begins with.                                                *)
LEMMA BeginTurnEffect ==
  BeginTurn => work' = 0 /\ (phase' = "write" \/ (phase' = "resume" /\ retried' = TRUE))
  BY DEF BeginTurn, Goto

(* A stop ends the process, or leaves it alone but for what it hears.      *)
LEMMA StopEffect ==
  Stop => /\ args' = args /\ retried' = retried
          /\ phase' = "down" \/ UNCHANGED <<phase, work, handled, cutIn>>
  BY DEF Stop, Exit, Goto, signalVars

(* No step breaks what Standing says.                                      *)
LEMMA StandingStep == TypeOK /\ Standing /\ [Next]_vars => Standing'
<1> SUFFICES ASSUME TypeOK, Standing, [Next]_vars PROVE Standing'
  OBVIOUS
<1> USE TicksAssumption
    DEF TicksAssumption, TypeOK, Standing, vars, beatVars,
        signalVars, unitVars, worldVars, historyVars, InLoop, CyclePhases, Phases
<1>1. CASE StartupFails
  BY <1>1 DEF StartupFails, Exit, Goto, Restarts
<1>2. CASE StartOnce
  BY <1>2, BeginTurnEffect DEF StartOnce
<1>3. CASE StartLoop
  BY <1>3 DEF StartLoop, Goto
<1>4. CASE Listen
  BY <1>4 DEF Listen, Goto
<1>5. CASE StopBetweenCycles
  BY <1>5 DEF StopBetweenCycles, Exit, Goto, Restarts
<1>6. CASE BeginCycle
  BY <1>6, BeginTurnEffect DEF BeginCycle
<1>7. CASE ResumeFails
  BY <1>7 DEF ResumeFails, Goto
<1>8. CASE WriteEnds
  BY <1>8 DEF WriteEnds, Goto, Stamp, Fault
<1>9. CASE ExtractEnds
  BY <1>9 DEF ExtractEnds, Goto, Stamp, Fault
<1>10. CASE Resumed
  BY <1>10 DEF Resumed, EndTurn, Sleep, Exit, Goto, Restarts
<1>11. CASE NoChapter
  BY <1>11 DEF NoChapter, EndTurn, Sleep, Exit, Goto, Restarts
<1>12. CASE Produced
  BY <1>12 DEF Produced, EndTurn, Sleep, Exit, Goto, Restarts, Stamp, Fault
<1>13. CASE SleepEnds
  BY <1>13 DEF SleepEnds, Goto
<1>14. CASE StopInSleep
  BY <1>14 DEF StopInSleep, Exit, Goto, Restarts
<1>15. CASE CycleFails
  BY <1>15 DEF CycleFails, Sleep, Exit, Goto, Restarts, Fault
<1>16. CASE Crash
  BY <1>16 DEF Crash, Exit, Goto, Restarts, Fault
<1>17. CASE Launch
  BY <1>17 DEF Launch, Goto
<1>18. CASE Stop
  BY <1>18, StopEffect
<1>19. CASE Kill
  BY <1>19 DEF Kill, Exit, Goto, Restarts
<1>20. CASE Start
  BY <1>20 DEF Start, Order
<1>21. CASE EmberFails
  BY <1>21 DEF EmberFails, Fault
<1>22. CASE EmberRecovers
  BY <1>22 DEF EmberRecovers
<1>23. CASE Tick
  BY <1>23 DEF Tick, MayLast, Older
<1>24. CASE UNCHANGED vars
  BY <1>24
<1>25. QED
  BY <1>1, <1>2, <1>3, <1>4, <1>5, <1>6, <1>7, <1>8, <1>9, <1>10, <1>11, <1>12, <1>13,
     <1>14, <1>15, <1>16, <1>17, <1>18, <1>19, <1>20, <1>21, <1>22, <1>23, <1>24
  DEF Next, Engine

(* A stop heard asleep stays heard until the process has ended cleanly.    *)
LEMMA AsleepStep == TypeOK /\ Standing /\ AskedAsleep /\ [Next]_vars => AskedAsleep'
<1> SUFFICES ASSUME TypeOK, Standing, AskedAsleep, [Next]_vars PROVE AskedAsleep'
  OBVIOUS
<1> USE TicksAssumption
    DEF TicksAssumption, TypeOK, AskedAsleep, vars, beatVars,
        signalVars, unitVars, worldVars, historyVars, InLoop, CyclePhases, Phases
<1>1. CASE StartupFails
  BY <1>1 DEF StartupFails, Exit, Goto, Restarts
<1>2. CASE StartOnce
  BY <1>2 DEF StartOnce, BeginTurn, Goto, Stamp, Fault
<1>3. CASE StartLoop
  BY <1>3 DEF StartLoop, Goto
<1>4. CASE Listen
  BY <1>4 DEF Listen, Goto
<1>5. CASE StopBetweenCycles
  BY <1>5 DEF StopBetweenCycles, Exit, Goto, Restarts
<1>6. CASE BeginCycle
  BY <1>6 DEF BeginCycle, BeginTurn, Goto, Stamp, Fault
<1>7. CASE ResumeFails
  BY <1>7 DEF ResumeFails, Goto
<1>8. CASE WriteEnds
  BY <1>8 DEF WriteEnds, Goto, Stamp, Fault
<1>9. CASE ExtractEnds
  BY <1>9 DEF ExtractEnds, Goto, Stamp, Fault
<1>10. CASE Resumed
  BY <1>10 DEF Resumed, EndTurn, Sleep, Exit, Goto, Restarts
<1>11. CASE NoChapter
  BY <1>11 DEF NoChapter, EndTurn, Sleep, Exit, Goto, Restarts
<1>12. CASE Produced
  BY <1>12 DEF Produced, EndTurn, Sleep, Exit, Goto, Restarts, Stamp, Fault
<1>13. CASE SleepEnds
  BY <1>13 DEF SleepEnds, Goto
<1>14. CASE StopInSleep
  BY <1>14 DEF StopInSleep, Exit, Goto, Restarts
<1>15. CASE CycleFails
  BY <1>15 DEF CycleFails, Sleep, Exit, Goto, Restarts, Fault
<1>16. CASE Crash
  BY <1>16 DEF Crash, Exit, Goto, Restarts, Fault
<1>17. CASE Launch
  BY <1>17 DEF Launch, Goto
<1>18. CASE Stop
  <2> SUFFICES ASSUME askedIn' = "sleep" PROVE AskedAsleep'
    OBVIOUS
  <2>1. phase = "sleep" /\ work # PollTicks
    BY <1>18 DEF Stop, Whereabouts
  <2>2. handled
    BY <2>1 DEF Standing
  <2>3. /\ unit' = "stopping" /\ waited' = 0 /\ UNCHANGED <<phase, work>>
        /\ heard' = (heard \/ phase \in Listening)
    BY <1>18, <2>1, <2>2 DEF Stop
  <2>4. heard'
    BY <2>1, <2>3, Zenon DEF Listening
  <2>5. QED
    BY <2>1, <2>3, <2>4
<1>19. CASE Kill
  BY <1>19 DEF Kill, Exit, Goto, Restarts
<1>20. CASE Start
  BY <1>20 DEF Start, Order
<1>21. CASE EmberFails
  BY <1>21 DEF EmberFails, Fault
<1>22. CASE EmberRecovers
  BY <1>22 DEF EmberRecovers
<1>23. CASE Tick
  BY <1>23 DEF Tick, MayLast, Older
<1>24. CASE UNCHANGED vars
  BY <1>24
<1>25. QED
  BY <1>1, <1>2, <1>3, <1>4, <1>5, <1>6, <1>7, <1>8, <1>9, <1>10, <1>11, <1>12, <1>13,
     <1>14, <1>15, <1>16, <1>17, <1>18, <1>19, <1>20, <1>21, <1>22, <1>23, <1>24
  DEF Next, Engine

(* A stop waits no longer than the phases that have passed since.          *)
LEMMA WaitedStep ==
  TypeOK /\ Standing /\ WaitedSoFar /\ [Next]_vars => WaitedSoFar'
<1> SUFFICES ASSUME TypeOK, Standing, WaitedSoFar, [Next]_vars PROVE WaitedSoFar'
  OBVIOUS
<1> USE TicksAssumption
    DEF TicksAssumption, TypeOK, Standing, WaitedSoFar, vars, beatVars,
        signalVars, unitVars, worldVars, historyVars, InLoop, CyclePhases, Phases
<1>1. CASE StartupFails
  BY <1>1 DEF StartupFails, Exit, Goto, Restarts
<1>2. CASE StartOnce
  BY <1>2 DEF StartOnce, BeginTurn, Goto, Stamp, Fault
<1>3. CASE StartLoop
  BY <1>3 DEF StartLoop, Goto
<1>4. CASE Listen
  BY <1>4 DEF Listen, Goto
<1>5. CASE StopBetweenCycles
  BY <1>5 DEF StopBetweenCycles, Exit, Goto, Restarts
<1>6. CASE BeginCycle
  BY <1>6 DEF BeginCycle, BeginTurn, Goto, Stamp, Fault
<1>7. CASE ResumeFails
  BY <1>7 DEF ResumeFails, Goto
<1>8. CASE WriteEnds
  BY <1>8 DEF WriteEnds, Goto, Stamp, Fault
<1>9. CASE ExtractEnds
  BY <1>9 DEF ExtractEnds, Goto, Stamp, Fault
<1>10. CASE Resumed
  BY <1>10 DEF Resumed, EndTurn, Sleep, Exit, Goto, Restarts
<1>11. CASE NoChapter
  BY <1>11 DEF NoChapter, EndTurn, Sleep, Exit, Goto, Restarts
<1>12. CASE Produced
  BY <1>12 DEF Produced, EndTurn, Sleep, Exit, Goto, Restarts, Stamp, Fault
<1>13. CASE SleepEnds
  BY <1>13 DEF SleepEnds, Goto
<1>14. CASE StopInSleep
  BY <1>14 DEF StopInSleep, Exit, Goto, Restarts
<1>15. CASE CycleFails
  BY <1>15 DEF CycleFails, Sleep, Exit, Goto, Restarts, Fault
<1>16. CASE Crash
  BY <1>16 DEF Crash, Exit, Goto, Restarts, Fault
<1>17. CASE Launch
  BY <1>17 DEF Launch, Goto
<1>18. CASE Stop
  BY <1>18 DEF Stop, Exit, Goto, Restarts, Order, Whereabouts, Listening
<1>19. CASE Kill
  BY <1>19 DEF Kill, Exit, Goto, Restarts
<1>20. CASE Start
  BY <1>20 DEF Start, Order
<1>21. CASE EmberFails
  BY <1>21 DEF EmberFails, Fault
<1>22. CASE EmberRecovers
  BY <1>22 DEF EmberRecovers
<1>23. CASE Tick
  BY <1>23 DEF Tick, MayLast, Older
<1>24. CASE UNCHANGED vars
  BY <1>24
<1>25. QED
  BY <1>1, <1>2, <1>3, <1>4, <1>5, <1>6, <1>7, <1>8, <1>9, <1>10, <1>11, <1>12, <1>13,
     <1>14, <1>15, <1>16, <1>17, <1>18, <1>19, <1>20, <1>21, <1>22, <1>23, <1>24
  DEF Next, Engine

(* No step cuts the chapter a stop found under way.                        *)
LEMMA SparedStep ==
  ASSUME ChapterFits
  PROVE  TypeOK /\ Standing /\ WaitedSoFar /\ StopSparesItsChapter /\ [Next]_vars
           => StopSparesItsChapter'
<1> SUFFICES ASSUME TypeOK, Standing, WaitedSoFar, StopSparesItsChapter, [Next]_vars
             PROVE StopSparesItsChapter'
  OBVIOUS
<1> USE TicksAssumption
    DEF TicksAssumption, TypeOK, Standing, WaitedSoFar, StopSparesItsChapter, vars, beatVars,
        signalVars, unitVars, worldVars, historyVars, InLoop, CyclePhases, Phases
<1>1. CASE StartupFails
  BY <1>1 DEF StartupFails, Exit, Goto, Restarts
<1>2. CASE StartOnce
  BY <1>2 DEF StartOnce, BeginTurn, Goto, Stamp, Fault
<1>3. CASE StartLoop
  BY <1>3 DEF StartLoop, Goto
<1>4. CASE Listen
  BY <1>4 DEF Listen, Goto
<1>5. CASE StopBetweenCycles
  BY <1>5 DEF StopBetweenCycles, Exit, Goto, Restarts
<1>6. CASE BeginCycle
  BY <1>6 DEF BeginCycle, BeginTurn, Goto, Stamp, Fault
<1>7. CASE ResumeFails
  BY <1>7 DEF ResumeFails, Goto
<1>8. CASE WriteEnds
  BY <1>8 DEF WriteEnds, Goto, Stamp, Fault
<1>9. CASE ExtractEnds
  BY <1>9 DEF ExtractEnds, Goto, Stamp, Fault
<1>10. CASE Resumed
  BY <1>10 DEF Resumed, EndTurn, Sleep, Exit, Goto, Restarts
<1>11. CASE NoChapter
  BY <1>11 DEF NoChapter, EndTurn, Sleep, Exit, Goto, Restarts
<1>12. CASE Produced
  BY <1>12 DEF Produced, EndTurn, Sleep, Exit, Goto, Restarts, Stamp, Fault
<1>13. CASE SleepEnds
  BY <1>13 DEF SleepEnds, Goto
<1>14. CASE StopInSleep
  BY <1>14 DEF StopInSleep, Exit, Goto, Restarts
<1>15. CASE CycleFails
  BY <1>15 DEF CycleFails, Sleep, Exit, Goto, Restarts, Fault
<1>16. CASE Crash
  BY <1>16 DEF Crash, Exit, Goto, Restarts, Fault
<1>17. CASE Launch
  BY <1>17 DEF Launch, Goto
<1>18. CASE Stop
  BY <1>18 DEF Stop, Exit, Goto, Restarts, Order, Whereabouts, Listening
<1>19. CASE Kill
  BY <1>19, ChapterFits DEF ChapterFits, Kill, Exit, Goto, Restarts
<1>20. CASE Start
  BY <1>20 DEF Start, Order
<1>21. CASE EmberFails
  BY <1>21 DEF EmberFails, Fault
<1>22. CASE EmberRecovers
  BY <1>22 DEF EmberRecovers
<1>23. CASE Tick
  BY <1>23 DEF Tick, MayLast, Older
<1>24. CASE UNCHANGED vars
  BY <1>24
<1>25. QED
  BY <1>1, <1>2, <1>3, <1>4, <1>5, <1>6, <1>7, <1>8, <1>9, <1>10, <1>11, <1>12, <1>13,
     <1>14, <1>15, <1>16, <1>17, <1>18, <1>19, <1>20, <1>21, <1>22, <1>23, <1>24
  DEF Next, Engine

-----------------------------------------------------------------------------
(* Every variable stays in its range, for any command lines, intervals and *)
(* bounds.                                                                 *)
THEOREM LoopTypes == Spec => []TypeOK
<1>1. Init => TypeOK
  <2> USE TicksAssumption, LimitsAssumption DEF TicksAssumption, LimitsAssumption, Init
  <2>1. Init => FlagsOK
    BY DEF FlagsOK
  <2>2. Init => RangesOK
    BY DEF RangesOK, Phases, InLoop, CyclePhases, Ends
  <2>3. QED
    BY <2>1, <2>2, TypeParts
<1>2. QED
  BY <1>1, TypeStep, PTL DEF Spec

(* Initially no process exists.                                            *)
LEMMA StopInit == Init => StopInvariant
  BY DEF Init, StopInvariant, Standing, AskedAsleep, WaitedSoFar, StopSparesItsChapter, CyclePhases

(* sleep_or_shutdown keeps its word: a stop that arrives in the sleep, and *)
(* not at its very end, ends the process with success, unless it dies of   *)
(* something else first; never with SIGKILL and never after another turn.  *)
THEOREM SleepersStopCleanly == Spec => []IdleStopIsClean
<1>1. Init => Standing /\ AskedAsleep
  BY StopInit DEF StopInvariant
<1>2. AskedAsleep => IdleStopIsClean
  BY DEF AskedAsleep, IdleStopIsClean
<1>3. QED
  BY <1>1, <1>2, StandingStep, AsleepStep, LoopTypes, PTL DEF Spec

(* If the phases of a chapter fit into TimeoutStopSec, no stop of the unit *)
(* kills the turn it arrived in, unless that turn began with a resumed     *)
(* render.                                                                 *)
THEOREM ChaptersAreSpared ==
  ASSUME ChapterFits
  PROVE  Spec => []StopSparesItsChapter
<1>1. Init => Standing /\ WaitedSoFar /\ StopSparesItsChapter
  BY StopInit DEF StopInvariant
<1>2. TypeOK /\ Standing /\ WaitedSoFar /\ StopSparesItsChapter /\ [Next]_vars
        => Standing' /\ WaitedSoFar' /\ StopSparesItsChapter'
  BY StandingStep, WaitedStep, SparedStep
<1>3. QED
  BY <1>1, <1>2, LoopTypes, PTL DEF Spec

(* Once it is in its loop, the process never exits with 2.                 *)
THEOREM LoopGoesOn == Spec => LoopNeverGivesUp
<1>1. TypeOK /\ [Next]_vars => [(phase \in InLoop /\ ~args.once) => exit' # "startup"]_exit
  <2> SUFFICES ASSUME TypeOK, Next, exit' # exit, phase \in InLoop, ~args.once
               PROVE exit' # "startup"
    BY DEF vars, unitVars
  <2>1. CASE Engine
    BY <2>1 DEF Engine, StartupFails, StartOnce, StartLoop, Listen, StopBetweenCycles, BeginCycle,
       ResumeFails, WriteEnds, ExtractEnds, Resumed, NoChapter, Produced, SleepEnds, StopInSleep,
       EndTurn, Exit, Sleep, unitVars, InLoop, CyclePhases
  <2>2. CASE CycleFails
    BY <2>2 DEF CycleFails, Sleep, unitVars
  <2>3. CASE Crash \/ Kill \/ Stop
    BY <2>3 DEF Crash, Kill, Stop, Exit
  <2>4. CASE Launch \/ Start \/ EmberFails \/ EmberRecovers \/ Tick
    BY <2>4 DEF Launch, Start, EmberFails, EmberRecovers, Tick, unitVars
  <2>5. QED
    BY <2>1, <2>2, <2>3, <2>4 DEF Next
<1>2. QED
  BY <1>1, LoopTypes, PTL DEF Spec, LoopNeverGivesUp

-----------------------------------------------------------------------------
(* The heartbeat.  Between two stamps no more than Gap passes, and a fault *)
(* loses one stamp at most.                                                *)
Longer(a, b) == IF a > b THEN a ELSE b
Gap == Longer(Longest["resume"] + Longest["write"] + PollTicks,
              Longer(Longest["extract"], Longest["render"]))

(* All of a behaviour's faults may lose stamps in a row.                   *)
BeatsFit == (MaxFaults + 1) * Gap <= staleAfter

Lost(f) == f * Gap

(* How long ago the last stamp should have been.                           *)
Since ==
  IF phase \in {"resume", "extract", "render"} THEN work
  ELSE IF phase = "write" THEN Longest["resume"] + work
  ELSE IF phase = "sleep" THEN Longest["resume"] + Longest["write"] + work
  ELSE Gap

Beating ==
  /\ phase = "starting" => ~ours
  /\ phase = "sleep" => work <= PollTicks
  /\ ours /\ phase # "down" => beat \in Nat /\ beat <= Lost(faults) + Since

(* No stretch between two stamps is longer than Gap.                       *)
LEMMA GapIs ==
  /\ Gap \in Nat /\ Longest["resume"] + Longest["write"] + PollTicks <= Gap
  /\ Longest["extract"] <= Gap /\ Longest["render"] <= Gap
  /\ \A p \in CyclePhases : Longest[p] \in Nat
<1>1. \A p \in CyclePhases : Longest[p] \in Nat
  BY TicksAssumption
<1>2. /\ Longest["resume"] \in Nat /\ Longest["write"] \in Nat
      /\ Longest["extract"] \in Nat /\ Longest["render"] \in Nat /\ PollTicks \in Nat
  BY <1>1, TicksAssumption DEF CyclePhases
<1> QED
  BY <1>1, <1>2 DEF Gap, Longer

(* Each fault adds one.                                                     *)
LEMMA LostIs ==
  /\ \A f \in Nat : Lost(f) \in Nat /\ Lost(f + 1) = Lost(f) + Gap
  /\ \A f \in 0..MaxFaults : Lost(f) <= Lost(MaxFaults)
<1>1. Gap \in Nat
  BY GapIs
<1>2. \A f \in Nat : Lost(f) \in Nat /\ Lost(f + 1) = Lost(f) + Gap
  BY <1>1 DEF Lost
<1>3. ASSUME NEW f \in 0..MaxFaults PROVE Lost(f) <= Lost(MaxFaults)
  <2>1. f \in Nat /\ MaxFaults \in Nat /\ MaxFaults - f \in Nat
    BY LimitsAssumption
  <2>2. (MaxFaults - f) * Gap \in Nat
    BY <1>1, <2>1
  <2>3. (MaxFaults - f) * Gap = MaxFaults * Gap - f * Gap
    BY <1>1, <2>1
  <2>4. MaxFaults * Gap \in Nat /\ f * Gap \in Nat
    BY <1>1, <2>1
  <2> QED
    BY <2>2, <2>3, <2>4 DEF Lost
<1> QED
  BY <1>2, <1>3

(* A stamp resets the age, or is one of the faults.                        *)
LEMMA StampEffect ==
  Stamp => \/ beat' = 0 /\ ours' = TRUE /\ faults' = faults
           \/ beat' = beat /\ ours' = ours /\ faults' = faults + 1
  BY DEF Stamp, Fault, worldVars, beatVars

(* A stop leaves the heartbeat alone.                                      *)
LEMMA StopSpares ==
  Stop => UNCHANGED <<beat, ours, faults>> /\ (phase' = "down" \/ UNCHANGED <<phase, work>>)
  BY DEF Stop, Exit, Goto, Order, beatVars

(* No step lets the heartbeat grow older than that.                        *)
LEMMA BeatingStep == TypeOK /\ Standing /\ Beating /\ [Next]_vars => Beating'
<1> SUFFICES ASSUME TypeOK, Standing, Beating, [Next]_vars PROVE Beating'
  OBVIOUS
<1>0. /\ Gap \in Nat /\ Longest["resume"] + Longest["write"] + PollTicks <= Gap
      /\ Longest["extract"] <= Gap /\ Longest["render"] <= Gap
      /\ Longest["resume"] \in Nat /\ Longest["write"] \in Nat
      /\ Longest["extract"] \in Nat /\ Longest["render"] \in Nat
      /\ Lost(faults) \in Nat /\ Lost(faults + 1) = Lost(faults) + Gap
      /\ PollTicks \in Nat /\ work \in Nat /\ faults \in Nat
  BY GapIs, LostIs, TicksAssumption DEF CyclePhases, TypeOK
<1> USE <1>0 DEF Beating, Since, Standing, CyclePhases, vars, beatVars, signalVars, unitVars,
                 worldVars, historyVars
<1>1. CASE StartupFails
  BY <1>1 DEF StartupFails, Exit, Goto
<1>2. CASE StartOnce
  BY <1>2, StampEffect DEF StartOnce, BeginTurn, Goto
<1>3. CASE StartLoop
  BY <1>3 DEF StartLoop, Goto
<1>4. CASE Listen
  BY <1>4 DEF Listen, Goto
<1>5. CASE StopBetweenCycles
  BY <1>5 DEF StopBetweenCycles, Exit, Goto
<1>6. CASE BeginCycle
  BY <1>6, StampEffect DEF BeginCycle, BeginTurn, Goto
<1>7. CASE ResumeFails
  BY <1>7 DEF ResumeFails, Goto
<1>8. CASE WriteEnds
  BY <1>8, StampEffect DEF WriteEnds, Goto
<1>9. CASE ExtractEnds
  BY <1>9, StampEffect DEF ExtractEnds, Goto
<1>10. CASE Resumed
  BY <1>10 DEF Resumed, EndTurn, Sleep, Exit, Goto
<1>11. CASE NoChapter
  BY <1>11 DEF NoChapter, EndTurn, Sleep, Exit, Goto
<1>12. CASE Produced
  BY <1>12, StampEffect DEF Produced, EndTurn, Sleep, Exit, Goto
<1>13. CASE SleepEnds
  BY <1>13 DEF SleepEnds, Goto
<1>14. CASE StopInSleep
  BY <1>14 DEF StopInSleep, Exit, Goto
<1>15. CASE CycleFails
  BY <1>15 DEF CycleFails, Sleep, Exit, Goto, Fault
<1>16. CASE Crash
  BY <1>16 DEF Crash, Exit, Goto
<1>17. CASE Launch
  BY <1>17 DEF Launch, Goto
<1>18. CASE Stop
  BY <1>18, StopSpares
<1>19. CASE Kill
  BY <1>19 DEF Kill, Exit, Goto
<1>20. CASE Start
  BY <1>20 DEF Start, Order
<1>21. CASE EmberFails
  BY <1>21 DEF EmberFails, Fault
<1>22. CASE EmberRecovers
  BY <1>22 DEF EmberRecovers
<1>23. CASE Tick
  BY <1>23, TicksAssumption DEF Tick, MayLast, Older, TypeOK
<1>24. CASE UNCHANGED vars
  BY <1>24
<1>25. QED
  BY <1>1, <1>2, <1>3, <1>4, <1>5, <1>6, <1>7, <1>8, <1>9, <1>10, <1>11, <1>12, <1>13,
     <1>14, <1>15, <1>16, <1>17, <1>18, <1>19, <1>20, <1>21, <1>22, <1>23, <1>24
  DEF Next, Engine

(* `litrpg engine` never says of an engine that runs that it has probably  *)
(* stopped, if as many gaps as there may be faults, and one more, fit into *)
(* stale_after_secs: for every poll interval and every length of a phase.  *)
THEOREM AliveIsFresh ==
  ASSUME BeatsFit
  PROVE  Spec => []AliveIsNotStale
<1>1. Init => Standing /\ Beating
  BY StopInit DEF StopInvariant, Init, Beating
<1>2. TypeOK /\ Standing /\ Beating /\ [Next]_vars => Standing' /\ Beating'
  BY StandingStep, BeatingStep
<1>3. TypeOK /\ Standing /\ Beating => AliveIsNotStale
  <2> SUFFICES ASSUME TypeOK, Standing, Beating, ours, phase # "down"
               PROVE  engineStatus = "fresh"
    BY DEF AliveIsNotStale
  <2>1. beat \in Nat /\ beat <= Lost(faults) + Since
    BY DEF Beating
  <2>2. Since <= Gap /\ Since \in Nat
    <3>1. /\ Longest["resume"] \in Nat /\ Longest["write"] \in Nat /\ PollTicks \in Nat
          /\ Longest["extract"] \in Nat /\ Longest["render"] \in Nat /\ work \in Nat
      BY GapIs, TicksAssumption DEF CyclePhases, TypeOK
    <3> QED
      BY <3>1, GapIs DEF Since, Standing, Beating, CyclePhases
  <2>3. Lost(faults) \in Nat /\ Lost(faults) <= Lost(MaxFaults) /\ Lost(MaxFaults) \in Nat
    BY LostIs, LimitsAssumption DEF TypeOK
  <2>4. Lost(MaxFaults) + Gap <= staleAfter
    <3>1. Lost(MaxFaults + 1) = Lost(MaxFaults) + Gap
      BY LostIs, LimitsAssumption
    <3> QED
      BY <3>1 DEF Lost, BeatsFit
  <2>5. staleAfter \in Nat
    BY TicksAssumption DEF staleAfter
  <2>6. beat <= staleAfter
    BY <2>1, <2>2, <2>3, <2>4, <2>5, GapIs
  <2> QED
    BY <2>1, <2>5, <2>6, TicksAssumption DEF engineStatus
<1>4. QED
  BY <1>1, <1>2, <1>3, LoopTypes, PTL DEF Spec
=============================================================================
