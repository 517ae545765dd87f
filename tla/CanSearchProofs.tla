--------------------------- MODULE CanSearchProofs ---------------------------
(***************************************************************************)
(* Proofs about the can search state machine, for all timeouts, any byte   *)
(* size and any byte order: first the invariant behind TimeoutArmed, then, *)
(* on top of it, that the machine implements its diagram, that its motors  *)
(* follow its state, and that the back boom limits its power.              *)
(***************************************************************************)
EXTENDS CanSearch, TLAPS

\* Every signal but SIG_EXIT.
Signals == MainSignals \cup TimeoutSignals \cup {"SIG_ENTRY"}

-----------------------------------------------------------------------------
(***************************************************************************)
(* What the handlers answer.                                               *)
(***************************************************************************)

\* The jobs the handlers build.
IsTransition(j) == \E r \in States \ {"ST_INIT"} : j = GoTo(r)
IsDrive(j)      == \E c \in Commands : j = Drive(c)
IsDriveArm(j)   == \E c \in Commands : j = DriveThenArm(c, "search")
IsArmDrive(j)   == \E c \in Commands, t \in Timers : j = ArmThenDrive(t, c)
IsJob(j) ==
    \/ j = Idle
    \/ IsTransition(j) \/ IsDrive(j) \/ IsDriveArm(j) \/ IsArmDrive(j)

\* A handler answers a signal with one of five kinds of job, and no handler makes a transition to ST_INIT (can_search.c:121-443).
LEMMA HandlerJobs ==
    ASSUME boom_back \in BOOLEAN,
           NEW s \in States, NEW sig \in Signals, NEW p \in BOOLEAN
    PROVE  IsJob(Handle(s, sig, p))
<1>1. /\ IsJob(Idle)
      /\ \A x \in States \ {"ST_INIT"} : IsJob(GoTo(x))
      /\ \A c \in Commands : IsJob(Drive(c)) /\ IsJob(DriveThenArm(c, "search"))
      /\ \A c \in Commands, t \in Timers : IsJob(ArmThenDrive(t, c))
  BY DEF IsJob, IsTransition, IsDrive, IsDriveArm, IsArmDrive
<1>0. sig # "SIG_EXIT"
  BY DEF Signals, MainSignals, FrontSensors, BackSensors, Booms, TimeoutSignals
<1>2. CASE s \in {"ST_INIT", "ST_SEARCH_WALL"}
  BY <1>0, <1>1, <1>2 DEF Handle, SearchWall, States, Commands
<1>3. CASE s = "ST_DRIFT_OFF_WALL"
  BY <1>1, <1>3 DEF Handle, DriftOffWall, States, Commands
<1>4. CASE s = "ST_DRIFT_TO_CENTER"
  BY <1>1, <1>4 DEF Handle, DriftToCenter, States, Commands, Timers
<1>5. CASE s = "ST_DRIFT_ON_WALL"
  BY <1>1, <1>5 DEF Handle, DriftOnWall, States, Commands, Timers
<1>6. CASE s = "ST_DRIFT_ON_WALL_HARD"
  BY <1>1, <1>6 DEF Handle, DriftOnWallHard, States, Commands, Timers
<1>7. CASE s = "ST_SPIN_OFF_WALL"
  BY <1>1, <1>7 DEF Handle, SpinOffWall, States, Commands
<1>8. CASE s = "ST_PUSH"
  BY <1>1, <1>8 DEF Handle, Push, States, Commands
<1>9. CASE s = "ST_PUSH_LEFT"
  BY <1>1, <1>9 DEF Handle, PushLeft, States, Commands
<1>10. CASE s = "ST_PUSH_RIGHT"
  BY <1>1, <1>10 DEF Handle, PushRight, States, Commands
<1>11. CASE s = "ST_REVERSE"
  BY <1>1, <1>11 DEF Handle, Reverse, States, Commands, Timers
<1>12. CASE s = "ST_SEARCH_SCRAMBLE"
  BY <1>1, <1>12 DEF Handle, SearchScramble, States, Commands, Timers
<1> QED BY <1>2, <1>3, <1>4, <1>5, <1>6, <1>7, <1>8, <1>9, <1>10, <1>11, <1>12
  DEF States

\* The timer each state waits for.
Waits(s, t) ==
    \/ s = "ST_REVERSE" /\ t = "reverse"
    \/ s = "ST_SEARCH_WALL" /\ t = "search"
    \/ s = "ST_SEARCH_SCRAMBLE" /\ t = "scramble"
    \/ s = "ST_DRIFT_ON_WALL" /\ t = "drifton"
    \/ s = "ST_DRIFT_ON_WALL_HARD" /\ t = "driftonhard"
    \/ s = "ST_DRIFT_TO_CENTER" /\ t = "driftcenter"

\* A timeout is ignored in every state but the one that waits for it, and that
\* one it takes, along an edge of the diagram, to a state that does not wait for it.
LEMMA TimeoutJobs ==
    ASSUME NEW s \in States \ {"ST_INIT"}, NEW t \in Timers
    PROVE  \/ ~Waits(s, t) /\ Handle(s, TimeoutSignal[t], FALSE) = Idle
           \/ /\ Waits(s, t)
              /\ \E r \in States \ {"ST_INIT"} :
                    /\ Handle(s, TimeoutSignal[t], FALSE) = GoTo(r)
                    /\ ~Waits(r, t)
                    /\ <<s, r>> \in Diagram!TimeoutEdges
<1> DEFINE sig == TimeoutSignal[t]
           job == Handle(s, sig, FALSE)
<1>0. SUFFICES \/ ~Waits(s, t) /\ job = Idle
               \/ /\ Waits(s, t)
                  /\ \E r \in States \ {"ST_INIT"} :
                        job = GoTo(r) /\ ~Waits(r, t) /\ <<s, r>> \in Diagram!TimeoutEdges
  OBVIOUS
<1>1. /\ sig \in TimeoutSignals
      /\ sig = "SIG_REVERSE_TIMEOUT" <=> t = "reverse"
      /\ sig = "SIG_SEARCH_TIMEOUT" <=> t = "search"
      /\ sig = "SIG_SCRAMBLE_TIMEOUT" <=> t = "scramble"
      /\ sig = "SIG_DRIFT_ON_TIMEOUT" <=> t = "drifton"
      /\ sig = "SIG_DRIFT_ON_HARD_TIMEOUT" <=> t = "driftonhard"
      /\ sig = "SIG_DRIFT_CENTER_TIMEOUT" <=> t = "driftcenter"
  BY DEF Timers, TimeoutSignal, TimeoutSignals
<1> HIDE DEF sig
<1>2. CASE s = "ST_SEARCH_WALL"
  <2>1. job = IF t = "search" THEN GoTo("ST_SEARCH_SCRAMBLE") ELSE Idle
    BY <1>1, <1>2 DEF Handle, SearchWall, TimeoutSignals, FrontSensors
  <2> QED BY <1>2, <2>1 DEF Waits, States, Diagram!TimeoutEdges
<1>3. CASE s = "ST_DRIFT_TO_CENTER"
  <2>1. job = IF t = "driftcenter" THEN GoTo("ST_DRIFT_ON_WALL") ELSE Idle
    BY <1>1, <1>3 DEF Handle, DriftToCenter, TimeoutSignals, FrontSensors
  <2>2. "ST_DRIFT_ON_WALL" \in States \ {"ST_INIT"}
    BY DEF States
  <2> QED BY <1>3, <2>1, <2>2 DEF Waits, Diagram!TimeoutEdges
<1>4. CASE s = "ST_DRIFT_ON_WALL"
  <2>1. job = IF t = "drifton" THEN GoTo("ST_DRIFT_ON_WALL_HARD") ELSE Idle
    BY <1>1, <1>4 DEF Handle, DriftOnWall, TimeoutSignals, FrontSensors
  <2> QED BY <1>4, <2>1 DEF Waits, States, Diagram!TimeoutEdges
<1>5. CASE s = "ST_DRIFT_ON_WALL_HARD"
  <2>1. job = IF t = "driftonhard" THEN GoTo("ST_SEARCH_WALL") ELSE Idle
    BY <1>1, <1>5 DEF Handle, DriftOnWallHard, TimeoutSignals, FrontSensors
  <2> QED BY <1>5, <2>1 DEF Waits, States, Diagram!TimeoutEdges
<1>6. CASE s = "ST_REVERSE"
  <2>1. job = IF t = "reverse" THEN GoTo("ST_DRIFT_ON_WALL") ELSE Idle
    BY <1>1, <1>6 DEF Handle, Reverse, TimeoutSignals, BackSensors
  <2> QED BY <1>6, <2>1 DEF Waits, States, Diagram!TimeoutEdges
<1>7. CASE s = "ST_SEARCH_SCRAMBLE"
  <2>1. job = IF t = "scramble" THEN GoTo("ST_SEARCH_WALL") ELSE Idle
    BY <1>1, <1>7 DEF Handle, SearchScramble, TimeoutSignals
  <2> QED BY <1>7, <2>1 DEF Waits, States, Diagram!TimeoutEdges
<1>8. CASE s \in {"ST_DRIFT_OFF_WALL", "ST_SPIN_OFF_WALL", "ST_PUSH",
                 "ST_PUSH_LEFT", "ST_PUSH_RIGHT"}
  <2>1. job = Idle
    BY <1>1, <1>8 DEF Handle, DriftOffWall, SpinOffWall, Push, PushLeft, PushRight,
                      TimeoutSignals, FrontSensors, Booms
  <2> QED BY <1>8, <2>1 DEF Waits
<1> QED BY <1>2, <1>3, <1>4, <1>5, <1>6, <1>7, <1>8 DEF States

LEMMA WaitsForTable ==
    ASSUME NEW s \in States, NEW t \in Timers
    PROVE  WaitsFor(s, t) <=> Waits(s, t)
<1>1. CASE s = "ST_INIT"
  BY <1>1 DEF WaitsFor, Waits
<1>2. CASE s # "ST_INIT"
  <2> DEFINE job == Handle(s, TimeoutSignal[t], FALSE)
  <2>1. \/ ~Waits(s, t) /\ job = Idle
        \/ Waits(s, t) /\ \E r \in States : job = GoTo(r)
    BY <1>2, TimeoutJobs
  <2>2. Idle.pc = "idle" /\ \A r \in States : GoTo(r).pc = "exit"
    BY DEF GoTo, Idle
  <2> QED BY <1>2, <2>1, <2>2 DEF WaitsFor
<1> QED BY <1>1, <1>2

\* SIG_ENTRY gives a motor command and, in a state that waits for a timer, sets
\* that timer.
LEMMA EntryJobs ==
    ASSUME NEW s \in States
    PROVE  LET job == Handle(s, "SIG_ENTRY", FALSE)
           IN  /\ IsDrive(job) \/ IsDriveArm(job) \/ IsArmDrive(job)
               /\ job.command \in Commands
               /\ job.timer \in Timers \cup {NoTimer}
               /\ \A t \in Timers : Waits(s, t) => job.timer = t
<1> DEFINE job == Handle(s, "SIG_ENTRY", FALSE)
<1>1. \/ /\ \E c \in Commands : job = Drive(c)
         /\ \A t \in Timers : ~Waits(s, t)
      \/ /\ \E c \in Commands : job = DriveThenArm(c, "search")
         /\ \A t \in Timers : Waits(s, t) => t = "search"
      \/ \E u \in Timers :
           /\ \E c \in Commands : job = ArmThenDrive(u, c)
           /\ \A t \in Timers : Waits(s, t) => t = u
  BY DEF Handle, States, Commands, Timers, Waits, SearchWall, DriftOffWall,
         DriftToCenter, DriftOnWall, DriftOnWallHard, SpinOffWall, Push, PushLeft,
         PushRight, Reverse, SearchScramble
<1>2. SUFFICES /\ IsDrive(job) \/ IsDriveArm(job) \/ IsArmDrive(job)
               /\ job.command \in Commands
               /\ job.timer \in Timers \cup {NoTimer}
               /\ \A t \in Timers : Waits(s, t) => job.timer = t
  OBVIOUS
<1> HIDE DEF job
<1>3. ASSUME NEW c \in Commands, job = Drive(c), \A t \in Timers : ~Waits(s, t)
      PROVE  /\ IsDrive(job)
             /\ job.command \in Commands
             /\ job.timer = NoTimer
  BY <1>3 DEF IsDrive, Drive, Idle
<1>4. ASSUME NEW c \in Commands, job = DriveThenArm(c, "search")
      PROVE  /\ IsDriveArm(job)
             /\ job.command \in Commands
             /\ job.timer = "search"
  BY <1>4 DEF IsDriveArm, DriveThenArm, Drive, Idle
<1>5. ASSUME NEW u \in Timers, NEW c \in Commands, job = ArmThenDrive(u, c)
      PROVE  /\ IsArmDrive(job)
             /\ job.command \in Commands
             /\ job.timer = u
  BY <1>5 DEF IsArmDrive, ArmThenDrive, Idle
<1>6. "search" \in Timers
  BY DEF Timers
<1> QED BY <1>1, <1>3, <1>4, <1>5, <1>6

\* SIG_EXIT clears the search timer, in the states search_wall handles.
LEMMA ExitJobs ==
    ASSUME NEW s \in States
    PROVE  Handle(s, "SIG_EXIT", FALSE) \in {Idle, Disarm("search")}
  BY DEF Handle, States, SearchWall, DriftOffWall, DriftToCenter, DriftOnWall,
         DriftOnWallHard, SpinOffWall, Push, PushLeft, PushRight, Reverse,
         SearchScramble, FrontSensors, BackSensors, Booms

-----------------------------------------------------------------------------
(***************************************************************************)
(* The interrupt.                                                          *)
(***************************************************************************)

\* The variables a transition works on.
Context == [state : States, timers : [Timers -> Int],
            motors : [Registers -> Commands]]

\* What every stage of a tick keeps: the state the tick found, with the timers
\* that ran still running, or a state all of whose timeouts are armed.
StageInv(c) ==
    /\ c \in Context /\ c.state # "ST_INIT"
    /\ \/ Armed(c.state, c.timers)
       \/ /\ c.state = state
          /\ \A t \in Timers : WaitsFor(state, t) /\ timers[t] >= 0 => c.timers[t] >= 0

LEMMA SetTimerFields ==
    ASSUME NEW c \in Context, NEW t \in Timers, NEW v \in Int
    PROVE  /\ SetTimer(c, t, v) \in Context
           /\ SetTimer(c, t, v).state = c.state
           /\ SetTimer(c, t, v).motors = c.motors
           /\ SetTimer(c, t, v).timers[t] = v
           /\ \A x \in Timers : x # t => SetTimer(c, t, v).timers[x] = c.timers[x]
  BY DEF SetTimer, Context

LEMMA LeaveFields ==
    ASSUME NEW c \in Context
    PROVE  Leave(c) \in Context
<1>1. "search" \in Timers /\ -1 \in Int
  BY DEF Timers
<1> QED BY <1>1, SetTimerFields DEF Leave

\* A transition arms the timeouts of the state it enters.
LEMMA EnterArms ==
    ASSUME NEW c \in Context, NEW s \in States \ {"ST_INIT"}
    PROVE  /\ Enter(c, s) \in Context
           /\ Enter(c, s).state = s
           /\ \A t \in Timers : Waits(s, t) => Enter(c, s).timers[t] = 0
<1>1. PICK job : job = Handle(s, "SIG_ENTRY", FALSE)
  OBVIOUS
<1>2. PICK d : d = [c EXCEPT !.state = s, !.motors = AllRegisters(job.command)]
  OBVIOUS
<1>3. /\ job.command \in Commands
      /\ job.timer \in Timers \cup {NoTimer}
      /\ \A t \in Timers : Waits(s, t) => job.timer = t
  BY <1>1, EntryJobs
<1>4. Enter(c, s) = IF job.timer = NoTimer THEN d ELSE SetTimer(d, job.timer, 0)
  BY <1>1, <1>2 DEF Enter
<1>5. d \in Context /\ d.state = s
  BY <1>2, <1>3 DEF Context, AllRegisters
<1>6. NoTimer \notin Timers
  BY DEF NoTimer, Timers
<1>7. CASE job.timer = NoTimer
  BY <1>3, <1>4, <1>5, <1>6, <1>7
<1>8. CASE job.timer \in Timers
  <2>1. PICK t : t = job.timer
    OBVIOUS
  <2>2. Enter(c, s) = SetTimer(d, t, 0) /\ t \in Timers
    BY <1>4, <1>6, <1>8, <2>1
  <2>3. /\ SetTimer(d, t, 0) \in Context
        /\ SetTimer(d, t, 0).state = s
        /\ SetTimer(d, t, 0).timers[t] = 0
    BY <1>5, <2>2, SetTimerFields
  <2> QED BY <1>3, <2>1, <2>2, <2>3
<1> QED BY <1>3, <1>7, <1>8

\* One stage of the tick keeps StageInv: a timer that runs out in the state that
\* waits for it makes a transition, in any other state it is only turned off.
LEMMA StageKeeps ==
    ASSUME NEW c, StageInv(c), state \in States, NEW u \in Timers
    PROVE  StageInv(Stage(c, u))
<1>1. /\ c \in Context
      /\ c.state \in States \ {"ST_INIT"}
      /\ c.timers \in [Timers -> Int]
  BY DEF StageInv, Context
<1>2. PICK n : n = c.timers[u] + 1
  OBVIOUS
<1>3. n \in Int
  BY <1>1, <1>2
<1>4. PICK d : d = SetTimer(c, u, n)
  OBVIOUS
<1>5. /\ d \in Context
      /\ d.state = c.state
      /\ d.timers[u] = n
      /\ \A t \in Timers : t # u => d.timers[t] = c.timers[t]
  <2>1. /\ SetTimer(c, u, n) \in Context
        /\ SetTimer(c, u, n).state = c.state
        /\ SetTimer(c, u, n).timers[u] = n
        /\ \A t \in Timers : t # u => SetTimer(c, u, n).timers[t] = c.timers[t]
    <3>1. c \in Context /\ u \in Timers /\ n \in Int
      BY <1>1, <1>3
    <3> QED BY ONLY <3>1, SetTimerFields
  <2> QED BY ONLY <1>4, <2>1
<1>6. CASE c.timers[u] < 0
  BY <1>6 DEF Stage
<1>7. CASE c.timers[u] >= 0 /\ n <= Limit[u]
  <2>1. Stage(c, u) = d
    BY <1>1, <1>2, <1>4, <1>7 DEF Stage
  <2>2. \A t \in Timers : c.timers[t] >= 0 => d.timers[t] >= 0
    BY <1>1, <1>2, <1>5, <1>7
  <2> QED BY <1>1, <1>5, <2>1, <2>2 DEF StageInv, Armed
<1>8. CASE c.timers[u] >= 0 /\ ~(n <= Limit[u])
  <2>1. PICK e : e = TimeOut(d, u)
    OBVIOUS
  <2>2. Stage(c, u) = SetTimer(e, u, -1)
    BY <1>1, <1>2, <1>4, <1>8, <2>1 DEF Stage
  <2>3. PICK job : job = Handle(c.state, TimeoutSignal[u], FALSE)
    OBVIOUS
  <2>4. e = IF job.pc = "exit" THEN Enter(Leave(d), job.target) ELSE d
    BY <1>5, <2>1, <2>3 DEF TimeOut
  <2>5. CASE ~Waits(c.state, u)
    <3>1. job.pc = "idle"
      <4>1. job = Idle
        BY <1>1, <2>3, <2>5, TimeoutJobs
      <4> QED BY <4>1 DEF Idle
    <3>2. e = d
      BY <2>4, <3>1
    <3>3. /\ SetTimer(d, u, -1) \in Context
          /\ SetTimer(d, u, -1).state = c.state
          /\ \A t \in Timers : t # u => SetTimer(d, u, -1).timers[t] = c.timers[t]
      BY <1>5, SetTimerFields
    <3>4. ~WaitsFor(c.state, u)
      BY <1>1, <2>5, WaitsForTable
    <3> QED BY <1>1, <2>2, <3>2, <3>3, <3>4 DEF StageInv, Armed
  <2>6. CASE Waits(c.state, u)
    <3>1. PICK r \in States \ {"ST_INIT"} : job = GoTo(r) /\ ~Waits(r, u)
      BY <1>1, <2>3, <2>6, TimeoutJobs
    <3>2. job.pc = "exit" /\ job.target = r
      BY <3>1 DEF GoTo, Idle
    <3>3. e = Enter(Leave(d), r)
      BY <2>4, <3>2
    <3>4. /\ e \in Context
          /\ e.state = r
          /\ \A t \in Timers : Waits(r, t) => e.timers[t] = 0
      BY <1>5, <3>3, LeaveFields, EnterArms
    <3>5. /\ SetTimer(e, u, -1) \in Context
          /\ SetTimer(e, u, -1).state = r
          /\ \A t \in Timers : t # u => SetTimer(e, u, -1).timers[t] = e.timers[t]
      BY <3>4, SetTimerFields
    <3>6. Armed(r, SetTimer(e, u, -1).timers)
      BY <3>1, <3>4, <3>5, WaitsForTable DEF Armed
    <3> QED BY <2>2, <3>5, <3>6 DEF StageInv
  <2> QED BY <2>5, <2>6
<1> QED BY <1>1, <1>2, <1>3, <1>6, <1>7, <1>8

LEMMA ThenKeeps ==
    ASSUME NEW S, \A c \in S : StageInv(c), state \in States, NEW u \in Timers
    PROVE  \A c \in Then(S, u) : StageInv(c)
  BY StageKeeps DEF Then

\* A whole tick keeps StageInv.
LEMMA TickKeeps ==
    ASSUME TypeOK, state # "ST_INIT"
    PROVE  \A c \in TickOutcomes : StageInv(c)
<1>1. StageInv(Found)
  BY DEF TypeOK, StageInv, Found, Context
<1>2. /\ "reverse" \in Timers /\ "search" \in Timers /\ "scramble" \in Timers
      /\ "drifton" \in Timers /\ "driftonhard" \in Timers /\ "driftcenter" \in Timers
  BY DEF Timers
<1> DEFINE S1 == Then({Found}, "reverse")
           S2 == Then(S1, "search")
           S3 == Then(S2, "scramble")
           S4 == Then(S3, "drifton")
           S5 == Then(S4, "driftonhard")
           S6 == Then(S5, "driftcenter")
<1>3. TickOutcomes = S6
  BY DEF TickOutcomes
<1>4. state \in States
  BY DEF TypeOK
<1>5. \A c \in S1 : StageInv(c)
  BY <1>1, <1>2, <1>4, ThenKeeps
<1> HIDE DEF S1
<1>6. \A c \in S2 : StageInv(c)
  BY <1>2, <1>4, <1>5, ThenKeeps
<1> HIDE DEF S2
<1>7. \A c \in S3 : StageInv(c)
  BY <1>2, <1>4, <1>6, ThenKeeps
<1> HIDE DEF S3
<1>8. \A c \in S4 : StageInv(c)
  BY <1>2, <1>4, <1>7, ThenKeeps
<1> HIDE DEF S4
<1>9. \A c \in S5 : StageInv(c)
  BY <1>2, <1>4, <1>8, ThenKeeps
<1> HIDE DEF S5
<1>10. \A c \in S6 : StageInv(c)
  BY <1>2, <1>4, <1>9, ThenKeeps
<1> QED BY <1>3, <1>10

-----------------------------------------------------------------------------
(***************************************************************************)
(* The main loop.                                                          *)
(***************************************************************************)

\* Every job a handler builds is well formed.
LEMMA JobsWellFormed ==
    ASSUME NEW j, IsJob(j)
    PROVE  j \in Job /\ JobShape(j) /\ j.order = NoOrder
<1>1. CASE j = Idle
  BY <1>1 DEF Idle, Job, JobShape, Pcs, Registers
<1>2. ASSUME NEW r \in States \ {"ST_INIT"}, j = GoTo(r)
      PROVE  j \in Job /\ JobShape(j) /\ j.order = NoOrder
  BY <1>2 DEF GoTo, Idle, Job, JobShape, Pcs, Registers
<1>3. ASSUME NEW c \in Commands, j = Drive(c)
      PROVE  j \in Job /\ JobShape(j) /\ j.order = NoOrder
  BY <1>3 DEF Drive, Idle, Job, JobShape, Pcs, Registers
<1>4. ASSUME NEW c \in Commands, j = DriveThenArm(c, "search")
      PROVE  j \in Job /\ JobShape(j) /\ j.order = NoOrder
  BY <1>4 DEF DriveThenArm, Drive, Idle, Job, JobShape, Pcs, Registers, Timers
<1>5. ASSUME NEW c \in Commands, NEW t \in Timers, j = ArmThenDrive(t, c)
      PROVE  j \in Job /\ JobShape(j) /\ j.order = NoOrder
  BY <1>5 DEF ArmThenDrive, Idle, Job, JobShape, Pcs, Registers
<1> QED BY <1>1, <1>2, <1>3, <1>4, <1>5
        DEF IsJob, IsTransition, IsDrive, IsDriveArm, IsArmDrive

\* Storing a byte gives an integer; storing both bytes of 0 gives one that is not
\* negative, if the first was the high byte and nothing made the timer negative
\* in between, or if the first was the low byte.
LEMMA StoreByteBounds ==
    ASSUME NEW old \in Int
    PROVE  /\ StoreByte("high", old, 0) \in Int /\ StoreByte("low", old, 0) \in Int
           /\ StoreByte("high", old, -1) \in Int /\ StoreByte("low", old, -1) \in Int
           /\ StoreByte("high", old, 0) >= 0
           /\ old >= 0 => StoreByte("low", old, 0) >= 0
<1>1. Base \in Int /\ Base > 0
  BY BaseAssumption
<1>2. \A x \in Int : /\ x \div Base \in Int
                     /\ x % Base \in Int
                     /\ x % Base >= 0
                     /\ (x \div Base) * Base \in Int
  BY <1>1
<1>3. 0 \div Base = 0 /\ 0 % Base = 0
  BY <1>1
<1>4. ASSUME old >= 0 PROVE (old \div Base) * Base >= 0
  <2>1. old \div Base >= 0
    BY <1>1, <1>4
  <2> QED BY <1>1, <1>2, <2>1
<1> QED BY <1>1, <1>2, <1>3, <1>4 DEF StoreByte

-----------------------------------------------------------------------------
(***************************************************************************)
(* The inductive invariant.                                                *)
(***************************************************************************)

\* ArmedOrPending, over the table of timeouts.
Pending(s, tmr, j) ==
    j.pc \notin {"clear", "clear_rest", "set", "entry"} =>
        \A t \in Timers :
            Waits(s, t) => tmr[t] >= 0 \/ (j.timer = t /\ j.order # "high first")

LEMMA PendingTable ==
    state \in States => (ArmedOrPending <=> Pending(state, timers, main))
  BY WaitsForTable DEF ArmedOrPending, Pending

LEMMA PendingTableNext ==
    (state \in States => (ArmedOrPending <=> Pending(state, timers, main)))'
  BY PendingTable, PTL

LEMMA InitInv == Init => SearchInv
<1> SUFFICES ASSUME Init PROVE SearchInv
  OBVIOUS
<1>1. TypeOK
  <2>1. main \in Job
    BY DEF Init, Idle, Job, Pcs
  <2>2. timers \in [Timers -> Int] /\ drifton \in Nat \ {0}
    BY TimeoutsPositive DEF Init
  <2>3. motors \in [Registers -> Commands]
    BY DEF Init, AllRegisters, Commands
  <2> QED BY <2>1, <2>2, <2>3 DEF Init, TypeOK, States
<1>2. JobShape(main)
  BY DEF Init, JobShape, Idle, Registers
<1>3. ArmedOrPending
  BY DEF Init, ArmedOrPending, WaitsFor
<1> QED BY <1>1, <1>2, <1>3 DEF Init, SearchInv

\* What a step must establish for SearchInv to hold after it.
LEMMA StepGoal ==
    ASSUME TypeOK', JobShape(main)', searching' => state' # "ST_INIT",
           Pending(state', timers', main')
    PROVE  SearchInv'
<1>1. ArmedOrPending'
  BY PendingTableNext DEF TypeOK, Pending
<1> QED BY <1>1 DEF SearchInv

LEMMA TickInv ==
    ASSUME SearchInv, Tick
    PROVE  SearchInv'
<1>1. PICK c \in TickOutcomes : state' = c.state /\ timers' = c.timers /\ motors' = c.motors
  BY DEF Tick
<1>2. /\ c \in Context /\ c.state # "ST_INIT"
      /\ \/ Armed(c.state, c.timers)
         \/ /\ c.state = state
            /\ \A t \in Timers : WaitsFor(state, t) /\ timers[t] >= 0 => c.timers[t] >= 0
  BY TickKeeps DEF SearchInv, Tick, StageInv
<1>3. state' \in States \ {"ST_INIT"} /\ timers' \in [Timers -> Int] /\ motors' \in [Registers -> Commands]
  BY <1>1, <1>2 DEF Context
<1>4. main' = main /\ boom_back' = boom_back /\ drifton' = drifton /\ searching' = searching
  BY DEF Tick
<1>5. TypeOK'
  BY <1>3, <1>4 DEF SearchInv, TypeOK, Tick
<1>6. JobShape(main)'
  BY <1>4 DEF SearchInv, JobShape
<1>7. Pending(state, timers, main) /\ state \in States
  BY PendingTable DEF SearchInv, TypeOK
<1>8. CASE Armed(c.state, c.timers)
  <2>1. \A t \in Timers : Waits(state', t) => timers'[t] >= 0
    BY <1>1, <1>3, <1>8, WaitsForTable DEF Armed
  <2>2. Pending(state', timers', main')
    BY <2>1 DEF Pending
  <2> QED BY <1>3, <1>5, <1>6, <2>2, StepGoal
<1>9. CASE /\ c.state = state
           /\ \A t \in Timers : WaitsFor(state, t) /\ timers[t] >= 0 => c.timers[t] >= 0
  <2>1. \A t \in Timers : Waits(state, t) /\ timers[t] >= 0 => timers'[t] >= 0
    BY <1>1, <1>7, <1>9, WaitsForTable
  <2>2. Pending(state', timers', main')
    BY <1>1, <1>4, <1>7, <1>9, <2>1 DEF Pending
  <2> QED BY <1>3, <1>5, <1>6, <2>2, StepGoal
<1> QED BY <1>2, <1>8, <1>9

\* A job the handler of the current state gives to the main loop keeps the
\* timeouts armed, if they were.
LEMMA NewJobInv ==
    ASSUME SearchInv, IsJob(main'), boom_back' \in BOOLEAN, drifton' \in Nat \ {0},
           UNCHANGED <<state, timers, motors>>, searching' \in BOOLEAN,
           overtaken' \in BOOLEAN, searching' => state # "ST_INIT",
           \A t \in Timers : Waits(state, t) => timers[t] >= 0 \/ main'.timer = t
    PROVE  SearchInv'
<1>1. main' \in Job /\ JobShape(main') /\ main'.order = NoOrder
  BY JobsWellFormed
<1>2. TypeOK' /\ JobShape(main)'
  BY <1>1 DEF SearchInv, TypeOK, JobShape
<1>3. NoOrder # "high first"
  BY DEF NoOrder
<1>4. Pending(state', timers', main')
  BY <1>1, <1>3 DEF Pending
<1> QED BY <1>2, <1>4, StepGoal

\* Between two calls every timeout of the state is armed.
LEMMA IdleArmed ==
    ASSUME SearchInv, main = Idle \/ main.pc = "exit"
    PROVE  \A t \in Timers : Waits(state, t) => timers[t] >= 0
<1>1. main.pc \in {"idle", "exit"} /\ main.timer = NoTimer
  BY DEF Idle, SearchInv, JobShape
<1>2. NoTimer \notin Timers
  BY DEF NoTimer, Timers
<1>3. Pending(state, timers, main)
  BY PendingTable DEF SearchInv, TypeOK
<1> QED BY <1>1, <1>2, <1>3 DEF Pending

LEMMA CallInv ==
    ASSUME SearchInv, MainCall
    PROVE  SearchInv'
<1>0. IsJob(Idle) /\ IsJob(Drive("other"))
  BY DEF IsJob, IsDrive, Commands
<1>1. ASSUME NEW sig \in MainSignals, NEW p \in BOOLEAN, Signal(sig, p)
      PROVE  SearchInv'
  <2>1. sig \in Signals /\ state \in States /\ boom_back \in BOOLEAN
    BY DEF Signals, SearchInv, TypeOK
  <2>2. IsJob(main')
    BY <1>1, <2>1, HandlerJobs DEF Signal
  <2>3. \A t \in Timers : Waits(state, t) => timers[t] >= 0
    BY <1>1, IdleArmed DEF Signal
  <2> QED BY <1>1, <2>1, <2>2, <2>3, NewJobInv DEF Signal, SearchInv, TypeOK
<1>2. ASSUME NEW limit \in {DRIFTON_TIMEOUT, FAST_DRIFTON_TIMEOUT}, CanSearchInit(limit)
      PROVE  SearchInv'
  <2>1. PICK d : d = Enter(Leave([Found EXCEPT !.state = "ST_INIT"]), "ST_PUSH")
    OBVIOUS
  <2>2. /\ state' = d.state /\ timers' = d.timers /\ motors' = d.motors
        /\ drifton' = limit /\ searching' = TRUE /\ overtaken' = FALSE
        /\ main' = Idle /\ boom_back' = boom_back
    BY <1>2, <2>1 DEF CanSearchInit
  <2>3. PICK c : c = [Found EXCEPT !.state = "ST_INIT"]
    OBVIOUS
  <2>4. c \in Context
    BY <2>3 DEF Found, Context, SearchInv, TypeOK, States
  <2>5. Leave(c) \in Context
    BY <2>4, LeaveFields
  <2>6. d = Enter(Leave(c), "ST_PUSH")
    BY <2>1, <2>3
  <2>7. "ST_PUSH" \in States \ {"ST_INIT"}
    BY DEF States
  <2>8. d \in Context /\ d.state = "ST_PUSH"
    BY <2>5, <2>6, <2>7, EnterArms
  <2>9. /\ state' = "ST_PUSH"
        /\ timers' \in [Timers -> Int]
        /\ motors' \in [Registers -> Commands]
    BY <2>2, <2>8 DEF Context
  <2>10. limit \in Nat \ {0}
    BY TimeoutsPositive
  <2>11. Idle \in Job /\ JobShape(Idle)
    BY <1>0, JobsWellFormed
  <2>12. TypeOK'
    BY <2>2, <2>7, <2>9, <2>10, <2>11 DEF SearchInv, TypeOK
  <2>13. JobShape(main)'
    BY <2>2, <2>11 DEF JobShape
  <2>14. Pending(state', timers', main')
    BY <2>9 DEF Pending, Waits
  <2> QED BY <2>9, <2>12, <2>13, <2>14, StepGoal
<1>3. CASE StopSearch
  <2>1. \A t \in Timers : Waits(state, t) => timers[t] >= 0
    BY <1>3, IdleArmed DEF StopSearch, OtherMotors
  <2> QED BY <1>0, <1>3, <2>1, NewJobInv DEF StopSearch, OtherMotors, SearchInv, TypeOK
<1>4. CASE ResumeSearch
  <2>1. \A t \in Timers : Waits(state, t) => timers[t] >= 0
    BY <1>4, IdleArmed DEF ResumeSearch, OtherMotors
  <2> QED BY <1>0, <1>4, <2>1, NewJobInv DEF ResumeSearch, OtherMotors, SearchInv, TypeOK
<1>5. CASE OtherMotorSet
  <2>1. \A t \in Timers : Waits(state, t) => timers[t] >= 0
    BY <1>5, IdleArmed DEF OtherMotorSet, OtherMotors
  <2> QED BY <1>0, <1>5, <2>1, NewJobInv DEF OtherMotorSet, OtherMotors, SearchInv, TypeOK
<1> QED BY <1>1, <1>2, <1>3, <1>4, <1>5 DEF MainCall

LEMMA StepInv ==
    ASSUME SearchInv, MainStep
    PROVE  SearchInv'
<1>1. /\ state \in States /\ main \in Job /\ JobShape(main)
      /\ timers \in [Timers -> Int] /\ motors \in [Registers -> Commands]
  BY DEF SearchInv, TypeOK
<1>2. Pending(state, timers, main)
  BY <1>1, PendingTable DEF SearchInv
<1>3. CASE SignalExit
  <2>1. \/ main' = [main EXCEPT !.pc = "clear", !.timer = "search"]
        \/ main' = [main EXCEPT !.pc = "set"]
    BY <1>3 DEF SignalExit
  <2>2. main' \in Job /\ JobShape(main)' /\ main'.pc \in {"clear", "set"}
    BY <1>1, <1>3, <2>1 DEF SignalExit, Job, JobShape, Pcs, Timers, Registers
  <2>3. TypeOK'
    BY <1>3, <2>2 DEF SignalExit, SearchInv, TypeOK
  <2>4. Pending(state', timers', main')
    BY <2>2 DEF Pending
  <2> QED BY <1>3, <2>2, <2>3, <2>4, StepGoal DEF SignalExit, SearchInv
<1>4. CASE SetState
  <2>1. main' = [Idle EXCEPT !.pc = "entry"] /\ state' = main.target
    BY <1>4 DEF SetState
  <2>2. main' \in Job /\ JobShape(main)' /\ main'.pc = "entry"
    BY <2>1 DEF Idle, Job, JobShape, Pcs, Registers
  <2>3. state' \in States \ {"ST_INIT"}
    BY <1>1, <1>4, <2>1 DEF SetState, JobShape
  <2>4. TypeOK'
    BY <1>4, <2>2, <2>3 DEF SetState, SearchInv, TypeOK
  <2>5. Pending(state', timers', main')
    BY <2>2 DEF Pending
  <2> QED BY <2>2, <2>3, <2>4, <2>5, StepGoal
<1>5. CASE SignalEntry
  <2>1. /\ IsDrive(main') \/ IsDriveArm(main') \/ IsArmDrive(main')
        /\ \A t \in Timers : Waits(state, t) => main'.timer = t
    BY <1>1, <1>5, EntryJobs DEF SignalEntry
  <2>2. IsJob(main')
    BY <2>1 DEF IsJob
  <2> QED BY <1>5, <2>1, <2>2, NewJobInv DEF SignalEntry, SearchInv, TypeOK
<1>6. CASE DisarmFirst \/ DisarmSecond
  <2>1. main.timer = "search" /\ "search" \in Timers
    BY <1>1, <1>6 DEF DisarmFirst, DisarmSecond, WriteFirst, WriteSecond, JobShape, Timers
  <2>2. timers' \in [Timers -> Int]
    <3>1. PICK b \in {"high", "low"} : timers' = [timers EXCEPT !["search"] = StoreByte(b, @, -1)]
      BY <1>6, <2>1 DEF DisarmFirst, DisarmSecond, WriteFirst, WriteSecond, FirstByte, SecondByte
    <3>2. PICK x \in Int : x = StoreByte(b, timers["search"], -1)
      <4>1. timers["search"] \in Int
        BY <1>1, <2>1
      <4>2. StoreByte(b, timers["search"], -1) \in Int
        <5>1. b = "high" \/ b = "low"
          OBVIOUS
        <5> QED BY <4>1, <5>1, StoreByteBounds
      <4> QED BY <4>2
    <3> QED BY <1>1, <2>1, <3>1, <3>2
  <2>3. main' \in Job /\ JobShape(main)' /\ main'.pc \in {"clear_rest", "set"}
    <3>1. CASE DisarmFirst
      <4>1. PICK order \in ByteOrders :
               main.pc = "clear" /\ main' = [main EXCEPT !.pc = "clear_rest", !.order = order]
        BY <3>1 DEF DisarmFirst, WriteFirst
      <4>2. order # NoOrder
        BY ByteOrdersAssumption DEF NoOrder
      <4> QED BY <1>1, <4>1, <4>2 DEF Job, JobShape, Pcs, Registers
    <3>2. CASE DisarmSecond
      BY <1>1, <3>2 DEF DisarmSecond, WriteSecond, Job, JobShape, Pcs, Registers
    <3> QED BY <1>6, <3>1, <3>2
  <2>4. UNCHANGED <<state, boom_back, drifton, motors, searching, overtaken>>
    BY <1>6 DEF DisarmFirst, DisarmSecond, WriteFirst, WriteSecond
  <2>5. TypeOK'
    BY <2>2, <2>3, <2>4 DEF SearchInv, TypeOK
  <2>6. Pending(state', timers', main')
    BY <2>3 DEF Pending
  <2> QED BY <2>3, <2>4, <2>5, <2>6, StepGoal DEF SearchInv
<1>7. CASE ArmFirst
  <2>1. PICK order \in ByteOrders :
           /\ timers' = [timers EXCEPT ![main.timer] = StoreByte(FirstByte(order), @, 0)]
           /\ main' = [main EXCEPT !.pc = "arm_rest", !.order = order]
    BY <1>7 DEF ArmFirst, WriteFirst
  <2>2. order # NoOrder /\ FirstByte(order) \in {"high", "low"}
    BY ByteOrdersAssumption DEF NoOrder, FirstByte
  <2>3. PICK u \in Timers : u = main.timer
    BY <1>1, <1>7 DEF ArmFirst, WriteFirst, JobShape
  <2>4. timers' = [timers EXCEPT ![u] = StoreByte(FirstByte(order), @, 0)]
    BY <2>1, <2>3
  <2>5. /\ timers' \in [Timers -> Int]
        /\ timers'[u] = StoreByte(FirstByte(order), timers[u], 0)
        /\ \A t \in Timers : t # u => timers'[t] = timers[t]
    <3>1. PICK x \in Int : x = StoreByte(FirstByte(order), timers[u], 0)
      <4>1. timers[u] \in Int
        BY <1>1
      <4>2. StoreByte(FirstByte(order), timers[u], 0) \in Int
        BY <2>2, <4>1, StoreByteBounds
      <4> QED BY <4>2
    <3>2. timers' = [timers EXCEPT ![u] = x]
      BY <2>4, <3>1
    <3> QED BY <1>1, <3>1, <3>2
  <2>6. /\ main' \in Job /\ JobShape(main)'
        /\ main'.timer = u /\ main'.order = order
    BY <1>1, <1>7, <2>1, <2>2, <2>3 DEF ArmFirst, WriteFirst, Job, JobShape, Pcs, Registers
  <2>7. order = "high first" => timers'[u] >= 0
    BY <1>1, <2>5, StoreByteBounds DEF FirstByte
  <2>8. \A t \in Timers : t # u /\ Waits(state, t) => timers[t] >= 0
    BY <1>2, <1>7, <2>3 DEF Pending, ArmFirst, WriteFirst
  <2>9. state' = state
    BY <1>7 DEF ArmFirst, WriteFirst
  <2>10. Pending(state', timers', main')
    BY <2>5, <2>6, <2>7, <2>8, <2>9 DEF Pending
  <2>11. TypeOK'
    BY <1>7, <2>5, <2>6 DEF ArmFirst, WriteFirst, SearchInv, TypeOK
  <2> QED BY <1>7, <2>6, <2>10, <2>11, StepGoal DEF ArmFirst, WriteFirst, SearchInv
<1>8. CASE ArmSecond
  <2>1. /\ timers' = [timers EXCEPT ![main.timer] = StoreByte(SecondByte(main.order), @, 0)]
        /\ main' = IF main.command = NoCommand THEN Idle ELSE Drive(main.command)
        /\ main.pc = "arm_rest"
        /\ UNCHANGED <<state, boom_back, drifton, motors, searching, overtaken>>
    BY <1>8 DEF ArmSecond, WriteSecond
  <2>2. PICK u \in Timers : u = main.timer
    BY <1>1, <2>1 DEF JobShape
  <2>3. SecondByte(main.order) \in {"high", "low"}
    BY DEF SecondByte
  <2>4. timers' = [timers EXCEPT ![u] = StoreByte(SecondByte(main.order), @, 0)]
    BY <2>1, <2>2
  <2>5. /\ timers' \in [Timers -> Int]
        /\ timers'[u] = StoreByte(SecondByte(main.order), timers[u], 0)
        /\ \A t \in Timers : t # u => timers'[t] = timers[t]
    <3>1. PICK x \in Int : x = StoreByte(SecondByte(main.order), timers[u], 0)
      BY <1>1, <2>3, StoreByteBounds
    <3>2. timers' = [timers EXCEPT ![u] = x]
      BY <2>4, <3>1
    <3> QED BY <1>1, <3>1, <3>2
  <2>6. \A t \in Timers : Waits(state, t) =>
           timers[t] >= 0 \/ (t = u /\ main.order # "high first")
    BY <1>2, <2>1, <2>2 DEF Pending
  <2>7. Waits(state, u) => timers'[u] >= 0
    <3>1. CASE main.order = "high first"
      BY <1>1, <2>5, <2>6, <3>1, StoreByteBounds DEF SecondByte
    <3>2. CASE main.order # "high first"
      BY <1>1, <2>5, <3>2, StoreByteBounds DEF SecondByte
    <3> QED BY <3>1, <3>2
  <2>8. \A t \in Timers : Waits(state, t) => timers'[t] >= 0
    BY <2>5, <2>6, <2>7
  <2>9. IsJob(main')
    BY <1>1, <2>1 DEF IsJob, IsDrive, Job
  <2>10. main' \in Job /\ JobShape(main)'
    BY <2>9, JobsWellFormed DEF JobShape
  <2>11. TypeOK'
    BY <2>1, <2>5, <2>10 DEF SearchInv, TypeOK
  <2>12. Pending(state', timers', main')
    BY <2>1, <2>8 DEF Pending
  <2> QED BY <2>1, <2>10, <2>11, <2>12, StepGoal DEF SearchInv
<1>9. CASE WritePortF \/ WriteOcr2a \/ WriteOcr2b
  <2>1. PICK r \in Registers :
           /\ main.pc = r
           /\ motors' = [motors EXCEPT ![r] = main.command]
           /\ UNCHANGED <<state, boom_back, timers, drifton, searching, overtaken>>
    BY <1>9 DEF WritePortF, WriteOcr2a, WriteOcr2b, WriteRegister, Registers
  <2>2. motors' \in [Registers -> Commands]
    BY <1>1, <2>1 DEF JobShape
  <2>3. /\ main' \in Job /\ JobShape(main)'
        /\ main'.timer = main.timer /\ main'.order = main.order
    <3>1. CASE WritePortF \/ WriteOcr2a
      BY <1>1, <3>1 DEF WritePortF, WriteOcr2a, WriteRegister, Job, JobShape, Pcs, Registers
    <3>2. CASE WriteOcr2b /\ main.timer = NoTimer
      BY <1>1, <3>2 DEF WriteOcr2b, WriteRegister, Idle, Job, JobShape, Pcs, Registers
    <3>3. CASE WriteOcr2b /\ main.timer # NoTimer
      BY <1>1, <3>3 DEF WriteOcr2b, WriteRegister, Idle, Job, JobShape, Pcs, Registers
    <3> QED BY <1>9, <3>1, <3>2, <3>3
  <2>4. TypeOK'
    BY <2>1, <2>2, <2>3 DEF SearchInv, TypeOK
  <2>5. main.pc \notin {"clear", "clear_rest", "set", "entry"}
    BY <2>1 DEF Registers
  <2>6. Pending(state', timers', main')
    BY <1>2, <2>1, <2>3, <2>5 DEF Pending
  <2> QED BY <2>1, <2>3, <2>4, <2>6, StepGoal DEF SearchInv
<1> QED BY <1>3, <1>4, <1>5, <1>6, <1>7, <1>8, <1>9 DEF MainStep

LEMMA StutterInv ==
    ASSUME SearchInv, UNCHANGED vars
    PROVE  SearchInv'
<1>1. TypeOK' /\ JobShape(main)' /\ (searching' => state' # "ST_INIT")
  BY DEF SearchInv, TypeOK, JobShape, vars
<1>2. Pending(state', timers', main')
  BY PendingTable DEF SearchInv, TypeOK, Pending, vars
<1> QED BY <1>1, <1>2, StepGoal

\* SearchInv is an inductive invariant of the state machine and its interrupt.
THEOREM SearchInvariant == Spec => []SearchInv
<1>1. SearchInv /\ [Next]_vars => SearchInv'
  BY TickInv, StepInv, CallInv, StutterInv DEF Next
<1> QED BY InitInv, <1>1, PTL DEF Spec

\* The variables keep their types (can_search.c:6-31), whatever the timeouts.
THEOREM TypeCorrect == Spec => []TypeOK
<1>1. SearchInv => TypeOK
  BY DEF SearchInv
<1> QED BY <1>1, SearchInvariant, PTL

\* No interrupt, no torn timer and no abandoned transition leaves the robot,
\* between two calls of the main loop, in a state whose timeout is not running
\* (can_search.c:114-119, 510-566).
THEOREM TimeoutsStayArmed == Spec => []TimeoutArmed
<1>1. SearchInv => TimeoutArmed
  <2> SUFFICES ASSUME SearchInv, main.pc = "idle" PROVE Armed(state, timers)
    BY DEF TimeoutArmed
  <2>1. main = Idle /\ state \in States
    BY DEF SearchInv, JobShape, TypeOK
  <2>2. \A t \in Timers : Waits(state, t) => timers[t] >= 0
    BY <2>1, IdleArmed
  <2> QED BY <2>1, <2>2, WaitsForTable DEF Armed
<1> QED BY <1>1, SearchInvariant, PTL

-----------------------------------------------------------------------------
(***************************************************************************)
(* What the handlers answer.                                               *)
(***************************************************************************)

\* A job that writes c to the motors and may set a timer.
Commanded(j, c) ==
    \/ j = Drive(c)
    \/ j = DriveThenArm(c, "search")
    \/ \E t \in Timers : j = ArmThenDrive(t, c)

\* The edges a signal may decide in each state.
Edge(s, r) == <<s, r>> \in Diagram!SignalEdges

LEMMA EdgeTable ==
    /\ Edge("ST_SEARCH_WALL", "ST_PUSH")
    /\ Edge("ST_SEARCH_WALL", "ST_REVERSE")
    /\ Edge("ST_SEARCH_WALL", "ST_DRIFT_OFF_WALL")
    /\ Edge("ST_SEARCH_WALL", "ST_SPIN_OFF_WALL")
    /\ Edge("ST_DRIFT_OFF_WALL", "ST_SEARCH_WALL")
    /\ Edge("ST_DRIFT_OFF_WALL", "ST_REVERSE")
    /\ Edge("ST_DRIFT_OFF_WALL", "ST_DRIFT_TO_CENTER")
    /\ Edge("ST_DRIFT_OFF_WALL", "ST_SPIN_OFF_WALL")
    /\ Edge("ST_DRIFT_TO_CENTER", "ST_SEARCH_WALL")
    /\ Edge("ST_DRIFT_TO_CENTER", "ST_REVERSE")
    /\ Edge("ST_DRIFT_TO_CENTER", "ST_DRIFT_OFF_WALL")
    /\ Edge("ST_DRIFT_TO_CENTER", "ST_SPIN_OFF_WALL")
    /\ Edge("ST_SPIN_OFF_WALL", "ST_REVERSE")
    /\ Edge("ST_SPIN_OFF_WALL", "ST_DRIFT_TO_CENTER")
    /\ Edge("ST_DRIFT_ON_WALL", "ST_SEARCH_WALL")
    /\ Edge("ST_DRIFT_ON_WALL", "ST_REVERSE")
    /\ Edge("ST_DRIFT_ON_WALL", "ST_DRIFT_OFF_WALL")
    /\ Edge("ST_DRIFT_ON_WALL", "ST_SPIN_OFF_WALL")
    /\ Edge("ST_DRIFT_ON_WALL_HARD", "ST_SEARCH_WALL")
    /\ Edge("ST_DRIFT_ON_WALL_HARD", "ST_REVERSE")
    /\ Edge("ST_DRIFT_ON_WALL_HARD", "ST_DRIFT_OFF_WALL")
    /\ Edge("ST_DRIFT_ON_WALL_HARD", "ST_SPIN_OFF_WALL")
    /\ Edge("ST_PUSH", "ST_PUSH_LEFT")
    /\ Edge("ST_PUSH", "ST_PUSH_RIGHT")
    /\ Edge("ST_PUSH_LEFT", "ST_REVERSE")
    /\ Edge("ST_PUSH_RIGHT", "ST_REVERSE")
    /\ Edge("ST_REVERSE", "ST_DRIFT_ON_WALL")
    /\ Edge("ST_SEARCH_SCRAMBLE", "ST_SEARCH_WALL")
  BY DEF Edge, Diagram!SignalEdges, Diagram!Drifting

\* A signal of the main loop is ignored, or decides an edge of the diagram, or
\* drives the motors with a command of the state.  Full power towards a can is
\* not among those commands when the boom was latched, nor when this very signal
\* latches it (can_search.c:121-443).
SignalJob(s, sig, p, j) ==
    \/ j = Idle /\ ~(s = "ST_SEARCH_WALL" /\ sig = "SIG_BOOM_BACK" /\ p)
    \/ \E r \in States \ {"ST_INIT"} : j = GoTo(r) /\ Edge(s, r)
    \/ \E c \in CommandsOf(s) :
         Commanded(j, c) /\ (c = "can_pos" => ~boom_back /\ sig = "SIG_CAN_SPOTTED")

LEMMA SignalJobs ==
    ASSUME NEW s \in States \ {"ST_INIT"}, NEW sig \in MainSignals, NEW p \in BOOLEAN
    PROVE  SignalJob(s, sig, p, Handle(s, sig, p))
<1> DEFINE Fits(j) == SignalJob(s, sig, p, j)
<1>1. /\ ~(s = "ST_SEARCH_WALL" /\ sig = "SIG_BOOM_BACK" /\ p) => Fits(Idle)
      /\ \A r \in States \ {"ST_INIT"} : Edge(s, r) => Fits(GoTo(r))
      /\ \A c \in CommandsOf(s) : c # "can_pos" => Fits(Drive(c)) /\ Fits(DriveThenArm(c, "search"))
  BY DEF SignalJob, Commanded
<1>2. /\ sig # "SIG_EXIT" /\ sig # "SIG_ENTRY" /\ sig \notin TimeoutSignals
      /\ sig \in MainSignals
  BY DEF MainSignals, FrontSensors, BackSensors, Booms, TimeoutSignals
<1> HIDE DEF Fits
<1>3. CASE s = "ST_SEARCH_WALL"
  <2>1. /\ "can_pos_half" \in CommandsOf(s) /\ "can_pos" \in CommandsOf(s)
        /\ "ST_PUSH" \in States /\ "ST_REVERSE" \in States
        /\ "ST_DRIFT_OFF_WALL" \in States /\ "ST_SPIN_OFF_WALL" \in States
    BY <1>3 DEF CommandsOf, States
  <2>2. ~boom_back /\ sig = "SIG_CAN_SPOTTED" => Fits(DriveThenArm("can_pos", "search"))
    BY <2>1 DEF Fits, SignalJob, Commanded
  <2>3. Handle(s, sig, p) = SearchWall(sig, p)
    BY <1>3 DEF Handle
  <2>4. Fits(SearchWall(sig, p))
    BY <1>1, <1>2, <1>3, <2>1, <2>2, EdgeTable DEF SearchWall, TimeoutSignals, FrontSensors
  <2> QED BY <2>3, <2>4 DEF Fits
<1>4. CASE s = "ST_DRIFT_OFF_WALL"
  <2>1. /\ "ST_SEARCH_WALL" \in States /\ "ST_REVERSE" \in States /\ "ST_DRIFT_TO_CENTER" \in States /\ "ST_SPIN_OFF_WALL" \in States
    BY <1>4 DEF States
  <2>2. Handle(s, sig, p) = DriftOffWall(sig, p)
    BY <1>4 DEF Handle
  <2>3. Fits(DriftOffWall(sig, p))
    BY <1>1, <1>2, <1>4, <2>1, EdgeTable DEF DriftOffWall, TimeoutSignals
  <2> QED BY <2>2, <2>3 DEF Fits
<1>5. CASE s = "ST_DRIFT_TO_CENTER"
  <2>1. /\ "ST_SEARCH_WALL" \in States /\ "ST_REVERSE" \in States /\ "ST_DRIFT_OFF_WALL" \in States /\ "ST_SPIN_OFF_WALL" \in States
    BY <1>5 DEF States
  <2>2. Handle(s, sig, p) = DriftToCenter(sig, p)
    BY <1>5 DEF Handle
  <2>3. Fits(DriftToCenter(sig, p))
    BY <1>1, <1>2, <1>5, <2>1, EdgeTable DEF DriftToCenter, TimeoutSignals
  <2> QED BY <2>2, <2>3 DEF Fits
<1>6. CASE s = "ST_SPIN_OFF_WALL"
  <2>1. /\ "ST_REVERSE" \in States /\ "ST_DRIFT_TO_CENTER" \in States
        /\ "spin_right" \in CommandsOf(s)
        /\ "forwards_right" \in CommandsOf(s)
    BY <1>6 DEF States, CommandsOf
  <2>2. Handle(s, sig, p) = SpinOffWall(sig, p)
    BY <1>6 DEF Handle
  <2>3. Fits(SpinOffWall(sig, p))
    BY <1>1, <1>2, <1>6, <2>1, EdgeTable DEF SpinOffWall, TimeoutSignals
  <2> QED BY <2>2, <2>3 DEF Fits
<1>7. CASE s = "ST_DRIFT_ON_WALL"
  <2>1. /\ "ST_SEARCH_WALL" \in States /\ "ST_REVERSE" \in States /\ "ST_DRIFT_OFF_WALL" \in States /\ "ST_SPIN_OFF_WALL" \in States
    BY <1>7 DEF States
  <2>2. Handle(s, sig, p) = DriftOnWall(sig, p)
    BY <1>7 DEF Handle
  <2>3. Fits(DriftOnWall(sig, p))
    BY <1>1, <1>2, <1>7, <2>1, EdgeTable DEF DriftOnWall, TimeoutSignals
  <2> QED BY <2>2, <2>3 DEF Fits
<1>8. CASE s = "ST_DRIFT_ON_WALL_HARD"
  <2>1. /\ "ST_SEARCH_WALL" \in States /\ "ST_REVERSE" \in States /\ "ST_DRIFT_OFF_WALL" \in States /\ "ST_SPIN_OFF_WALL" \in States
    BY <1>8 DEF States
  <2>2. Handle(s, sig, p) = DriftOnWallHard(sig, p)
    BY <1>8 DEF Handle
  <2>3. Fits(DriftOnWallHard(sig, p))
    BY <1>1, <1>2, <1>8, <2>1, EdgeTable DEF DriftOnWallHard, TimeoutSignals
  <2> QED BY <2>2, <2>3 DEF Fits
<1>9. CASE s = "ST_PUSH"
  <2>1. /\ "ST_PUSH_LEFT" \in States /\ "ST_PUSH_RIGHT" \in States
        /\ "forwards" \in CommandsOf(s)
        /\ "forwards_slow" \in CommandsOf(s)
    BY <1>9 DEF States, CommandsOf
  <2>2. Handle(s, sig, p) = Push(sig, p)
    BY <1>9 DEF Handle
  <2>3. Fits(Push(sig, p))
    BY <1>1, <1>2, <1>9, <2>1, EdgeTable DEF Push, TimeoutSignals
  <2> QED BY <2>2, <2>3 DEF Fits
<1>10. CASE s = "ST_PUSH_LEFT"
  <2>1. /\ "ST_REVERSE" \in States
        /\ "spin_right" \in CommandsOf(s)
        /\ "forwards" \in CommandsOf(s)
    BY <1>10 DEF States, CommandsOf
  <2>2. Handle(s, sig, p) = PushLeft(sig, p)
    BY <1>10 DEF Handle
  <2>3. Fits(PushLeft(sig, p))
    BY <1>1, <1>2, <1>10, <2>1, EdgeTable DEF PushLeft, TimeoutSignals
  <2> QED BY <2>2, <2>3 DEF Fits
<1>11. CASE s = "ST_PUSH_RIGHT"
  <2>1. /\ "ST_REVERSE" \in States
        /\ "spin_left" \in CommandsOf(s)
        /\ "forwards" \in CommandsOf(s)
    BY <1>11 DEF States, CommandsOf
  <2>2. Handle(s, sig, p) = PushRight(sig, p)
    BY <1>11 DEF Handle
  <2>3. Fits(PushRight(sig, p))
    BY <1>1, <1>2, <1>11, <2>1, EdgeTable DEF PushRight, TimeoutSignals
  <2> QED BY <2>2, <2>3 DEF Fits
<1>12. CASE s = "ST_REVERSE"
  <2>1. /\ "ST_DRIFT_ON_WALL" \in States
    BY <1>12 DEF States
  <2>2. Handle(s, sig, p) = Reverse(sig, p)
    BY <1>12 DEF Handle
  <2>3. Fits(Reverse(sig, p))
    BY <1>1, <1>2, <1>12, <2>1, EdgeTable DEF Reverse, TimeoutSignals
  <2> QED BY <2>2, <2>3 DEF Fits
<1>13. CASE s = "ST_SEARCH_SCRAMBLE"
  <2>1. /\ "ST_SEARCH_WALL" \in States
    BY <1>13 DEF States
  <2>2. Handle(s, sig, p) = SearchScramble(sig, p)
    BY <1>13 DEF Handle
  <2>3. Fits(SearchScramble(sig, p))
    BY <1>1, <1>2, <1>13, <2>1, EdgeTable DEF SearchScramble, TimeoutSignals
  <2> QED BY <2>2, <2>3 DEF Fits
<1> QED BY <1>3, <1>4, <1>5, <1>6, <1>7, <1>8, <1>9, <1>10, <1>11, <1>12, <1>13 DEF States

\* SIG_ENTRY drives the motors with a command of the state, never at full power
\* towards a can.
LEMMA EntryCommands ==
    ASSUME NEW s \in States \ {"ST_INIT"}
    PROVE  \E c \in CommandsOf(s) :
              Commanded(Handle(s, "SIG_ENTRY", FALSE), c) /\ c # "can_pos"
<1> DEFINE job == Handle(s, "SIG_ENTRY", FALSE)
<1>1. \E c \in CommandsOf(s) :
         /\ c # "can_pos"
         /\ \/ job = Drive(c)
            \/ job = DriveThenArm(c, "search")
            \/ \E t \in Timers : job = ArmThenDrive(t, c)
  BY DEF Handle, States, CommandsOf, Timers, SearchWall, DriftOffWall,
         DriftToCenter, DriftOnWall, DriftOnWallHard, SpinOffWall, Push, PushLeft,
         PushRight, Reverse, SearchScramble
<1> QED BY <1>1 DEF Commanded

LEMMA CommandsOfState ==
    ASSUME NEW s \in States
    PROVE  CommandsOf(s) \subseteq Commands /\ NoCommand \notin CommandsOf(s)
  BY DEF States, CommandsOf, Commands, NoCommand

\* The fields of a job that drives the motors.
LEMMA CommandedFields ==
    ASSUME NEW j, NEW c, Commanded(j, c)
    PROVE  /\ j.command = c
           /\ j.target = NoState
           /\ j.pc = "PORTF" \/ j.pc = "arm"
  BY DEF Commanded, Drive, DriveThenArm, ArmThenDrive, Idle

-----------------------------------------------------------------------------
(***************************************************************************)
(* The interrupt.                                                          *)
(***************************************************************************)

\* What a tick has done to the state and the motors, with the stages of the
\* timers in R to come: nothing, or one transition along a timeout edge, after
\* which no stage to come finds the timeout of the new state run out.
Moved(c, R) ==
    \/ c.state = state /\ c.motors = motors
    \/ /\ <<state, c.state>> \in Diagram!TimeoutEdges
       /\ \E cmd \in CommandsOf(c.state) : cmd # "can_pos" /\ c.motors = AllRegisters(cmd)
       /\ \A t \in R : Waits(c.state, t) => c.timers[t] = 0

LEMMA EnterDrives ==
    ASSUME NEW c \in Context, NEW s \in States \ {"ST_INIT"}
    PROVE  \E cmd \in CommandsOf(s) : cmd # "can_pos" /\ Enter(c, s).motors = AllRegisters(cmd)
<1>1. PICK job : job = Handle(s, "SIG_ENTRY", FALSE)
  OBVIOUS
<1>2. PICK d : d = [c EXCEPT !.state = s, !.motors = AllRegisters(job.command)]
  OBVIOUS
<1>3. PICK cmd \in CommandsOf(s) : job.command = cmd /\ cmd # "can_pos"
  BY <1>1, EntryCommands, CommandedFields
<1>4. cmd \in Commands
  BY CommandsOfState
<1>5. d \in Context /\ d.motors = AllRegisters(cmd)
  BY <1>2, <1>3, <1>4 DEF Context, AllRegisters
<1>6. job.timer \in Timers \cup {NoTimer}
  BY <1>1, EntryJobs
<1>7. Enter(c, s) = IF job.timer = NoTimer THEN d ELSE SetTimer(d, job.timer, 0)
  BY <1>1, <1>2 DEF Enter
<1>8. Enter(c, s).motors = d.motors
  <2>1. CASE job.timer = NoTimer
    BY <1>7, <2>1
  <2>2. CASE job.timer # NoTimer
    <3>1. PICK t \in Timers : t = job.timer
      BY <1>6, <2>2
    <3>2. SetTimer(d, t, 0).motors = d.motors
      BY <1>5, SetTimerFields
    <3> QED BY <1>7, <2>2, <3>1, <3>2
  <2> QED BY <2>1, <2>2
<1> QED BY <1>3, <1>5, <1>8

LEMMA LeaveKeeps ==
    ASSUME NEW c \in Context
    PROVE  Leave(c) \in Context /\ Leave(c).state = c.state
<1>1. "search" \in Timers /\ -1 \in Int
  BY DEF Timers
<1> QED BY <1>1, SetTimerFields DEF Leave

LEMMA LimitPositive ==
    ASSUME TypeOK, NEW t \in Timers
    PROVE  Limit[t] \in Int /\ Limit[t] >= 1
<1>1. drifton \in Nat \ {0}
  BY DEF TypeOK
<1> QED BY <1>1, TimeoutsPositive DEF Limit, Timers

\* A stage makes the transition of a tick, or leaves state and motors alone: a
\* timeout set to 0 by a transition cannot run out in the same tick.
LEMMA StageMoves ==
    ASSUME TypeOK, NEW c, StageInv(c), NEW R \in SUBSET Timers, NEW u \in R, Moved(c, R)
    PROVE  Moved(Stage(c, u), R \ {u})
<1>1. /\ c \in Context /\ u \in Timers
      /\ c.state \in States \ {"ST_INIT"}
      /\ c.timers \in [Timers -> Int]
  BY DEF StageInv, Context
<1>2. PICK n : n = c.timers[u] + 1
  OBVIOUS
<1>3. n \in Int /\ Limit[u] \in Int /\ Limit[u] >= 1 /\ c.timers[u] \in Int
  BY <1>1, <1>2, LimitPositive
<1>4. PICK d : d = SetTimer(c, u, n)
  OBVIOUS
<1>5. /\ d \in Context
      /\ d.state = c.state /\ d.motors = c.motors
      /\ \A t \in Timers : t # u => d.timers[t] = c.timers[t]
  <2>1. c \in Context /\ u \in Timers /\ n \in Int
    BY <1>1, <1>3
  <2>2. /\ SetTimer(c, u, n) \in Context
        /\ SetTimer(c, u, n).state = c.state
        /\ SetTimer(c, u, n).motors = c.motors
        /\ \A t \in Timers : t # u => SetTimer(c, u, n).timers[t] = c.timers[t]
    BY ONLY <2>1, SetTimerFields
  <2> QED BY ONLY <1>4, <2>2
<1>6. ASSUME NEW e, e.state = c.state, e.motors = c.motors,
             \A t \in Timers : t # u => e.timers[t] = c.timers[t]
      PROVE  Moved(e, R \ {u})
  BY <1>6 DEF Moved
<1>7. CASE c.timers[u] < 0
  <2>1. Stage(c, u) = c
    BY <1>7 DEF Stage
  <2> QED BY <1>6, <2>1
<1>8. CASE c.timers[u] >= 0 /\ n <= Limit[u]
  <2>1. Stage(c, u) = d
    BY <1>2, <1>3, <1>4, <1>8 DEF Stage
  <2> QED BY <1>5, <1>6, <2>1
<1>9. CASE c.timers[u] >= 0 /\ ~(n <= Limit[u])
  <2>1. PICK e : e = TimeOut(d, u)
    OBVIOUS
  <2>2. Stage(c, u) = SetTimer(e, u, -1)
    BY <1>2, <1>3, <1>4, <1>9, <2>1 DEF Stage
  <2>3. PICK job : job = Handle(c.state, TimeoutSignal[u], FALSE)
    OBVIOUS
  <2>4. e = IF job.pc = "exit" THEN Enter(Leave(d), job.target) ELSE d
    BY <1>5, <2>1, <2>3 DEF TimeOut
  <2>5. CASE ~Waits(c.state, u)
    <3>1. job = Idle
      BY <1>1, <2>3, <2>5, TimeoutJobs
    <3>2. e = d
      BY <2>4, <3>1 DEF Idle
    <3>3. /\ SetTimer(d, u, -1).state = c.state
          /\ SetTimer(d, u, -1).motors = c.motors
          /\ \A t \in Timers : t # u => SetTimer(d, u, -1).timers[t] = c.timers[t]
      BY <1>1, <1>5, SetTimerFields
    <3> QED BY <1>6, <2>2, <3>2, <3>3
  <2>6. CASE Waits(c.state, u)
    <3>1. c.state = state
      <4>1. c.timers[u] # 0
        BY <1>2, <1>3, <1>9
      <4> QED BY <2>6, <4>1 DEF Moved
    <3>2. PICK r \in States \ {"ST_INIT"} :
             /\ job = GoTo(r)
             /\ ~Waits(r, u)
             /\ <<c.state, r>> \in Diagram!TimeoutEdges
      BY <1>1, <2>3, <2>6, TimeoutJobs
    <3>3. job.pc = "exit" /\ job.target = r
      BY <3>2 DEF GoTo, Idle
    <3>4. e = Enter(Leave(d), r) /\ Leave(d) \in Context
      BY <1>5, <2>4, <3>3, LeaveKeeps
    <3>5. /\ e \in Context /\ e.state = r
          /\ \A t \in Timers : Waits(r, t) => e.timers[t] = 0
      BY <3>4, EnterArms
    <3>6. \E cmd \in CommandsOf(r) : cmd # "can_pos" /\ e.motors = AllRegisters(cmd)
      BY <3>4, EnterDrives
    <3>7. PICK f : f = SetTimer(e, u, -1)
      OBVIOUS
    <3>8. /\ f.state = r /\ f.motors = e.motors
          /\ \A t \in Timers : t # u => f.timers[t] = e.timers[t]
      <4>1. e \in Context /\ u \in Timers /\ -1 \in Int
        BY <1>1, <3>5
      <4>2. /\ SetTimer(e, u, -1).state = e.state
            /\ SetTimer(e, u, -1).motors = e.motors
            /\ \A t \in Timers : t # u => SetTimer(e, u, -1).timers[t] = e.timers[t]
        BY ONLY <4>1, SetTimerFields
      <4> QED BY <3>5, <3>7, <4>2
    <3>9. \A t \in R \ {u} : Waits(f.state, t) => f.timers[t] = 0
      BY <3>5, <3>8
    <3>10. <<state, f.state>> \in Diagram!TimeoutEdges
      BY <3>1, <3>2, <3>8
    <3>11. \E cmd \in CommandsOf(f.state) : cmd # "can_pos" /\ f.motors = AllRegisters(cmd)
      BY <3>6, <3>8
    <3> QED BY <2>2, <3>7, <3>9, <3>10, <3>11 DEF Moved
  <2> QED BY <2>5, <2>6
<1> QED BY <1>1, <1>3, <1>7, <1>8, <1>9

LEMMA ThenMoves ==
    ASSUME TypeOK, NEW R \in SUBSET Timers, NEW u \in R,
           NEW S, \A c \in S : StageInv(c) /\ Moved(c, R)
    PROVE  \A c \in Then(S, u) : StageInv(c) /\ Moved(c, R \ {u})
<1>1. u \in Timers /\ state \in States
  BY DEF TypeOK
<1> QED BY <1>1, StageKeeps, StageMoves DEF Then

\* A tick takes at most one timeout edge, and drives the motors if it takes one.
LEMMA TickMoves ==
    ASSUME TypeOK, state # "ST_INIT"
    PROVE  \A c \in TickOutcomes : StageInv(c) /\ Moved(c, {})
<1>1. StageInv(Found) /\ Moved(Found, Timers)
  BY DEF TypeOK, StageInv, Moved, Found, Context
<1> DEFINE R1 == Timers \ {"reverse"}
           R2 == R1 \ {"search"}
           R3 == R2 \ {"scramble"}
           R4 == R3 \ {"drifton"}
           R5 == R4 \ {"driftonhard"}
           R6 == R5 \ {"driftcenter"}
           S1 == Then({Found}, "reverse")
           S2 == Then(S1, "search")
           S3 == Then(S2, "scramble")
           S4 == Then(S3, "drifton")
           S5 == Then(S4, "driftonhard")
           S6 == Then(S5, "driftcenter")
<1>2. TickOutcomes = S6
  BY DEF TickOutcomes
<1>3. /\ "reverse" \in Timers /\ "search" \in R1 /\ "scramble" \in R2
      /\ "drifton" \in R3 /\ "driftonhard" \in R4 /\ "driftcenter" \in R5
      /\ R1 \in SUBSET Timers /\ R2 \in SUBSET Timers /\ R3 \in SUBSET Timers
      /\ R4 \in SUBSET Timers /\ R5 \in SUBSET Timers /\ R6 = {}
  BY DEF Timers
<1>4. \A c \in S1 : StageInv(c) /\ Moved(c, R1)
  BY <1>1, <1>3, ThenMoves
<1> HIDE DEF S1, R1
<1>5. \A c \in S2 : StageInv(c) /\ Moved(c, R2)
  BY <1>3, <1>4, ThenMoves
<1> HIDE DEF S2, R2
<1>6. \A c \in S3 : StageInv(c) /\ Moved(c, R3)
  BY <1>3, <1>5, ThenMoves
<1> HIDE DEF S3, R3
<1>7. \A c \in S4 : StageInv(c) /\ Moved(c, R4)
  BY <1>3, <1>6, ThenMoves
<1> HIDE DEF S4, R4
<1>8. \A c \in S5 : StageInv(c) /\ Moved(c, R5)
  BY <1>3, <1>7, ThenMoves
<1> HIDE DEF S5, R5
<1>9. \A c \in S6 : StageInv(c) /\ Moved(c, R6)
  BY <1>3, <1>8, ThenMoves
<1> QED BY <1>2, <1>3, <1>9

-----------------------------------------------------------------------------
(***************************************************************************)
(* The refinement of the diagram.                                          *)
(***************************************************************************)

\* The step of the diagram, or the stutter, that each action is.
LEMMA TickDiagram ==
    ASSUME SearchInv, Tick
    PROVE  \/ UNCHANGED <<state, main.target>>
           \/ Diagram!TimeOut
<1>1. PICK c \in TickOutcomes : state' = c.state
  BY DEF Tick
<1>2. Moved(c, {}) /\ main' = main
  BY <1>1, TickMoves DEF SearchInv, Tick
<1>3. CASE c.state = state
  BY <1>1, <1>2, <1>3
<1>4. CASE <<state, c.state>> \in Diagram!TimeoutEdges
  <2>1. PICK edge \in Diagram!TimeoutEdges : edge = <<state, c.state>>
    BY <1>4
  <2>2. edge[1] = state /\ state' = edge[2]
    BY <1>1, <2>1
  <2>3. (main.target)' = main.target
    BY <1>2
  <2> QED BY <2>2, <2>3 DEF Diagram!TimeOut
<1> QED BY <1>2, <1>3, <1>4 DEF Moved

LEMMA SignalDiagram ==
    ASSUME SearchInv, NEW sig \in MainSignals, NEW p \in BOOLEAN, Signal(sig, p)
    PROVE  \/ UNCHANGED <<state, main.target>>
           \/ Diagram!Decide
<1>1. state \in States \ {"ST_INIT"} /\ main = Idle /\ state' = state
  BY DEF Signal, SearchInv, TypeOK
<1>2. SignalJob(state, sig, p, main')
  BY <1>1, SignalJobs DEF Signal
<1>3. main.target = NoState /\ Idle.target = NoState
  BY <1>1 DEF Idle
<1>4. CASE main' = Idle
  BY <1>1, <1>3, <1>4
<1>5. ASSUME NEW r \in States, main' = GoTo(r), Edge(state, r)
      PROVE  Diagram!Decide
  <2>1. PICK edge \in Diagram!SignalEdges : edge = <<state, r>>
    BY <1>5 DEF Edge
  <2>2. main'.target = r
    BY <1>5 DEF GoTo, Idle
  <2>3. edge[1] = state /\ main'.target = edge[2]
    BY <2>1, <2>2
  <2> QED BY <1>1, <1>3, <2>3 DEF Diagram!Decide, NoState, Diagram!NoState
<1>6. ASSUME NEW c, Commanded(main', c)
      PROVE  UNCHANGED <<state, main.target>>
  BY <1>1, <1>3, <1>6, CommandedFields
<1> QED BY <1>2, <1>4, <1>5, <1>6 DEF SignalJob

LEMMA CallDiagram ==
    ASSUME SearchInv, MainCall
    PROVE  \/ UNCHANGED <<state, main.target>>
           \/ Diagram!Decide
           \/ Diagram!Start
<1>1. ASSUME NEW limit, CanSearchInit(limit)
      PROVE  Diagram!Start
  <2>1. state' = "ST_PUSH" /\ main' = main /\ main = Idle
    <3>1. PICK c : c = [Found EXCEPT !.state = "ST_INIT"]
      OBVIOUS
    <3>2. c \in Context
      BY <3>1 DEF Found, Context, SearchInv, TypeOK, States
    <3>3. "ST_PUSH" \in States \ {"ST_INIT"}
      BY DEF States
    <3>4. Enter(Leave(c), "ST_PUSH").state = "ST_PUSH"
      BY <3>2, <3>3, LeaveKeeps, EnterArms
    <3> QED BY <1>1, <3>1, <3>4 DEF CanSearchInit
  <2>2. main.target = NoState
    BY <2>1 DEF Idle
  <2> QED BY <2>1, <2>2 DEF Diagram!Start, NoState, Diagram!NoState
<1>2. CASE OtherMotors
  BY <1>2 DEF OtherMotors, Drive, Idle
<1> QED BY <1>1, <1>2, SignalDiagram DEF MainCall, StopSearch, ResumeSearch, OtherMotorSet

LEMMA StepDiagram ==
    ASSUME SearchInv, MainStep
    PROVE  \/ UNCHANGED <<state, main.target>>
           \/ Diagram!CarryOut
<1>1. main \in Job /\ JobShape(main) /\ state \in States
  BY DEF SearchInv, TypeOK
<1>2. Idle.target = NoState /\ \A c : Drive(c).target = NoState
  BY DEF Idle, Drive
<1>3. CASE SetState
  <2>1. main.target \in States
    BY <1>1, <1>3 DEF SetState, JobShape
  <2>2. NoState \notin States
    BY DEF NoState, States
  <2>3. state' = main.target /\ main'.target = NoState
    BY <1>3 DEF SetState, Idle
  <2> QED BY <2>1, <2>2, <2>3 DEF Diagram!CarryOut, NoState, Diagram!NoState
<1>4. CASE SignalEntry
  <2>1. main.target = NoState /\ state' = state
    BY <1>1, <1>4 DEF SignalEntry, JobShape
  <2>2. main' = Handle(state, "SIG_ENTRY", FALSE)
    BY <1>4 DEF SignalEntry
  <2>3. IsDrive(main') \/ IsDriveArm(main') \/ IsArmDrive(main')
    BY <1>1, <2>2, EntryJobs
  <2>4. main'.target = NoState
    BY <2>3 DEF IsDrive, IsDriveArm, IsArmDrive, DriveThenArm, ArmThenDrive, Drive, Idle
  <2> QED BY <2>1, <2>4
<1>5. CASE ArmSecond \/ WriteOcr2b
  <2>1. main.target = NoState /\ state' = state
    BY <1>1, <1>5 DEF ArmSecond, WriteSecond, WriteOcr2b, WriteRegister, JobShape
  <2>2. main'.target = NoState
    BY <1>2, <1>5 DEF ArmSecond, WriteOcr2b, Idle
  <2> QED BY <2>1, <2>2
<1>6. CASE SignalExit \/ DisarmFirst \/ DisarmSecond \/ ArmFirst \/ WritePortF \/ WriteOcr2a
  BY <1>1, <1>6 DEF SignalExit, DisarmFirst, DisarmSecond, ArmFirst, WritePortF, WriteOcr2a,
                    WriteFirst, WriteSecond, WriteRegister, Job
<1> QED BY <1>3, <1>4, <1>5, <1>6 DEF MainStep

\* The state machine with its interrupt implements the state diagram: a signal
\* decides an edge out of the state it was handled in, the decision is carried
\* out unless the machine is restarted, and a tick takes timeout edges only, at
\* most one (can_search.c:125-443, 510-566).
THEOREM ImplementsDiagram == Spec => FollowsDiagram
<1>1. Init => Diagram!Init
  BY DEF Init, Idle, Diagram!Init, NoState, Diagram!NoState
<1>2. SearchInv /\ [Next]_vars => [Diagram!Next]_<<state, main.target>>
  <2>1. ASSUME SearchInv, Next PROVE Diagram!Next \/ UNCHANGED <<state, main.target>>
    BY <2>1, TickDiagram, CallDiagram, StepDiagram DEF Next, Diagram!Next
  <2>2. CASE UNCHANGED vars
    BY <2>2 DEF vars
  <2> QED BY <2>1, <2>2
<1> QED BY <1>1, <1>2, SearchInvariant, PTL DEF Spec, FollowsDiagram, Diagram!Spec

-----------------------------------------------------------------------------
(***************************************************************************)
(* The motors follow the state, and the boom limits their power.           *)
(***************************************************************************)

LEMMA TickMotors ==
    ASSUME SearchInv, MotorsInv, PowerInv, Tick
    PROVE  MotorsInv' /\ PowerInv'
<1> USE DEF Driving, MotorsDone, Written
<1>1. PICK c \in TickOutcomes : state' = c.state /\ motors' = c.motors
  BY DEF Tick
<1>2. Moved(c, {}) /\ main' = main /\ boom_back' = boom_back
  BY <1>1, TickMoves DEF SearchInv, Tick
<1>3. overtaken' = IF state' = state THEN overtaken ELSE main.pc # "idle"
  BY DEF Tick
<1>4. CASE state' = state /\ motors' = motors
  BY <1>2, <1>3, <1>4 DEF MotorsInv, PowerInv
<1>5. CASE /\ <<state, c.state>> \in Diagram!TimeoutEdges
           /\ \E cmd \in CommandsOf(c.state) : cmd # "can_pos" /\ c.motors = AllRegisters(cmd)
  <2>1. PICK cmd \in CommandsOf(state') : cmd # "can_pos" /\ motors' = AllRegisters(cmd)
    BY <1>1, <1>5
  <2>2. state' # state
    BY <1>1, <1>5 DEF Diagram!TimeoutEdges
  <2>3. overtaken' = (main.pc # "idle")
    BY <1>3, <2>2
  <2>4. MotorsInv'
    <3>1. CASE main.pc = "idle"
      BY <1>2, <2>1, <3>1 DEF MotorsInv, Registers
    <3>2. CASE main.pc # "idle"
      BY <2>3, <3>2 DEF MotorsInv
    <3> QED BY <3>1, <3>2
  <2>5. \A r \in Registers : motors'[r] # "can_pos"
    BY <2>1 DEF AllRegisters
  <2>6. PowerInv'
    BY <1>2, <2>5 DEF PowerInv
  <2> QED BY <2>4, <2>6
<1> QED BY <1>1, <1>2, <1>4, <1>5 DEF Moved

\* A job a handler of the current state gives to the main loop, at its first step.
LEMMA NewJobMotors ==
    ASSUME UNCHANGED <<state, motors>>, NEW c \in CommandsOf(state), state \in States,
           Commanded(main', c), boom_back' => c # "can_pos"
    PROVE  MotorsInv' /\ PowerInv'
<1>1. main'.command = c /\ (main'.pc = "PORTF" \/ main'.pc = "arm")
  BY CommandedFields
<1>2. c # NoCommand
  BY CommandsOfState
<1> QED BY <1>1, <1>2 DEF MotorsInv, PowerInv, Driving, MotorsDone, Written, Registers

LEMMA SignalMotors ==
    ASSUME SearchInv, MotorsInv, PowerInv,
           NEW sig \in MainSignals, NEW p \in BOOLEAN, Signal(sig, p)
    PROVE  MotorsInv' /\ PowerInv'
<1>1. /\ state \in States \ {"ST_INIT"} /\ main = Idle
      /\ boom_back' = IF sig = "SIG_BOOM_BACK" THEN p ELSE boom_back
      /\ UNCHANGED <<state, motors, overtaken>>
  BY DEF Signal, SearchInv, TypeOK
<1>2. SignalJob(state, sig, p, main')
  BY <1>1, SignalJobs DEF Signal
<1>3. CASE main' = Idle /\ ~(state = "ST_SEARCH_WALL" /\ sig = "SIG_BOOM_BACK" /\ p)
  <2>1. MotorsInv'
    BY <1>1, <1>3 DEF MotorsInv, Driving, MotorsDone, Written
  <2>2. ASSUME boom_back', state = "ST_SEARCH_WALL" PROVE boom_back
    BY <1>1, <1>3, <2>2
  <2>3. Idle.command # "can_pos" /\ Idle.pc = "idle"
    BY DEF Idle, NoCommand
  <2>4. PowerInv'
    BY <1>1, <1>3, <2>2, <2>3 DEF PowerInv, MotorsDone, Written
  <2> QED BY <2>1, <2>4
<1>4. ASSUME NEW r, main' = GoTo(r)
      PROVE  MotorsInv' /\ PowerInv'
  <2>1. main'.pc = "exit" /\ main'.command # "can_pos"
    BY <1>4 DEF GoTo, Idle, NoCommand
  <2> QED BY <2>1 DEF MotorsInv, PowerInv, Driving, MotorsDone, Written, Registers
<1>5. ASSUME NEW c \in CommandsOf(state), Commanded(main', c),
             c = "can_pos" => ~boom_back /\ sig = "SIG_CAN_SPOTTED"
      PROVE  MotorsInv' /\ PowerInv'
  BY <1>1, <1>5, NewJobMotors
<1> QED BY <1>2, <1>3, <1>4, <1>5 DEF SignalJob

LEMMA CallMotors ==
    ASSUME SearchInv, MotorsInv, PowerInv, MainCall
    PROVE  MotorsInv' /\ PowerInv'
<1>1. ASSUME NEW limit, CanSearchInit(limit)
      PROVE  MotorsInv' /\ PowerInv'
  <2>1. PICK c : c = [Found EXCEPT !.state = "ST_INIT"]
    OBVIOUS
  <2>2. c \in Context
    BY <2>1 DEF Found, Context, SearchInv, TypeOK, States
  <2>3. "ST_PUSH" \in States \ {"ST_INIT"}
    BY DEF States
  <2>4. PICK d : d = Enter(Leave(c), "ST_PUSH")
    OBVIOUS
  <2>5. d.state = "ST_PUSH" /\ \E cmd \in CommandsOf("ST_PUSH") : d.motors = AllRegisters(cmd)
    BY <2>2, <2>3, <2>4, LeaveKeeps, EnterArms, EnterDrives
  <2>6. state' = d.state /\ motors' = d.motors /\ main' = Idle /\ UNCHANGED main
    BY <1>1, <2>1, <2>4 DEF CanSearchInit
  <2>7. Idle.pc = "idle" /\ Idle.command # "can_pos"
    BY DEF Idle, NoCommand
  <2>8. MotorsInv'
    BY <2>5, <2>6, <2>7 DEF MotorsInv, Driving, MotorsDone, Written, Registers
  <2>9. PowerInv'
    BY <2>5, <2>6, <2>7 DEF PowerInv, MotorsDone, Written
  <2> QED BY <2>8, <2>9
<1>2. CASE OtherMotors
  <2>1. overtaken' /\ main'.command = "other" /\ main'.pc = "PORTF"
    BY <1>2 DEF OtherMotors, Drive, Idle
  <2> QED BY <2>1 DEF MotorsInv, PowerInv, MotorsDone, Written
<1> QED BY <1>1, <1>2, SignalMotors DEF MainCall, StopSearch, ResumeSearch, OtherMotorSet

LEMMA StepMotors ==
    ASSUME SearchInv, MotorsInv, PowerInv, MainStep
    PROVE  MotorsInv' /\ PowerInv'
<1>1. /\ main \in Job /\ JobShape(main) /\ state \in States
      /\ motors \in [Registers -> Commands]
  BY DEF SearchInv, TypeOK
<1>2. CASE SignalExit \/ SetState \/ DisarmFirst \/ DisarmSecond
  <2>1. /\ main'.pc \in {"clear", "clear_rest", "set", "entry"}
        /\ main'.command = main.command \/ main'.command = NoCommand
        /\ main'.pc = "entry" => state' # "ST_INIT"
        /\ boom_back' = boom_back
    BY <1>1, <1>2 DEF SignalExit, SetState, DisarmFirst, DisarmSecond, WriteFirst, WriteSecond,
                      JobShape, Job, Idle
  <2> QED BY <2>1 DEF MotorsInv, PowerInv, Driving, MotorsDone, Written, Registers, NoCommand
<1>3. CASE SignalEntry
  <2>1. main.pc = "entry" /\ UNCHANGED <<state, boom_back, motors, overtaken>>
    BY <1>3 DEF SignalEntry
  <2>2. CASE state # "ST_INIT"
    <3>1. PICK c \in CommandsOf(state) : Commanded(main', c) /\ c # "can_pos"
      BY <1>1, <1>3, <2>2, EntryCommands DEF SignalEntry
    <3> QED BY <1>1, <2>1, <3>1, NewJobMotors
  <2>3. CASE state = "ST_INIT"
    <3>1. overtaken'
      BY <2>1, <2>3 DEF MotorsInv
    <3>2. Commanded(main', "forwards_right")
      BY <1>3, <2>3 DEF SignalEntry, Handle, SearchWall, Commanded
    <3>3. main'.command = "forwards_right" /\ (main'.pc = "PORTF" \/ main'.pc = "arm")
      BY <3>2, CommandedFields
    <3> QED BY <3>1, <3>3 DEF MotorsInv, PowerInv, MotorsDone, Written, NoCommand
  <2> QED BY <2>2, <2>3
<1>4. CASE ArmFirst
  <2>1. /\ main.pc = "arm" /\ main'.pc = "arm_rest" /\ main'.command = main.command
        /\ UNCHANGED <<state, boom_back, motors, overtaken>>
    BY <1>1, <1>4 DEF ArmFirst, WriteFirst, Job
  <2> QED BY <2>1 DEF MotorsInv, PowerInv, Driving, MotorsDone, Written, Registers
<1>5. CASE ArmSecond
  <2>1. /\ main.pc = "arm_rest"
        /\ main' = IF main.command = NoCommand THEN Idle ELSE Drive(main.command)
        /\ UNCHANGED <<state, boom_back, motors, overtaken>>
    BY <1>5 DEF ArmSecond, WriteSecond
  <2>2. \/ main.command = NoCommand /\ main'.pc = "idle" /\ main'.command = NoCommand
        \/ main.command # NoCommand /\ main'.pc = "PORTF" /\ main'.command = main.command
    BY <2>1 DEF Drive, Idle
  <2> QED BY <2>1, <2>2 DEF MotorsInv, PowerInv, Driving, MotorsDone, Written, Registers, NoCommand
<1>6. CASE WritePortF
  <2>1. /\ main.pc = "PORTF" /\ main'.pc = "OCR2A" /\ main'.command = main.command
        /\ motors' = [motors EXCEPT !["PORTF"] = main.command]
        /\ UNCHANGED <<state, boom_back, overtaken>>
    BY <1>1, <1>6 DEF WritePortF, WriteRegister, Job
  <2>2. motors'["PORTF"] = main.command
    BY <1>1, <2>1 DEF Registers
  <2> QED BY <2>1, <2>2 DEF MotorsInv, PowerInv, Driving, MotorsDone, Written, Registers
<1>7. CASE WriteOcr2a
  <2>1. /\ main.pc = "OCR2A" /\ main'.pc = "OCR2B" /\ main'.command = main.command
        /\ motors' = [motors EXCEPT !["OCR2A"] = main.command]
        /\ UNCHANGED <<state, boom_back, overtaken>>
    BY <1>1, <1>7 DEF WriteOcr2a, WriteRegister, Job
  <2>2. motors'["OCR2A"] = main.command /\ motors'["PORTF"] = motors["PORTF"]
    BY <1>1, <2>1 DEF Registers
  <2> QED BY <2>1, <2>2 DEF MotorsInv, PowerInv, Driving, MotorsDone, Written, Registers
<1>8. CASE WriteOcr2b
  <2>1. /\ main.pc = "OCR2B"
        /\ motors' = [motors EXCEPT !["OCR2B"] = main.command]
        /\ UNCHANGED <<state, boom_back, overtaken>>
    BY <1>8 DEF WriteOcr2b, WriteRegister
  <2>2. main'.pc \in {"idle", "arm"} /\ main'.command = NoCommand
    BY <1>8 DEF WriteOcr2b, Idle
  <2>3. /\ motors'["OCR2B"] = main.command
        /\ motors'["PORTF"] = motors["PORTF"] /\ motors'["OCR2A"] = motors["OCR2A"]
        /\ motors' \in [Registers -> Commands]
    BY <1>1, <2>1 DEF Registers, JobShape
  <2>4. MotorsInv'
    <3>1. CASE overtaken
      BY <2>1, <3>1 DEF MotorsInv
    <3>2. CASE ~overtaken
      <4>1. /\ main.command \in CommandsOf(state)
            /\ motors["PORTF"] = main.command /\ motors["OCR2A"] = main.command
        BY <2>1, <3>2 DEF MotorsInv, Driving, Written, Registers
      <4>2. motors' = AllRegisters(main.command)
        BY <2>3, <4>1 DEF AllRegisters, Registers
      <4> QED BY <2>1, <2>2, <4>1, <4>2 DEF MotorsInv, Driving, MotorsDone, Registers
    <3> QED BY <3>1, <3>2
  <2>5. PowerInv'
    BY <2>1, <2>2, <2>3 DEF PowerInv, MotorsDone, Written, Registers, NoCommand
  <2> QED BY <2>4, <2>5
<1> QED BY <1>2, <1>3, <1>4, <1>5, <1>6, <1>7, <1>8 DEF MainStep

\* MotorsInv and PowerInv are invariants of the state machine and its interrupt.
THEOREM MotorsInvariant == Spec => [](MotorsInv /\ PowerInv)
<1>1. Init => MotorsInv /\ PowerInv
  <2> SUFFICES ASSUME Init PROVE MotorsInv /\ PowerInv
    OBVIOUS
  <2>1. main.pc = "idle" /\ ~boom_back /\ state = "ST_INIT" /\ motors = AllRegisters("off")
    BY DEF Init, Idle
  <2>2. "off" \in CommandsOf(state)
    BY <2>1 DEF CommandsOf
  <2> QED BY <2>1, <2>2 DEF MotorsInv, PowerInv, Driving, Registers
<1>2. SearchInv /\ MotorsInv /\ PowerInv /\ [Next]_vars => MotorsInv' /\ PowerInv'
  <2>1. ASSUME UNCHANGED vars, MotorsInv, PowerInv
        PROVE  MotorsInv' /\ PowerInv'
    BY <2>1 DEF vars, MotorsInv, PowerInv, Driving, MotorsDone, Written
  <2> QED BY <2>1, TickMotors, CallMotors, StepMotors DEF Next
<1> QED BY <1>1, <1>2, SearchInvariant, PTL DEF Spec

\* Between two calls the motor registers hold one command of the current state,
\* unless an interrupt overtook a call or the host drove the motors
\* (can_search.c:34-119, example.c:316-330).
THEOREM MotorsFollow == Spec => []MotorsFollowState
<1>1. MotorsInv => MotorsFollowState
  BY DEF MotorsInv, MotorsFollowState, MotorsDone
<1> QED BY <1>1, MotorsInvariant, PTL

\* A robot with its back boom over the edge follows a can at half power only,
\* whatever states and interrupts came between latch and test (can_search.c:145-148,
\* 464-465).
THEOREM HalfPower == Spec => []HalfPowerOverEdge
<1>1. PowerInv => HalfPowerOverEdge
  BY DEF PowerInv, HalfPowerOverEdge, MotorsDone
<1> QED BY <1>1, MotorsInvariant, PTL

=============================================================================
