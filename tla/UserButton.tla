----------------------------- MODULE UserButton -----------------------------
(***************************************************************************)
(* The user button of the robot's Beagleboard, beagleboard_scripts/        *)
(* user_button.py.  One thread reads the button.  A press kills the        *)
(* controller that runs, counts, sets a two second timer and beeps; a timer *)
(* no later press cancels starts the controller the count stands for, waits *)
(* for it to end and sets the count back to 0.  Reader, timers' threads and *)
(* controller processes run at the same time and share the count and the   *)
(* list of processes, with no lock.                                        *)
(*                                                                         *)
(* Time is left out: a timer may fire at any moment after it is started.   *)
(***************************************************************************)
EXTENDS Integers, FiniteSets, SequencesExt

CONSTANTS
    MaxPresses,   \* bound: the presses the reader sees
    Programs,     \* the counts start_controller knows are 1..Programs: 8
    Endless       \* those whose controller loops until it is killed: 4..7

ASSUME PressesAssumption == MaxPresses \in Nat
ASSUME ProgramsAssumption == Programs \in Nat \ {0} /\ Endless \subseteq 1..Programs

VARIABLES
    counter,      \* the presses counted
    reader,       \* where the reader is in its loop
    loaded,       \* the reader's copy of counter, inside counter += 1
    listed,       \* the controllers ps found, in the order of their pids
    threads,      \* where the thread of each press's timer is
    program,      \* the count that thread compares counter with
    controllers,  \* the controllers that run, in the order of their pids
    presses,      \* the presses so far, and the name of the last one's timer
    burst, mixed, slipped  \* history: see ProgramOfBurst and OneController

vars == <<counter, reader, loaded, listed, threads, program, controllers,
          presses, burst, mixed, slipped>>

Threads == 1..MaxPresses
Beep == 0  \* the name of the reader's own controller, next to the threads

ReaderPcs == {"read", "ps", "kill", "load", "store", "timer", "beep", "beeping"}
ThreadPcs == {"none", "waiting", "cancelled", "test", "launch", "running",
              "reset", "done"}

-----------------------------------------------------------------------------
(***************************************************************************)
(* History: what happens at the same time as a press.                      *)
(***************************************************************************)

\* A press is being handled, up to its timer.
Handling == reader \in {"ps", "kill", "load", "store", "timer"}

\* No timer waits, no start_controller is under way.
Quiet ==
    /\ ~Handling
    /\ \A t \in Threads : threads[t] \in {"none", "cancelled", "done"}

InProgress(t) == threads[t] \in {"test", "launch", "running", "reset"}
AboutToLaunch(t) == threads[t] \in {"test", "launch"}

\* burst counts the presses since all was quiet; mixed: one of them was handled
\* while a start_controller was in progress; slipped: while one was on its way
\* to a controller that ps had not found.
History ==
    /\ burst' = IF Quiet' THEN 0 ELSE IF reader = "read" /\ Handling' THEN burst + 1 ELSE burst
    /\ mixed' = (~Quiet' /\ (mixed \/ (Handling' /\ \E t \in Threads : InProgress(t)')))
    /\ slipped' = (~Quiet' /\ (slipped \/ (Handling' /\ reader' # "ps"
                                           /\ \E t \in Threads : AboutToLaunch(t)')))

-----------------------------------------------------------------------------
(***************************************************************************)
(* The reader, read_button.                                                *)
(***************************************************************************)

Press ==
    /\ reader = "read"
    /\ presses < MaxPresses
    /\ presses' = presses + 1
    /\ reader' = "ps"
    /\ UNCHANGED <<counter, loaded, listed, threads, program, controllers>>

\* kill_controller: list the controllers, if any.
ListControllers ==
    /\ reader = "ps"
    /\ listed' = controllers
    /\ reader' = IF controllers = <<>> THEN "load" ELSE "kill"
    /\ UNCHANGED <<counter, loaded, threads, program, controllers, presses>>

Runs(o) == \E i \in 1..Len(controllers) : controllers[i] = o

\* The controllers once o has ended, if it runs.
Without(o) ==
    IF Runs(o)
    THEN RemoveAt(controllers, CHOOSE i \in 1..Len(controllers) : controllers[i] = o)
    ELSE controllers

\* kill gets the pids one per line, and the shell takes the lines after the
\* first for commands of their own: the oldest controller is killed.  By now
\* it may have ended.
KillListed ==
    /\ reader = "kill"
    /\ controllers' = Without(Head(listed))
    /\ reader' = "load"
    /\ UNCHANGED <<counter, loaded, listed, threads, program, presses>>

\* counter += 1 reads and writes: another thread may run in between.
LoadCounter ==
    /\ reader = "load"
    /\ loaded' = counter
    /\ reader' = "store"
    /\ UNCHANGED <<counter, listed, threads, program, controllers, presses>>

StoreCounter ==
    /\ reader = "store"
    /\ counter' = loaded + 1
    /\ reader' = "timer"
    /\ UNCHANGED <<loaded, listed, threads, program, controllers, presses>>

\* A slip: the timer of the press before is left to run.
BugRestartTimer ==
    /\ reader = "timer"
    /\ threads' = [threads EXCEPT ![presses] = "waiting"]
    /\ reader' = "beep"
    /\ UNCHANGED <<counter, loaded, listed, program, controllers, presses>>

\* timer.cancel() stops the last press's timer if it still waits.
RestartTimer ==
    /\ reader = "timer"
    /\ threads' = [t \in Threads |->
                      CASE t = presses -> "waiting"
                        [] t = presses - 1 /\ threads[t] = "waiting" -> "cancelled"
                        [] OTHER -> threads[t]]
    /\ reader' = "beep"
    /\ UNCHANGED <<counter, loaded, listed, program, controllers, presses>>

StartBeep ==
    /\ reader = "beep"
    /\ controllers' = Append(controllers, Beep)
    /\ reader' = "beeping"
    /\ UNCHANGED <<counter, loaded, listed, threads, program, presses>>

BeepEnded ==
    /\ reader = "beeping"
    /\ ~Runs(Beep)
    /\ reader' = "read"
    /\ UNCHANGED <<counter, loaded, listed, threads, program, controllers, presses>>

ReaderStep ==
    \/ ListControllers
    \/ KillListed
    \/ LoadCounter
    \/ StoreCounter
    \/ RestartTimer
    \/ StartBeep
    \/ BeepEnded

-----------------------------------------------------------------------------
(***************************************************************************)
(* The thread of a timer, start_controller.                                *)
(***************************************************************************)

Fire(t) ==
    /\ threads[t] = "waiting"
    /\ threads' = [threads EXCEPT ![t] = "test"]
    /\ program' = [program EXCEPT ![t] = 1]
    /\ UNCHANGED <<counter, reader, loaded, listed, controllers, presses>>

\* A slip: >= for ==.
BugTest(t) ==
    /\ threads[t] = "test"
    /\ threads' = [threads EXCEPT ![t] =
                      IF counter >= program[t] THEN "launch"
                      ELSE IF program[t] < Programs THEN "test" ELSE "reset"]
    /\ program' = [program EXCEPT ![t] =
                      IF threads'[t] = "test" THEN @ + 1 ELSE @]
    /\ UNCHANGED <<counter, reader, loaded, listed, controllers, presses>>

\* A slip: one link too many.
BugTestPast(t) ==
    /\ threads[t] = "test"
    /\ threads' = [threads EXCEPT ![t] =
                      IF counter = program[t] THEN "launch"
                      ELSE IF program[t] <= Programs THEN "test" ELSE "reset"]
    /\ program' = [program EXCEPT ![t] =
                      IF threads'[t] = "test" THEN @ + 1 ELSE @]
    /\ UNCHANGED <<counter, reader, loaded, listed, controllers, presses>>

\* A slip: a loop over the programs that begins again when none has the count.
BugTestAgain(t) ==
    /\ threads[t] = "test"
    /\ threads' = [threads EXCEPT ![t] = IF counter = program[t] THEN "launch" ELSE "test"]
    /\ program' = [program EXCEPT ![t] =
                      IF threads'[t] = "launch" THEN @ ELSE (@ % Programs) + 1]
    /\ UNCHANGED <<counter, reader, loaded, listed, controllers, presses>>

\* One link of the if ... elif chain: each reads counter again.
Test(t) ==
    /\ threads[t] = "test"
    /\ threads' = [threads EXCEPT ![t] =
                      IF counter = program[t] THEN "launch"
                      ELSE IF program[t] < Programs THEN "test" ELSE "reset"]
    /\ program' = [program EXCEPT ![t] =
                      IF threads'[t] = "test" THEN @ + 1 ELSE @]
    /\ UNCHANGED <<counter, reader, loaded, listed, controllers, presses>>

Launch(t) ==
    /\ threads[t] = "launch"
    /\ controllers' = Append(controllers, t)
    /\ threads' = [threads EXCEPT ![t] = "running"]
    /\ UNCHANGED <<counter, reader, loaded, listed, program, presses>>

\* os.system returns when the controller has ended.
Return(t) ==
    /\ threads[t] = "running"
    /\ ~Runs(t)
    /\ threads' = [threads EXCEPT ![t] = "reset"]
    /\ UNCHANGED <<counter, reader, loaded, listed, program, controllers, presses>>

\* A slip the checks must catch: the count goes down by one.
BugReset(t) ==
    /\ threads[t] = "reset"
    /\ counter' = counter - 1
    /\ threads' = [threads EXCEPT ![t] = "done"]
    /\ UNCHANGED <<reader, loaded, listed, program, controllers, presses>>

Reset(t) ==
    /\ threads[t] = "reset"
    /\ counter' = 0
    /\ threads' = [threads EXCEPT ![t] = "done"]
    /\ UNCHANGED <<reader, loaded, listed, program, controllers, presses>>

ThreadStep(t) == Fire(t) \/ Test(t) \/ Launch(t) \/ Return(t) \/ Reset(t)

\* A controller ends, by itself or because its camera is gone.
Exit(o) ==
    /\ Runs(o)
    /\ controllers' = Without(o)
    /\ UNCHANGED <<counter, reader, loaded, listed, threads, program, presses>>

-----------------------------------------------------------------------------
Init ==
    /\ counter = 0
    /\ reader = "read"
    /\ loaded = 0
    /\ listed = <<>>
    /\ threads = [t \in Threads |-> "none"]
    /\ program = [t \in Threads |-> 1]
    /\ controllers = <<>>
    /\ presses = 0
    /\ burst = 0
    /\ mixed = FALSE
    /\ slipped = FALSE

Step ==
    \/ Press
    \/ ReaderStep
    \/ \E t \in Threads : ThreadStep(t)
    \/ \E o \in Threads \cup {Beep} : Exit(o)

Next == Step /\ History

Spec == Init /\ [][Next]_vars

\* Threads run, timers fire, and a controller that is not endless ends.
Fairness ==
    /\ WF_vars(ReaderStep /\ History)
    /\ WF_vars(Exit(Beep) /\ History)
    /\ \A t \in Threads :
         /\ WF_vars(ThreadStep(t) /\ History)
         /\ WF_vars(program[t] \notin Endless /\ Exit(t) /\ History)

FairSpec == Spec /\ Fairness
-----------------------------------------------------------------------------
(***************************************************************************)
(* Properties.                                                             *)
(***************************************************************************)

\* The types of the script's variables (user_button.py:6, 61-62).
TypeOK ==
    /\ counter \in Nat
    /\ reader \in ReaderPcs
    /\ loaded \in Nat
    /\ listed \in Seq(Threads \cup {Beep})
    /\ threads \in [Threads -> ThreadPcs]
    /\ program \in [Threads -> 1..Programs]
    /\ controllers \in Seq(Threads \cup {Beep})
    /\ presses \in 0..MaxPresses
    /\ burst \in Nat
    /\ mixed \in BOOLEAN
    /\ slipped \in BOOLEAN

\* When no timer waits and no start_controller is in progress the next press
\* counts from 1, whatever presses, runs and kills overlapped before: the reset
\* at the end of start_controller (user_button.py:42) makes up for every
\* increment (68), lost or not.
QuietIsZero == Quiet => counter = 0

\* Presses none of which met a start_controller in progress start the controller
\* of their number (user_button.py:10-41, 66-73).
ProgramOfBurst ==
    ~mixed => \A t \in Threads :
        threads[t] \in {"launch", "running"} => program[t] = burst

\* Timers start at most one controller at a time (user_button.py:44-50, 70-73),
\* unless a press slipped in between a timer's firing and its controller's start,
\* where neither cancel nor kill reaches it.
OneController ==
    ~slipped => Cardinality({t \in Threads : Runs(t)}) <= 1

\* Who runs: a controller is alive while its thread waits for os.system, or the
\* reader for its beep, and no thread has a timer before its press.
Placed ==
    /\ \A i, j \in 1..Len(controllers) : controllers[i] = controllers[j] => i = j
    /\ Runs(Beep) => reader = "beeping"
    /\ \A t \in Threads : Runs(t) => threads[t] = "running"
    /\ \A t \in Threads : t > presses \/ (t = presses /\ Handling) => threads[t] = "none"
    /\ reader # "read" => presses > 0
    /\ reader = "kill" => listed # <<>>
    /\ Quiet => counter = 0 /\ burst = 0

\* The thread of the last press whose timer was started.
Newest == IF Handling THEN presses - 1 ELSE presses

\* While no press met a start_controller in progress, only the newest thread is
\* alive and the count is that of the burst, less the press not yet added.
Counted ==
    /\ \A t \in Threads : threads[t] = "waiting" \/ InProgress(t) => t = Newest
    /\ Handling => \A t \in Threads : ~InProgress(t)
    /\ counter = IF Handling /\ reader # "timer" THEN burst - 1 ELSE burst
    /\ reader = "store" => loaded = counter
    /\ \A t \in Threads : threads[t] \in {"launch", "running"} => program[t] = burst

\* While no press slipped in before a controller's start, only the newest thread
\* can have one or still start one, and past kill_controller it has none.
Supervised ==
    /\ \A t \in Threads :
          threads[t] = "waiting" \/ AboutToLaunch(t) \/ Runs(t) => t = Newest
    /\ reader \in {"kill", "load", "store", "timer"} =>
          \A t \in Threads : ~AboutToLaunch(t)
    /\ reader = "kill" => \A t \in Threads : Runs(t) => t = Head(listed)
    /\ reader \in {"load", "store", "timer"} => \A t \in Threads : ~Runs(t)

\* The inductive invariant of the button: behind QuietIsZero, behind
\* ProgramOfBurst and behind OneController (user_button.py:44-50, 66-73).
ButtonInv ==
    /\ TypeOK
    /\ Placed
    /\ ~mixed => Counted
    /\ ~slipped => Supervised

\* Once the button is left alone the count returns to 0 for good, or an endless
\* controller runs on (user_button.py:42).
Settles ==
    \/ <>[](counter = 0)
    \/ <>[](\E t \in Threads : Runs(t) /\ program[t] \in Endless)
=============================================================================
