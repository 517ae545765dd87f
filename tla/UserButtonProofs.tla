-------------------------- MODULE UserButtonProofs --------------------------
(***************************************************************************)
(* Proofs about the user button, for every number of presses and of        *)
(* programs and whichever of them are endless.                             *)
(***************************************************************************)
EXTENDS UserButton, TLAPS, FiniteSetTheorems, SequenceTheorems

-----------------------------------------------------------------------------
(***************************************************************************)
(* The list of processes.                                                  *)
(***************************************************************************)

In(s, x) == \E i \in 1..Len(s) : s[i] = x
Distinct(s) == \A i, j \in 1..Len(s) : s[i] = s[j] => i = j

\* Taking one element out of a sequence of distinct ones leaves the others.
LEMMA RemoveAtFacts ==
    ASSUME NEW S, NEW s \in Seq(S), NEW i \in 1..Len(s), Distinct(s)
    PROVE  /\ RemoveAt(s, i) \in Seq(S)
           /\ Distinct(RemoveAt(s, i))
           /\ \A x : In(RemoveAt(s, i), x) <=> In(s, x) /\ x # s[i]
<1>1. PICK r : r = RemoveAt(s, i)
  OBVIOUS
<1>2. PICK a : a = SubSeq(s, 1, i - 1)
  OBVIOUS
<1>3. PICK b : b = SubSeq(s, i + 1, Len(s))
  OBVIOUS
<1>4. /\ r \in Seq(S) /\ Len(r) = Len(s) - 1
      /\ \A k \in 1..(i - 1) : r[k] = s[k]
      /\ \A k \in i..(Len(s) - 1) : r[k] = s[k + 1]
  <2>1. a \in Seq(S) /\ Len(a) = i - 1 /\ \A k \in 1..(i - 1) : a[k] = s[k]
    BY <1>2
  <2>2. b \in Seq(S) /\ Len(b) = Len(s) - i /\ \A k \in 1..(Len(s) - i) : b[k] = s[k + i]
    BY <1>3
  <2>3. r = a \o b
    BY <1>1, <1>2, <1>3 DEF RemoveAt
  <2>4. /\ r \in Seq(S) /\ Len(r) = Len(a) + Len(b)
        /\ \A k \in 1..Len(a) : r[k] = a[k]
        /\ \A k \in 1..Len(b) : r[Len(a) + k] = b[k]
    <3>1. a \in Seq(S) /\ b \in Seq(S) /\ Len(a) \in Nat /\ Len(b) \in Nat
      BY <2>1, <2>2
    <3>2. /\ r \in Seq(S) /\ Len(r) = Len(a) + Len(b)
          /\ \A k \in 1..Len(a) + Len(b) :
                r[k] = IF k <= Len(a) THEN a[k] ELSE b[k - Len(a)]
      BY ONLY <2>3, <3>1, ConcatProperties
    <3>3. ASSUME NEW k \in 1..Len(a) PROVE r[k] = a[k]
      BY ONLY <3>1, <3>2
    <3>4. ASSUME NEW k \in 1..Len(b) PROVE r[Len(a) + k] = b[k]
      <4>1. /\ Len(a) + k \in 1..Len(a) + Len(b) /\ ~(Len(a) + k <= Len(a))
            /\ (Len(a) + k) - Len(a) = k
        BY ONLY <3>1
      <4> QED BY ONLY <3>2, <4>1
    <3> QED BY <3>2, <3>3, <3>4
  <2>5. Len(r) = Len(s) - 1 /\ \A k \in 1..(i - 1) : r[k] = s[k]
    BY <2>1, <2>2, <2>4
  <2>6. ASSUME NEW k \in i..(Len(s) - 1) PROVE r[k] = s[k + 1]
    <3>1. PICK m \in 1..(Len(s) - i) : m = k - (i - 1)
      OBVIOUS
    <3>2. r[Len(a) + m] = b[m] /\ b[m] = s[m + i]
      BY <2>2, <2>4
    <3>3. Len(a) + m = k /\ m + i = k + 1
      BY <2>1, <3>1
    <3> QED BY <3>2, <3>3
  <2> QED BY <2>4, <2>5, <2>6
<1>5. Len(s) \in Nat
  OBVIOUS
<1>6. Distinct(r)
  BY <1>4, <1>5 DEF Distinct
<1>7. ASSUME NEW x, In(r, x) PROVE In(s, x) /\ x # s[i]
  <2>1. PICK k \in 1..(Len(s) - 1) : r[k] = x
    BY <1>4, <1>7 DEF In
  <2>2. CASE k < i
    BY <1>4, <1>5, <2>1, <2>2 DEF In, Distinct
  <2>3. CASE ~(k < i)
    <3>1. x = s[k + 1] /\ k + 1 \in 1..Len(s) /\ k + 1 # i
      BY <1>4, <1>5, <2>1, <2>3
    <3> QED BY <3>1 DEF In, Distinct
  <2> QED BY <2>2, <2>3
<1>8. ASSUME NEW x, In(s, x), x # s[i] PROVE In(r, x)
  <2>1. PICK k \in 1..Len(s) : s[k] = x
    BY <1>8 DEF In
  <2>2. CASE k < i
    <3>1. k \in 1..Len(r) /\ r[k] = x
      BY <1>4, <1>5, <2>1, <2>2
    <3> QED BY <3>1 DEF In
  <2>3. CASE ~(k < i)
    <3>1. k - 1 \in 1..Len(r) /\ r[k - 1] = x
      BY <1>4, <1>5, <1>8, <2>1, <2>3
    <3> QED BY <3>1 DEF In
  <2> QED BY <2>2, <2>3
<1> QED BY <1>1, <1>4, <1>6, <1>7, <1>8

Owners == Threads \cup {Beep}

\* A controller that ends leaves the list, and nothing else changes.
LEMMA WithoutFacts ==
    ASSUME controllers \in Seq(Owners), Distinct(controllers), NEW o
    PROVE  /\ Without(o) \in Seq(Owners)
           /\ Distinct(Without(o))
           /\ \A x : In(Without(o), x) <=> Runs(x) /\ x # o
<1>1. CASE Runs(o)
  <2>1. PICK i : i = CHOOSE k \in 1..Len(controllers) : controllers[k] = o
    OBVIOUS
  <2>2. i \in 1..Len(controllers) /\ controllers[i] = o
    BY <1>1, <2>1 DEF Runs
  <2>3. Without(o) = RemoveAt(controllers, i)
    BY <1>1, <2>1 DEF Without
  <2>4. /\ Without(o) \in Seq(Owners)
        /\ Distinct(Without(o))
        /\ \A x : In(Without(o), x) <=> In(controllers, x) /\ x # controllers[i]
    BY <2>2, <2>3, RemoveAtFacts
  <2> QED BY <2>2, <2>4 DEF Runs, In
<1>2. CASE ~Runs(o)
  BY <1>2 DEF Without, Runs, In
<1> QED BY <1>1, <1>2

LEMMA EndedFacts ==
    ASSUME controllers \in Seq(Owners), Distinct(controllers), NEW o,
           controllers' = Without(o)
    PROVE  /\ controllers' \in Seq(Owners)
           /\ Distinct(controllers')
           /\ \A x : Runs(x)' <=> Runs(x) /\ x # o
<1>1. \A x : Runs(x)' <=> In(Without(o), x)
  BY DEF Runs, In
<1> QED BY <1>1, WithoutFacts

LEMMA AppendFacts ==
    ASSUME controllers \in Seq(Owners), Distinct(controllers), NEW o \in Owners, ~Runs(o)
    PROVE  /\ Append(controllers, o) \in Seq(Owners)
           /\ Distinct(Append(controllers, o))
           /\ \A x : In(Append(controllers, o), x) <=> Runs(x) \/ x = o
<1>1. PICK s : s = Append(controllers, o)
  OBVIOUS
<1>2. /\ s \in Seq(Owners) /\ Len(s) = Len(controllers) + 1 /\ s[Len(s)] = o
      /\ Len(controllers) \in Nat
      /\ \A i \in 1..Len(controllers) : s[i] = controllers[i]
  BY <1>1
<1>3. \A i \in 1..Len(s) : i = Len(s) \/ (i \in 1..Len(controllers) /\ s[i] = controllers[i])
  BY <1>2
<1>4. Distinct(s)
  BY <1>2, <1>3 DEF Distinct, Runs
<1>5. \A x : In(s, x) <=> Runs(x) \/ x = o
  <2>1. Len(s) \in 1..Len(s) /\ \A i \in 1..Len(controllers) : i \in 1..Len(s)
    BY <1>2
  <2> QED BY <1>2, <1>3, <2>1 DEF In, Runs
<1> QED BY <1>1, <1>2, <1>4, <1>5

-----------------------------------------------------------------------------
(***************************************************************************)
(* What a step must establish.                                             *)
(***************************************************************************)

\* TypeOK and Placed, but for the history variables.
Typed ==
    /\ counter \in Nat
    /\ reader \in ReaderPcs
    /\ loaded \in Nat
    /\ listed \in Seq(Owners)
    /\ threads \in [Threads -> ThreadPcs]
    /\ program \in [Threads -> 1..Programs]
    /\ controllers \in Seq(Owners)
    /\ presses \in 0..MaxPresses

Placing ==
    /\ Distinct(controllers)
    /\ Runs(Beep) => reader = "beeping"
    /\ \A t \in Threads : Runs(t) => threads[t] = "running"
    /\ \A t \in Threads : t > presses \/ (t = presses /\ Handling) => threads[t] = "none"
    /\ reader # "read" => presses > 0
    /\ reader = "kill" => listed # <<>>
    /\ Quiet => counter = 0

LEMMA ButtonParts ==
    ASSUME ButtonInv
    PROVE  /\ Typed /\ Placing
           /\ burst \in Nat
           /\ ~mixed => Counted
           /\ ~slipped => Supervised
  BY DEF ButtonInv, TypeOK, Placed, Typed, Placing, Owners, Distinct

\* The press a step counts in burst, when it does not end in quiet.
LEMMA BurstCounts ==
    ASSUME History, ~Quiet'
    PROVE  burst' = IF reader = "read" /\ Handling' THEN burst + 1 ELSE burst
  BY DEF History

\* The history variables take care of themselves: Counted and Supervised are due
\* after a step only if they held before it, if it does not end in quiet, and if
\* the reader is not where the step would have marked the burst.
Unmixed == ~mixed /\ ~Quiet' /\ (Handling' => \A t \in Threads : ~InProgress(t)')
Unslipped ==
    ~slipped /\ ~Quiet' /\ (Handling' /\ reader' # "ps" => \A t \in Threads : ~AboutToLaunch(t)')

LEMMA StepGoal ==
    ASSUME ButtonInv, History, Typed', Placing',
           Unmixed => Counted', Unslipped => Supervised'
    PROVE  ButtonInv'
<1>1. burst' \in Nat /\ mixed' \in BOOLEAN /\ slipped' \in BOOLEAN
  <2>1. burst' \in Nat
    BY DEF History, ButtonInv, TypeOK
  <2>2. mixed' \in BOOLEAN /\ slipped' \in BOOLEAN
    BY DEF History
  <2> QED BY <2>1, <2>2
<1>2. TypeOK'
  BY <1>1 DEF Typed, TypeOK, Owners
<1>3. Placed'
  <2>1. Quiet' => burst' = 0
    BY DEF History
  <2> QED BY <2>1 DEF Placing, Placed, Distinct
<1>4. ASSUME ~mixed' PROVE Counted'
  <2>1. CASE Quiet'
    <3>1. /\ ~Handling' /\ counter' = 0 /\ burst' = 0
          /\ \A t \in Threads : threads'[t] \in {"none", "cancelled", "done"}
      BY <2>1, <1>3 DEF Placed, Quiet
    <3> QED BY <3>1 DEF Counted, InProgress, Handling
  <2>2. CASE ~Quiet'
    <3>1. Unmixed
      BY <1>4, <2>2 DEF History, Unmixed
    <3> QED BY <3>1
  <2> QED BY <2>1, <2>2
<1>5. ASSUME ~slipped' PROVE Supervised'
  <2>1. CASE Quiet'
    <3>1. /\ ~Handling'
          /\ \A t \in Threads : threads'[t] \in {"none", "cancelled", "done"} /\ ~Runs(t)'
      BY <2>1 DEF Placing, Quiet
    <3> QED BY <3>1 DEF Supervised, AboutToLaunch, Handling
  <2>2. CASE ~Quiet'
    <3>1. Unslipped
      BY <1>5, <2>2 DEF History, Unslipped
    <3> QED BY <3>1
  <2> QED BY <2>1, <2>2
<1> QED BY <1>2, <1>3, <1>4, <1>5 DEF ButtonInv

LEMMA ButtonInit == Init => ButtonInv
<1> SUFFICES ASSUME Init PROVE ButtonInv
  OBVIOUS
<1>1. TypeOK
  <2>1. 1 \in 1..Programs /\ 0 \in 0..MaxPresses /\ <<>> \in Seq(Threads \cup {Beep})
    BY PressesAssumption, ProgramsAssumption
  <2> QED BY <2>1 DEF Init, TypeOK, ReaderPcs, ThreadPcs
<1>2. Placed
  BY DEF Init, Placed, Runs, Handling
<1>3. Counted
  BY DEF Init, Counted, InProgress, Handling
<1>4. Supervised
  BY DEF Init, Supervised, AboutToLaunch, Runs
<1> QED BY <1>1, <1>2, <1>3, <1>4 DEF ButtonInv

-----------------------------------------------------------------------------
(***************************************************************************)
(* The reader.                                                             *)
(***************************************************************************)

LEMMA PressKeeps ==
    ASSUME ButtonInv, Press, History
    PROVE  ButtonInv'
<1> USE DEF Handling
<1>1. Typed /\ Placing /\ (~mixed => Counted) /\ (~slipped => Supervised)
  BY ButtonParts
<1>2. /\ reader = "read" /\ reader' = "ps" /\ presses' = presses + 1 /\ presses' \in 0..MaxPresses
      /\ UNCHANGED <<counter, loaded, listed, threads, program, controllers>>
  BY <1>1, PressesAssumption DEF Press, Typed
<1>3. Typed'
  BY <1>1, <1>2 DEF Typed, ReaderPcs
<1>4. Placing'
  BY <1>1, <1>2, PressesAssumption DEF Placing, Typed, Quiet, Threads, Runs
<1>5. ASSUME Unmixed PROVE Counted'
  <2>1. burst' = burst + 1 /\ burst \in Nat
    BY <1>2, <1>5, BurstCounts, ButtonParts DEF Unmixed
  <2> QED BY <1>1, <1>2, <1>5, <2>1, PressesAssumption
          DEF Unmixed, Counted, Typed, InProgress, Threads, Newest
<1>6. ASSUME Unslipped PROVE Supervised'
  BY <1>1, <1>2, <1>6, PressesAssumption
  DEF Unslipped, Supervised, Typed, AboutToLaunch, Threads, Newest, Runs
<1> QED BY <1>3, <1>4, <1>5, <1>6, StepGoal

LEMMA ListKeeps ==
    ASSUME ButtonInv, ListControllers, History
    PROVE  ButtonInv'
<1> USE DEF Handling
<1>1. Typed /\ Placing /\ (~mixed => Counted) /\ (~slipped => Supervised)
  BY ButtonParts
<1>2. /\ reader = "ps" /\ listed' = controllers
      /\ reader' = IF controllers = <<>> THEN "load" ELSE "kill"
      /\ UNCHANGED <<counter, loaded, threads, program, controllers, presses>>
  BY DEF ListControllers
<1>3. Typed'
  BY <1>1, <1>2 DEF Typed, ReaderPcs
<1>4. Placing'
  BY <1>1, <1>2 DEF Placing, Quiet, Runs
<1>5. ASSUME Unmixed PROVE Counted'
  <2>1. burst' = burst
    BY <1>2, <1>5, BurstCounts DEF Unmixed
  <2> QED BY <1>1, <1>2, <1>5, <2>1 DEF Unmixed, Counted, InProgress, Newest
<1>6. ASSUME Unslipped PROVE Supervised'
  <2>1. \A t \in Threads : ~AboutToLaunch(t)'
    BY <1>2, <1>6 DEF Unslipped
  <2>2. ASSUME NEW t \in Threads, Runs(t)
        PROVE  reader' = "kill" /\ t = Head(controllers)
    <3>1. PICK i \in 1..Len(controllers) : controllers[i] = t
      BY <2>2 DEF Runs
    <3>2. controllers # <<>>
      BY <3>1
    <3>3. Head(controllers) \in Owners /\ Runs(Head(controllers))
      BY <1>1, <3>2 DEF Typed, Runs
    <3>4. ~Runs(Beep)
      BY <1>1, <1>2 DEF Placing
    <3>5. Head(controllers) \in Threads
      BY <3>3, <3>4 DEF Owners
    <3>6. \A u \in Threads : Runs(u) => u = Newest
      BY <1>1, <1>6 DEF Unslipped, Supervised
    <3>7. t = Head(controllers)
      BY <2>2, <3>3, <3>5, <3>6
    <3> QED BY <1>2, <3>2, <3>7
  <2>3. \A t \in Threads : Runs(t)' <=> Runs(t)
    BY <1>2 DEF Runs
  <2> QED BY <1>1, <1>2, <1>6, <2>1, <2>2, <2>3 DEF Unslipped, Supervised, AboutToLaunch, Newest
<1> QED BY <1>3, <1>4, <1>5, <1>6, StepGoal

LEMMA KillKeeps ==
    ASSUME ButtonInv, KillListed, History
    PROVE  ButtonInv'
<1> USE DEF Handling
<1>1. Typed /\ Placing /\ (~mixed => Counted) /\ (~slipped => Supervised)
  BY ButtonParts
<1>2. /\ reader = "kill" /\ reader' = "load" /\ controllers' = Without(Head(listed))
      /\ UNCHANGED <<counter, loaded, listed, threads, program, presses>>
  BY DEF KillListed
<1>3. /\ controllers' \in Seq(Owners) /\ Distinct(controllers')
      /\ \A x : Runs(x)' <=> Runs(x) /\ x # Head(listed)
  BY <1>1, <1>2, EndedFacts DEF Typed, Placing
<1>4. Typed'
  BY <1>1, <1>2, <1>3 DEF Typed, ReaderPcs
<1>5. Placing'
  BY <1>1, <1>2, <1>3 DEF Placing, Quiet
<1>6. ASSUME Unmixed PROVE Counted'
  <2>1. burst' = burst
    BY <1>2, <1>6, BurstCounts DEF Unmixed
  <2> QED BY <1>1, <1>2, <1>6, <2>1 DEF Unmixed, Counted, InProgress, Newest
<1>7. ASSUME Unslipped PROVE Supervised'
  BY <1>1, <1>2, <1>3, <1>7 DEF Unslipped, Supervised, AboutToLaunch, Newest
<1> QED BY <1>4, <1>5, <1>6, <1>7, StepGoal

LEMMA CountKeeps ==
    ASSUME ButtonInv, LoadCounter \/ StoreCounter, History
    PROVE  ButtonInv'
<1> USE DEF Handling
<1>1. Typed /\ Placing /\ (~mixed => Counted) /\ (~slipped => Supervised)
  BY ButtonParts
<1>2. /\ \/ reader = "load" /\ reader' = "store" /\ loaded' = counter /\ counter' = counter
         \/ reader = "store" /\ reader' = "timer" /\ counter' = loaded + 1 /\ loaded' = loaded
      /\ UNCHANGED <<listed, threads, program, controllers, presses>>
  BY DEF LoadCounter, StoreCounter
<1>3. Typed'
  BY <1>1, <1>2 DEF Typed, ReaderPcs
<1>4. Placing'
  BY <1>1, <1>2 DEF Placing, Quiet, Runs
<1>5. ASSUME Unmixed PROVE Counted'
  <2>1. burst' = burst /\ burst \in Nat
    BY <1>2, <1>5, BurstCounts, ButtonParts DEF Unmixed
  <2> QED BY <1>1, <1>2, <1>5, <2>1 DEF Unmixed, Counted, InProgress, Newest
<1>6. ASSUME Unslipped PROVE Supervised'
  BY <1>1, <1>2, <1>6 DEF Unslipped, Supervised, AboutToLaunch, Newest, Runs
<1> QED BY <1>3, <1>4, <1>5, <1>6, StepGoal

LEMMA TimerKeeps ==
    ASSUME ButtonInv, RestartTimer, History
    PROVE  ButtonInv'
<1> USE DEF Handling
<1>1. Typed /\ Placing /\ (~mixed => Counted) /\ (~slipped => Supervised)
  BY ButtonParts
<1>2. /\ reader = "timer" /\ reader' = "beep"
      /\ threads' = [t \in Threads |->
                        CASE t = presses -> "waiting"
                          [] t = presses - 1 /\ threads[t] = "waiting" -> "cancelled"
                          [] OTHER -> threads[t]]
      /\ UNCHANGED <<counter, loaded, listed, program, controllers, presses>>
  BY DEF RestartTimer
<1>3. presses \in Threads /\ presses \in Nat
  BY <1>1, <1>2, PressesAssumption DEF Typed, Placing, Threads
<1>4. /\ threads' \in [Threads -> ThreadPcs]
      /\ threads'[presses] = "waiting" /\ threads[presses] = "none"
      /\ \A t \in Threads : t # presses =>
            threads'[t] = threads[t]
            \/ (t = presses - 1 /\ threads[t] = "waiting" /\ threads'[t] = "cancelled")
      /\ threads[presses - 1] = "waiting" => \A t \in Threads : t = presses - 1 => threads'[t] = "cancelled"
  BY <1>1, <1>2, <1>3 DEF Typed, Placing, ThreadPcs
<1>5. ~Quiet'
  BY <1>3, <1>4 DEF Quiet
<1>6. Typed'
  BY <1>1, <1>2, <1>4 DEF Typed, ReaderPcs
<1>7. Placing'
  <2>1. \A t \in Threads : t > presses => t # presses
    BY <1>3 DEF Threads
  <2> QED BY <1>1, <1>2, <1>4, <1>5, <2>1 DEF Placing, Runs
<1>8. ASSUME Unmixed PROVE Counted'
  <2>1. burst' = burst
    BY <1>2, <1>8, BurstCounts DEF Unmixed
  <2> QED BY <1>1, <1>2, <1>4, <1>8, <2>1 DEF Unmixed, Counted, InProgress, Newest
<1>9. ASSUME Unslipped PROVE Supervised'
  BY <1>1, <1>2, <1>4, <1>9 DEF Unslipped, Supervised, AboutToLaunch, Newest, Runs
<1> QED BY <1>6, <1>7, <1>8, <1>9, StepGoal

LEMMA BeepKeeps ==
    ASSUME ButtonInv, StartBeep \/ BeepEnded, History
    PROVE  ButtonInv'
<1> USE DEF Handling
<1>1. Typed /\ Placing /\ (~mixed => Counted) /\ (~slipped => Supervised)
  BY ButtonParts
<1>2. /\ reader \in {"beep", "beeping"} /\ reader' \in {"beeping", "read"}
      /\ UNCHANGED <<counter, loaded, listed, threads, program, presses>>
  BY DEF StartBeep, BeepEnded
<1>3. /\ controllers' \in Seq(Owners) /\ Distinct(controllers')
      /\ \A x \in Threads : Runs(x)' <=> Runs(x)
      /\ Runs(Beep)' => reader' = "beeping"
  <2>1. CASE StartBeep
    <3>1. ~Runs(Beep) /\ Beep \in Owners /\ Beep \notin Threads
      BY <1>1, <2>1 DEF StartBeep, Placing, Owners, Beep, Threads
    <3>2. /\ controllers' \in Seq(Owners) /\ Distinct(controllers')
          /\ \A x : In(controllers', x) <=> Runs(x) \/ x = Beep
      BY <1>1, <2>1, <3>1, AppendFacts DEF StartBeep, Typed, Placing
    <3>3. reader' = "beeping"
      BY <2>1 DEF StartBeep
    <3> QED BY <3>1, <3>2, <3>3 DEF Runs, In
  <2>2. CASE BeepEnded
    BY <1>1, <2>2 DEF BeepEnded, Typed, Placing, Runs
  <2> QED BY <2>1, <2>2
<1>4. Typed'
  BY <1>1, <1>2, <1>3 DEF Typed, ReaderPcs
<1>5. Placing'
  BY <1>1, <1>2, <1>3 DEF Placing, Quiet
<1>6. ASSUME Unmixed PROVE Counted'
  <2>1. burst' = burst
    BY <1>2, <1>6, BurstCounts DEF Unmixed
  <2> QED BY <1>1, <1>2, <1>6, <2>1 DEF Unmixed, Counted, InProgress, Newest
<1>7. ASSUME Unslipped PROVE Supervised'
  BY <1>1, <1>2, <1>3, <1>7 DEF Unslipped, Supervised, AboutToLaunch, Newest
<1> QED BY <1>4, <1>5, <1>6, <1>7, StepGoal

-----------------------------------------------------------------------------
(***************************************************************************)
(* The threads of the timers, and the end of a controller.                 *)
(***************************************************************************)

LEMMA FireKeeps ==
    ASSUME ButtonInv, NEW t \in Threads, Fire(t), History
    PROVE  ButtonInv'
<1> USE DEF Handling
<1>1. Typed /\ Placing /\ (~mixed => Counted) /\ (~slipped => Supervised)
  BY ButtonParts
<1>2. /\ threads[t] = "waiting"
      /\ threads' = [threads EXCEPT ![t] = "test"] /\ program' = [program EXCEPT ![t] = 1]
      /\ UNCHANGED <<counter, reader, loaded, listed, controllers, presses>>
  BY DEF Fire
<1>3. /\ threads' \in [Threads -> ThreadPcs] /\ threads'[t] = "test"
      /\ \A x \in Threads : x # t => threads'[x] = threads[x] /\ program'[x] = program[x]
      /\ program' \in [Threads -> 1..Programs]
  <2>1. 1 \in 1..Programs /\ "test" \in ThreadPcs
    BY ProgramsAssumption DEF ThreadPcs
  <2> QED BY <1>1, <1>2, <2>1 DEF Typed
<1>4. Typed' /\ ~Quiet'
  BY <1>1, <1>2, <1>3 DEF Typed, Quiet
<1>5. Placing'
  BY <1>1, <1>2, <1>3, <1>4 DEF Placing, Runs
<1>6. ASSUME Unmixed PROVE Counted'
  <2>1. burst' = burst
    BY <1>2, <1>6, BurstCounts DEF Unmixed
  <2> QED BY <1>1, <1>2, <1>3, <1>6, <2>1 DEF Unmixed, Counted, InProgress, Newest
<1>7. ASSUME Unslipped PROVE Supervised'
  BY <1>1, <1>2, <1>3, <1>7 DEF Unslipped, Supervised, AboutToLaunch, Newest, Runs
<1> QED BY <1>4, <1>5, <1>6, <1>7, StepGoal

LEMMA TestKeeps ==
    ASSUME ButtonInv, NEW t \in Threads, Test(t), History
    PROVE  ButtonInv'
<1> USE DEF Handling
<1>1. Typed /\ Placing /\ (~mixed => Counted) /\ (~slipped => Supervised)
  BY ButtonParts
<1>2. /\ threads[t] = "test"
      /\ UNCHANGED <<counter, reader, loaded, listed, controllers, presses>>
  BY DEF Test
<1>3. /\ threads' \in [Threads -> ThreadPcs]
      /\ program' \in [Threads -> 1..Programs]
      /\ \A x \in Threads : x # t => threads'[x] = threads[x] /\ program'[x] = program[x]
      /\ \/ threads'[t] = "launch" /\ counter = program[t] /\ program'[t] = program[t]
         \/ threads'[t] \in {"test", "reset"}
  <2>1. program[t] \in 1..Programs /\ Programs \in Nat
    BY <1>1, ProgramsAssumption DEF Typed
  <2>2. CASE counter = program[t]
    <3>1. threads' = [threads EXCEPT ![t] = "launch"]
      BY <2>2 DEF Test
    <3>2. threads'[t] = "launch" /\ threads' \in [Threads -> ThreadPcs]
      BY <1>1, <3>1 DEF Typed, ThreadPcs
    <3>3. program' = program
      BY <1>1, <3>2 DEF Test, Typed
    <3> QED BY <1>1, <2>2, <3>1, <3>2, <3>3 DEF Typed
  <2>3. CASE counter # program[t] /\ program[t] < Programs
    <3>1. threads' = [threads EXCEPT ![t] = "test"]
      BY <2>3 DEF Test
    <3>2. threads'[t] = "test" /\ threads' \in [Threads -> ThreadPcs]
      BY <1>1, <3>1 DEF Typed, ThreadPcs
    <3>3. program' = [program EXCEPT ![t] = @ + 1]
      BY <1>1, <3>2 DEF Test, Typed
    <3>4. program[t] + 1 \in 1..Programs
      BY <2>1, <2>3
    <3> QED BY <1>1, <3>1, <3>2, <3>3, <3>4 DEF Typed
  <2>4. CASE counter # program[t] /\ ~(program[t] < Programs)
    <3>1. threads' = [threads EXCEPT ![t] = "reset"]
      BY <2>4 DEF Test
    <3>2. threads'[t] = "reset" /\ threads' \in [Threads -> ThreadPcs]
      BY <1>1, <3>1 DEF Typed, ThreadPcs
    <3>3. program' = program
      BY <1>1, <3>2 DEF Test, Typed
    <3> QED BY <1>1, <3>1, <3>2, <3>3 DEF Typed
  <2> QED BY <2>2, <2>3, <2>4
<1>4. Typed' /\ ~Quiet'
  BY <1>1, <1>2, <1>3 DEF Typed, Quiet
<1>5. Placing'
  BY <1>1, <1>2, <1>3, <1>4 DEF Placing, Runs
<1>6. ASSUME Unmixed PROVE Counted'
  <2>1. burst' = burst /\ ~Handling
    BY <1>1, <1>2, <1>6, BurstCounts DEF Unmixed, Counted, InProgress
  <2> QED BY <1>1, <1>2, <1>3, <1>6, <2>1 DEF Unmixed, Counted, InProgress, Newest
<1>7. ASSUME Unslipped PROVE Supervised'
  BY <1>1, <1>2, <1>3, <1>7 DEF Unslipped, Supervised, AboutToLaunch, Newest, Runs
<1> QED BY <1>4, <1>5, <1>6, <1>7, StepGoal

LEMMA LaunchKeeps ==
    ASSUME ButtonInv, NEW t \in Threads, Launch(t), History
    PROVE  ButtonInv'
<1> USE DEF Handling
<1>1. Typed /\ Placing /\ (~mixed => Counted) /\ (~slipped => Supervised)
  BY ButtonParts
<1>2. /\ threads[t] = "launch" /\ threads' = [threads EXCEPT ![t] = "running"]
      /\ controllers' = Append(controllers, t)
      /\ UNCHANGED <<counter, reader, loaded, listed, program, presses>>
  BY DEF Launch
<1>3. /\ threads' \in [Threads -> ThreadPcs] /\ threads'[t] = "running"
      /\ \A x \in Threads : x # t => threads'[x] = threads[x]
  BY <1>1, <1>2 DEF Typed, ThreadPcs
<1>4. /\ controllers' \in Seq(Owners) /\ Distinct(controllers')
      /\ \A x : Runs(x)' <=> Runs(x) \/ x = t
  <2>1. t \in Owners /\ ~Runs(t)
    BY <1>1, <1>2 DEF Owners, Placing
  <2>2. /\ controllers' \in Seq(Owners) /\ Distinct(controllers')
        /\ \A x : In(controllers', x) <=> Runs(x) \/ x = t
    BY <1>1, <1>2, <2>1, AppendFacts DEF Typed, Placing
  <2> QED BY <2>2 DEF Runs, In
<1>5. Typed' /\ ~Quiet'
  BY <1>1, <1>2, <1>3, <1>4 DEF Typed, Quiet
<1>6. Placing'
  <2>1. t # Beep
    BY DEF Beep, Threads
  <2> QED BY <1>1, <1>2, <1>3, <1>4, <1>5, <2>1 DEF Placing
<1>7. ASSUME Unmixed PROVE Counted'
  <2>1. burst' = burst
    BY <1>2, <1>7, BurstCounts DEF Unmixed
  <2> QED BY <1>1, <1>2, <1>3, <1>7, <2>1 DEF Unmixed, Counted, InProgress, Newest
<1>8. ASSUME Unslipped PROVE Supervised'
  BY <1>1, <1>2, <1>3, <1>4, <1>8 DEF Unslipped, Supervised, AboutToLaunch, Newest
<1> QED BY <1>5, <1>6, <1>7, <1>8, StepGoal

LEMMA ReturnKeeps ==
    ASSUME ButtonInv, NEW t \in Threads, Return(t) \/ Reset(t), History
    PROVE  ButtonInv'
<1> USE DEF Handling
<1>1. Typed /\ Placing /\ (~mixed => Counted) /\ (~slipped => Supervised)
  BY ButtonParts
<1>2. /\ \/ /\ threads[t] = "running" /\ ~Runs(t)
            /\ threads' = [threads EXCEPT ![t] = "reset"] /\ counter' = counter
         \/ /\ threads[t] = "reset"
            /\ threads' = [threads EXCEPT ![t] = "done"] /\ counter' = 0
      /\ UNCHANGED <<reader, loaded, listed, program, controllers, presses>>
  BY DEF Return, Reset
<1>3. /\ threads' \in [Threads -> ThreadPcs]
      /\ \A x \in Threads : x # t => threads'[x] = threads[x]
      /\ \/ threads'[t] = "reset" /\ counter' = counter /\ ~Runs(t)
         \/ threads'[t] = "done" /\ counter' = 0 /\ ~Runs(t)
  BY <1>1, <1>2 DEF Typed, Placing, ThreadPcs
<1>4. Typed' /\ Placing'
  BY <1>1, <1>2, <1>3 DEF Typed, Placing, Quiet, Runs
<1>5. ASSUME Unmixed PROVE Counted'
  <2>1. burst' = burst /\ ~Handling /\ Counted
    BY <1>1, <1>2, <1>5, BurstCounts DEF Unmixed, Counted, InProgress
  <2>2. threads'[t] # "done"
    <3>1. CASE threads'[t] = "done"
      <4>1. ASSUME NEW x \in Threads PROVE threads'[x] \in {"none", "cancelled", "done"}
        <5>1. x # t => ~(threads[x] = "waiting" \/ InProgress(x))
          BY <1>2, <1>3, <2>1 DEF Counted, InProgress
        <5> QED BY <1>1, <1>3, <3>1, <5>1 DEF Typed, ThreadPcs, InProgress
      <4>2. Quiet'
        BY <1>2, <2>1, <4>1 DEF Quiet
      <4> QED BY <1>5, <4>2 DEF Unmixed
    <3> QED BY <3>1
  <2> QED BY <1>1, <1>2, <1>3, <1>5, <2>1, <2>2 DEF Unmixed, Counted, InProgress, Newest
<1>6. ASSUME Unslipped PROVE Supervised'
  BY <1>1, <1>2, <1>3, <1>6 DEF Unslipped, Supervised, AboutToLaunch, Newest, Runs
<1> QED BY <1>4, <1>5, <1>6, StepGoal

LEMMA ExitKeeps ==
    ASSUME ButtonInv, NEW o, Exit(o), History
    PROVE  ButtonInv'
<1> USE DEF Handling
<1>1. Typed /\ Placing /\ (~mixed => Counted) /\ (~slipped => Supervised)
  BY ButtonParts
<1>2. /\ controllers' = Without(o)
      /\ UNCHANGED <<counter, reader, loaded, listed, threads, program, presses>>
  BY DEF Exit
<1>3. /\ controllers' \in Seq(Owners) /\ Distinct(controllers')
      /\ \A x : Runs(x)' <=> Runs(x) /\ x # o
  BY <1>1, <1>2, EndedFacts DEF Typed, Placing
<1>4. Typed' /\ Placing'
  BY <1>1, <1>2, <1>3 DEF Typed, Placing, Quiet
<1>5. ASSUME Unmixed PROVE Counted'
  <2>1. burst' = burst
    BY <1>2, <1>5, BurstCounts DEF Unmixed
  <2> QED BY <1>1, <1>2, <1>5, <2>1 DEF Unmixed, Counted, InProgress, Newest
<1>6. ASSUME Unslipped PROVE Supervised'
  BY <1>1, <1>2, <1>3, <1>6 DEF Unslipped, Supervised, AboutToLaunch, Newest
<1> QED BY <1>4, <1>5, <1>6, StepGoal

-----------------------------------------------------------------------------
(***************************************************************************)
(* The theorems.                                                           *)
(***************************************************************************)

\* ButtonInv is an inductive invariant of the reader, the timers' threads and
\* the controllers.
THEOREM ButtonInvariant == Spec => []ButtonInv
<1>1. ButtonInv /\ [Next]_vars => ButtonInv'
  <2>1. ASSUME ButtonInv, Step, History PROVE ButtonInv'
    <3>1. CASE Press
      BY <2>1, <3>1, PressKeeps
    <3>2. CASE ReaderStep
      BY <2>1, <3>2, ListKeeps, KillKeeps, CountKeeps, TimerKeeps, BeepKeeps DEF ReaderStep
    <3>3. ASSUME NEW t \in Threads, ThreadStep(t) PROVE ButtonInv'
      BY <2>1, <3>3, FireKeeps, TestKeeps, LaunchKeeps, ReturnKeeps DEF ThreadStep
    <3>4. ASSUME NEW o, Exit(o) PROVE ButtonInv'
      BY <2>1, <3>4, ExitKeeps
    <3> QED BY <2>1, <3>1, <3>2, <3>3, <3>4 DEF Step
  <2>2. ASSUME ButtonInv, UNCHANGED vars PROVE ButtonInv'
    <3> USE <2>2 DEF vars
    <3>1. TypeOK'
      BY DEF ButtonInv, TypeOK
    <3>2. Placed'
      BY DEF ButtonInv, Placed, Runs, Quiet, Handling
    <3>3. ~mixed' => Counted'
      BY DEF ButtonInv, Counted, InProgress, Newest, Handling
    <3>4. ~slipped' => Supervised'
      BY DEF ButtonInv, Supervised, AboutToLaunch, Runs, Newest, Handling
    <3> QED BY <3>1, <3>2, <3>3, <3>4 DEF ButtonInv
  <2> QED BY <2>1, <2>2 DEF Next
<1> QED BY ButtonInit, <1>1, PTL DEF Spec

\* The script's variables keep their types: the program a thread compares the
\* count with never runs past the last one (user_button.py:10-41).
THEOREM TypeCorrect == Spec => []TypeOK
<1>1. ButtonInv => TypeOK
  BY DEF ButtonInv
<1> QED BY <1>1, ButtonInvariant, PTL

\* Whatever presses, runs and kills overlapped, the reset of the last
\* start_controller leaves a count of 0 (user_button.py:42, 68).
THEOREM QuietCountIsZero == Spec => []QuietIsZero
<1>1. ButtonInv => QuietIsZero
  BY DEF ButtonInv, Placed, QuietIsZero
<1> QED BY <1>1, ButtonInvariant, PTL

\* A burst of presses that met no start_controller in progress starts the
\* controller of its number (user_button.py:10-41, 66-73).
THEOREM BurstStartsItsProgram == Spec => []ProgramOfBurst
<1>1. ButtonInv => ProgramOfBurst
  BY DEF ButtonInv, Counted, ProgramOfBurst
<1> QED BY <1>1, ButtonInvariant, PTL

\* Unless a press slipped in between a timer's firing and its controller's start,
\* the button never leaves two controllers running (user_button.py:44-50, 70-73).
THEOREM AtMostOneController == Spec => []OneController
<1>1. ButtonInv => OneController
  <2> SUFFICES ASSUME ButtonInv, ~slipped PROVE Cardinality({t \in Threads : Runs(t)}) <= 1
    BY DEF OneController
  <2>1. {t \in Threads : Runs(t)} \subseteq {Newest}
    BY DEF ButtonInv, Supervised
  <2>2. IsFiniteSet({Newest}) /\ Cardinality({Newest}) = 1
    BY FS_Singleton
  <2>3. Cardinality({t \in Threads : Runs(t)}) <= Cardinality({Newest})
    BY <2>1, <2>2, FS_Subset
  <2> QED BY <2>2, <2>3
<1> QED BY <1>1, ButtonInvariant, PTL
=============================================================================
