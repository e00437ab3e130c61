------------------------------ MODULE Watchdog -------------------------------
(***************************************************************************)
(* cluster_manager.py.  One process starts the managers and, every minute, *)
(* looks at each of them: one that has ended is started again, and one     *)
(* whose heartbeat file is too old is killed first.  Time passes in        *)
(* minutes, between two rounds.                                            *)
(***************************************************************************)
EXTENDS Naturals, Sequences, SequencesExt

CONSTANTS
  Order,     \* the managers, as cmds.items() lists them
  Prompt,    \* those that write the file the watchdog looks at in each loop
  LoopTime,  \* the longest loop of those, in minutes
  Tictoc,    \* args.tictoc
  Day,       \* (bound) the minutes of a day
  MaxFaults  \* bound: hung and crashed managers, failing calls

Keys == ToSet(Order)

ASSUME KeysAssumption == Order \in Seq(Keys) /\ Prompt \subseteq Keys
ASSUME TimeAssumption ==
  /\ {LoopTime, Tictoc, Day, MaxFaults} \subseteq Nat
  /\ LoopTime <= Tictoc /\ Tictoc + 1 < Day

VARIABLES
  child,  \* [Keys -> {"none", "up", "hung", "dead"}]
  age,    \* [Keys -> 0..(Day - 1)]  get_elapsed_seconds, which forgets whole days
  todo,   \* Seq(Keys)  the managers this round has still to look at
  faults  \* Nat (bounded)

watchVars == <<child, age, todo, faults>>

Fault == faults < MaxFaults /\ faults' = faults + 1

WatchInit ==
  /\ child = [m \in Keys |-> "none"]
  /\ age = [m \in Keys |-> 0]
  /\ todo = Order
  /\ faults = 0

Up(m) == child[m] = "up"
Alive(m) == child[m] \in {"up", "hung"}

-----------------------------------------------------------------------------
(* The managers.                                                           *)

\* A manager touches its file when a loop begins.
Beat(m) ==
  /\ m \in Prompt /\ Up(m) /\ age[m] # 0
  /\ age' = [age EXCEPT ![m] = 0]
  /\ UNCHANGED <<child, todo, faults>>

Hang(m) ==
  /\ Up(m) /\ Fault
  /\ child' = [child EXCEPT ![m] = "hung"]
  /\ UNCHANGED <<age, todo>>

Crash(m) ==
  /\ Alive(m) /\ Fault
  /\ child' = [child EXCEPT ![m] = "dead"]
  /\ UNCHANGED <<age, todo>>

-----------------------------------------------------------------------------
(***************************************************************************)
(* A round of the watchdog.                                                *)
(***************************************************************************)
\* A minute passes; the next round begins.
Minute ==
  /\ todo = <<>>
  /\ \A m \in Prompt : Up(m) => age[m] < LoopTime
  /\ age' = [m \in Keys |-> (age[m] + 1) % Day]
  /\ todo' = Order
  /\ UNCHANGED <<child, faults>>

\* (Mutant: off by one minute.)
StaleAtOnce(m) == age[m] >= Tictoc

Stale(m) == age[m] > Tictoc

\* (Mutant: the round ends at the first manager that is well.)
LeaveAndStop(m) ==
  /\ todo # <<>> /\ Head(todo) = m
  /\ Alive(m) /\ ~Stale(m)
  /\ todo' = <<>>
  /\ UNCHANGED <<child, age, faults>>

Leave(m) ==
  /\ todo # <<>> /\ Head(todo) = m
  /\ Alive(m) /\ ~Stale(m)
  /\ todo' = Tail(todo)
  /\ UNCHANGED <<child, age, faults>>

NeedsStart(m) == todo # <<>> /\ Head(todo) = m /\ (Alive(m) => Stale(m))

\* (Mutant: the file is touched only when a manager that hangs was killed.)
TouchedIfKilled(m) == IF Alive(m) THEN [age EXCEPT ![m] = 0] ELSE age

\* The file is touched first: the new manager has the whole time to begin.
Touched(m) == [age EXCEPT ![m] = 0]

\* Whatever is left of the old process is killed; the new one may fail to start.
Start(m) ==
  /\ NeedsStart(m)
  /\ age' = Touched(m)
  /\ todo' = Tail(todo)
  /\ \/ child' = [child EXCEPT ![m] = "up"] /\ UNCHANGED faults
     \/ child' = [child EXCEPT ![m] = IF @ = "none" THEN "none" ELSE "dead"] /\ Fault

\* A call of the file system raises an exception, before or after the old process
\* was killed: the round is over.
RoundFails(m) ==
  /\ todo # <<>> /\ Head(todo) = m
  /\ Fault
  /\ todo' = <<>>
  /\ \/ Alive(m) /\ UNCHANGED child
     \/ NeedsStart(m) /\ child' = [child EXCEPT ![m] = IF @ = "none" THEN "none" ELSE "dead"]
  /\ UNCHANGED age

WatchTypeOK ==
  /\ child \in [Keys -> {"none", "up", "hung", "dead"}]
  /\ age \in [Keys -> 0..(Day - 1)]
  /\ todo \in Seq(Keys)
  /\ faults \in 0..MaxFaults
=============================================================================
