----------------------------- MODULE Scheduler -----------------------------
(***************************************************************************)
(* The scheduler inside the API (runtime/scheduler.ts, job-schedule.ts):   *)
(* one replica, elected by an advisory lock of a database session, works   *)
(* through the groups of jobs that are due and records each run.  Here     *)
(* are the two groups that sweep the no-shows of a service day: from 23:30 *)
(* of that day, and once more on the next.  A pass of a job settles a      *)
(* batch of seats (runNoShows of boarding/service.ts).                     *)
(*                                                                         *)
(* The clock has three parts a day: from midnight, from 23:30, and after   *)
(* the last departure.  One part is at least the five minutes after which  *)
(* a failed or interrupted run is tried again.                             *)
(***************************************************************************)
EXTENDS Integers, Sequences, FiniteSets

CONSTANTS
  Replicas,
  Seats,       \* reservations of day 0 that nobody boarded, as numbers
  Late,        \* those of departures after 23:30
  Stuck,       \* those the sweep lists and is refused (a pause began)
  BatchLimit, MaxPasses,
  LastPart, MaxStarts          \* bounds: the clock, runs recorded

None == "none"

ASSUME SchedulerAssumption ==
  /\ None \notin Replicas
  /\ Seats \subseteq Nat /\ IsFiniteSet(Seats) /\ Late \subseteq Seats /\ Stuck \subseteq Seats
  /\ {BatchLimit, MaxPasses, LastPart, MaxStarts} \subseteq Nat

VARIABLES
  part,        \* the clock
  unsettled,   \* reservations still reserved
  runs,        \* maintenance_run_starts with their outcomes
  elected,     \* the session that holds the advisory lock
  replica      \* what each replica is doing

schedulerVars == <<part, unsettled, runs, elected, replica>>

Down == [at |-> "down", conn |-> "up", todo |-> <<>>, run |-> 0, pass |-> 0,
         failed |-> FALSE]
Waits == [Down EXCEPT !.at = "waits"]

SchedulerInit ==
  /\ part = 0
  /\ unsettled = Seats
  /\ runs = <<>>
  /\ elected = None
  /\ replica = [r \in Replicas |-> Waits]

DayOf(t) == t \div 3
(* the key of a group: a slot of its own for the catch-up                  *)
SlotKey_OneSlot(name, day) == <<"no-shows", day>>      \* mutant: the day has one slot
SlotKey(name, day) == <<name, day>>
ScheduledGroups ==
  (IF DayOf(part) > 0 THEN <<SlotKey("no-shows-catch-up", DayOf(part) - 1)>> ELSE <<>>)
  \o (IF part % 3 > 0 THEN <<SlotKey("no-shows", DayOf(part))>> ELSE <<>>)

ReplicaAt(r, place) == replica[r].at = place
Interrupted(r) == replica[r].conn = "noticed"

PartPasses ==
  /\ part < LastPart /\ part' = part + 1
  /\ UNCHANGED <<unsettled, runs, elected, replica>>

(* tick: pg_try_advisory_lock, and the groups of this moment               *)
Elect(r) ==
  /\ ReplicaAt(r, "waits") /\ elected = None
  /\ elected' = r
  /\ replica' = [replica EXCEPT ![r].at = "chooses", ![r].todo = ScheduledGroups]
  /\ UNCHANGED <<part, unsettled, runs>>

(* due: the latest run of the slot decides                                 *)
RunsOf(key) == {i \in 1..Len(runs) : runs[i].key = key}
LatestOf(key) == CHOOSE i \in RunsOf(key) : \A j \in RunsOf(key) : j <= i
IsDue(key) ==
  IF RunsOf(key) = {} THEN TRUE
  ELSE LET last == runs[LatestOf(key)] IN last.outcome # "completed" /\ part - last.at >= 1
Next1(r) == Head(replica[r].todo)
Skip(r) ==
  /\ ReplicaAt(r, "chooses") /\ replica[r].todo # <<>> /\ ~Interrupted(r) /\ ~IsDue(Next1(r))
  /\ replica' = [replica EXCEPT ![r].todo = Tail(@)]
  /\ UNCHANGED <<part, unsettled, runs, elected>>
FindDue(r) ==
  /\ ReplicaAt(r, "chooses") /\ replica[r].todo # <<>> /\ ~Interrupted(r) /\ IsDue(Next1(r))
  /\ replica' = [replica EXCEPT ![r].at = "starts"]
  /\ UNCHANGED <<part, unsettled, runs, elected>>
(* startWorker, on another connection: the lock may be lost meanwhile      *)
StartRun(r) ==
  /\ ReplicaAt(r, "starts") /\ Len(runs) < MaxStarts
  /\ runs' = Append(runs, [key |-> Next1(r), at |-> part, outcome |-> None])
  /\ replica' = [replica EXCEPT ![r].at = "works", ![r].run = Len(runs) + 1, ![r].pass = 0,
                             ![r].failed = FALSE]
  /\ UNCHANGED <<part, unsettled, elected>>

-----------------------------------------------------------------------------
(* drainScheduledJob: one pass after the other, each of its own requests   *)

Departed(s) == part >= IF s \in Late THEN 2 ELSE 1
Sweepable(key) == IF key[2] = 0 THEN {s \in unsettled : Departed(s)} ELSE {}
Batch(key) ==        \* the first by id
  {s \in Sweepable(key) : Cardinality({b \in Sweepable(key) : b < s}) < BatchLimit}
Full(key) == Cardinality(Batch(key)) = BatchLimit

Key(r) == runs[replica[r].run].key
Ends(r, failed) == replica' = [replica EXCEPT ![r].at = "ends", ![r].failed = failed]

(* A batch that is not full was the last.  A full one without progress, or *)
(* after the last pass, leaves a backlog, which is a failure.              *)
Pass(r) ==
  LET done == Batch(Key(r)) \ Stuck
  IN /\ ReplicaAt(r, "works") /\ ~Interrupted(r)
     /\ unsettled' = unsettled \ done
     /\ IF ~Full(Key(r)) THEN Ends(r, FALSE)
        ELSE IF done = {} \/ replica[r].pass + 1 >= MaxPasses THEN Ends(r, TRUE)
        ELSE replica' = [replica EXCEPT ![r].pass = @ + 1]
     /\ UNCHANGED <<part, runs, elected>>
(* A request fails, some of its batch settled; or the 45 seconds are over. *)
PassFails(r) ==
  /\ ReplicaAt(r, "works") /\ ~Interrupted(r)
  /\ \E done \in SUBSET (Batch(Key(r)) \ Stuck) : unsettled' = unsettled \ done
  /\ Ends(r, TRUE)
  /\ UNCHANGED <<part, runs, elected>>
(* stopped, or the lock is known to be lost                                *)
BreakOff(r) ==
  /\ ReplicaAt(r, "works") /\ Interrupted(r) /\ Ends(r, TRUE)
  /\ UNCHANGED <<part, unsettled, runs, elected>>

FinishRun(r) ==
  /\ ReplicaAt(r, "ends")
  /\ runs' = [runs EXCEPT ![replica[r].run].outcome =
                            IF replica[r].failed THEN "failed" ELSE "completed"]
  /\ replica' = [replica EXCEPT ![r].at = "chooses", ![r].todo = Tail(@), ![r].run = 0,
                                ![r].pass = 0, ![r].failed = FALSE]
  /\ UNCHANGED <<part, unsettled, elected>>

(* pg_advisory_unlock, or the connection is thrown away                    *)
EndCycle(r) ==
  /\ ReplicaAt(r, "chooses")
  /\ replica[r].todo = <<>> \/ Interrupted(r)
  /\ elected' = IF elected = r THEN None ELSE elected
  /\ replica' = [replica EXCEPT ![r] = Waits]
  /\ UNCHANGED <<part, unsettled, runs>>

-----------------------------------------------------------------------------
(* Faults: the server drops the session and with it the lock; the replica  *)
(* hears of it later; a replica dies and starts again.                     *)

Cut(r) ==
  /\ elected = r /\ elected' = None
  /\ replica' = [replica EXCEPT ![r].conn = "cut"]
  /\ UNCHANGED <<part, unsettled, runs>>
Notice(r) ==         \* or stop() was called
  /\ ~ReplicaAt(r, "down") /\ ~ReplicaAt(r, "waits") /\ ~Interrupted(r)
  /\ replica' = [replica EXCEPT ![r].conn = "noticed"]
  /\ UNCHANGED <<part, unsettled, runs, elected>>
ReplicaDies(r) ==
  /\ ~ReplicaAt(r, "down")
  /\ replica' = [replica EXCEPT ![r] = Down]
  /\ elected' = IF elected = r THEN None ELSE elected
  /\ UNCHANGED <<part, unsettled, runs>>
StartUp(r) ==
  /\ ReplicaAt(r, "down") /\ replica' = [replica EXCEPT ![r] = Waits]
  /\ UNCHANGED <<part, unsettled, runs, elected>>

SchedulerNext ==
  \/ PartPasses
  \/ \E r \in Replicas :
       \/ Elect(r) \/ Skip(r) \/ FindDue(r) \/ StartRun(r)
       \/ Pass(r) \/ PassFails(r) \/ BreakOff(r) \/ FinishRun(r) \/ EndCycle(r)
       \/ Cut(r) \/ Notice(r) \/ ReplicaDies(r) \/ StartUp(r)

SchedulerSpec == SchedulerInit /\ [][SchedulerNext]_schedulerVars

-----------------------------------------------------------------------------
SchedulerTypeOK ==
  /\ part \in 0..LastPart
  /\ unsettled \subseteq Seats
  /\ Len(runs) <= MaxStarts
  /\ elected \in Replicas \cup {None}
  /\ \A r \in Replicas :
       /\ replica[r].at \in {"down", "waits", "chooses", "starts", "works", "ends"}
       /\ replica[r].conn \in {"up", "cut", "noticed"}

(* Once the catch-up of a day counts as done, and will not be run again,   *)
(* every seat of that day that can be settled is, however the runs before  *)
(* it ended and whoever held the lock: a run that was cut short, that left *)
(* a backlog, or that came before the last departure is no excuse          *)
(* (scheduler.ts:101, job-schedule.ts:50).                                 *)
NobodyForgotten ==
  LET key == SlotKey("no-shows-catch-up", 0)
  IN DayOf(part) > 0 /\ RunsOf(key) # {} /\ runs[LatestOf(key)].outcome = "completed"
       => unsettled \subseteq Stuck

(* Two replicas work at the same time only if one of them has lost its     *)
(* session, known to it or not.                                            *)
Working(r) == ~ReplicaAt(r, "down") /\ ~ReplicaAt(r, "waits")
OneCycle ==
  \A q, r \in Replicas :
    q # r /\ Working(q) /\ Working(r) => replica[q].conn # "up" \/ replica[r].conn # "up"

(* The promise of the scheduler (docs/operations/job-scheduler.md:63-88)   *)
SchedulerSafe == SchedulerTypeOK /\ NobodyForgotten /\ OneCycle
=============================================================================
