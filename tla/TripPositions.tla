--------------------------- MODULE TripPositions ---------------------------
(***************************************************************************)
(* The positions of one trip: the phone of the driver saves each fix       *)
(* before it uploads it (apps/trotxi_driver, PositionPublisher and         *)
(* PositionQueue), the server stores it and moves the live marker          *)
(* (transport/gps.ts record), and the trip ends only after what was saved  *)
(* is uploaded (TripsRepository.complete).  Requests and answers are lost  *)
(* or late, the app is killed, the driver signs out, the stream of the     *)
(* platform ends and is restarted.                                         *)
(*                                                                         *)
(* The app is single-threaded: an action is what runs between two awaits.  *)
(* A write to the storage and then to memory is one action, because a kill *)
(* between them leaves what a kill after them does.                        *)
(***************************************************************************)
EXTENDS Integers, FiniteSets

CONSTANTS
  Capacity,                     \* of the queue, 1440 in the code
  MaxAge,                       \* 24 hours, on the phone and on the server
  MaxFixes, LastMoment          \* bounds: fixes captured, the clock

ASSUME PositionsAssumption == {Capacity, MaxAge, MaxFixes, LastMoment} \subseteq Nat

VARIABLES
  moment,
  trip,        \* app.trips: its status, and when it was started
  stored,      \* trip_positions
  live,        \* trip_live_positions
  taken,       \* when each fix was captured, or Untaken
  app,       \* the state of the app and of its PositionPublisher
  queue,       \* the PositionQueue in memory
  disk,        \* what its storage holds
  wire,        \* requests on their way
  seen,        \* history: fixes whose loss the driver was shown, or that predate the trip
  dropped      \* history: fixes that went with a sign-out, or with the app in bind

positionVars == <<moment, trip, stored, live, taken, app, queue, disk, wire, seen, dropped>>

Untaken == -1
Fixes == 1..MaxFixes
NoFix == 0
Completing == -1              \* the request that ends the trip, on the wire
(* rejected: refused by the server.  expired: dropped for their age, and   *)
(* counted until the driver has seen the count.                            *)
Empty == [rows |-> {}, rejected |-> {}, expired |-> {}]
Closed == [at |-> "closed", sharing |-> FALSE, refused |-> FALSE, finishing |-> FALSE,
           upload |-> NoFix, answer |-> "none", ending |-> "no"]
OpenApp == [Closed EXCEPT !.at = "open"]

PositionsInit ==
  /\ moment = 0
  /\ trip = [status |-> "scheduled", since |-> Untaken]
  /\ stored = {} /\ live = NoFix
  /\ taken = [f \in Fixes |-> Untaken]
  /\ app = OpenApp
  /\ queue = Empty /\ disk = Empty
  /\ wire = {} /\ seen = {} /\ dropped = {}

MomentPasses ==
  /\ moment < LastMoment /\ moment' = moment + 1
  /\ UNCHANGED <<trip, stored, live, taken, app, queue, disk, wire, seen, dropped>>

Save(q) == queue' = q /\ disk' = q
Without(q, fixes) == [q EXCEPT !.rows = @ \ fixes, !.rejected = @ \ fixes]
(* pruneExpired                                                            *)
Aged(rows) == {f \in rows : taken[f] <= moment - MaxAge}
Pruned(q) == [Without(q, Aged(q.rows)) EXCEPT !.expired = @ \cup Aged(q.rows)]

(* stop()                                                                  *)
Stopped(p) == [p EXCEPT !.sharing = FALSE, !.finishing = FALSE, !.upload = NoFix,
                        !.answer = "none"]

-----------------------------------------------------------------------------
(* The driver and the platform                                             *)

StartTrip ==
  /\ app.at = "open" /\ trip.status = "scheduled"
  /\ trip' = [status |-> "active", since |-> moment]
  /\ UNCHANGED <<moment, stored, live, taken, app, queue, disk, wire, seen, dropped>>

(* start: after a roster read, or again once the platform has ended the    *)
(* stream; a request that is on its way is given up.                       *)
Share ==
  /\ app.at = "open" /\ trip.status = "active" /\ ~app.refused
  /\ app' = [Stopped(app) EXCEPT !.sharing = TRUE]
  /\ UNCHANGED <<moment, trip, stored, live, taken, queue, disk, wire, seen, dropped>>
Retry ==
  /\ app.at = "open" /\ app.refused
  /\ app' = [Stopped(app) EXCEPT !.refused = FALSE]
  /\ UNCHANGED <<moment, trip, stored, live, taken, queue, disk, wire, seen, dropped>>

(* _record and add: a fresh reading, which may be from before the start.   *)
(* A full queue refuses it.                                                *)
Capture(f, at) ==
  /\ app.sharing /\ ~app.finishing
  /\ taken[f] = Untaken /\ \A g \in 1..f - 1 : taken[g] # Untaken
  /\ \A g \in queue.rows : taken[g] <= at
  /\ Cardinality(queue.rows) < Capacity
  /\ taken' = [taken EXCEPT ![f] = at]
  /\ Save([queue EXCEPT !.rows = @ \cup {f}])
  /\ UNCHANGED <<moment, trip, stored, live, app, wire, seen, dropped>>

(* acknowledgeRejections and acknowledgeExpiry                             *)
Review ==
  /\ app.at = "open" /\ queue.rejected \cup queue.expired # {}
  /\ Save([Without(queue, queue.rejected) EXCEPT !.expired = {}])
  /\ seen' = seen \cup queue.rejected \cup queue.expired
  /\ UNCHANGED <<moment, trip, stored, live, taken, app, wire, dropped>>

Kill ==
  /\ app.at # "closed"
  /\ app' = Closed /\ queue' = Empty
  /\ dropped' = IF app.at = "binding" /\ disk = Empty THEN dropped \cup queue.expired ELSE dropped
  /\ UNCHANGED <<moment, trip, stored, live, taken, disk, wire, seen>>

(* bind: what is too old is dropped and counted.  When nothing remains the *)
(* storage is cleared before the count is written back.                    *)
Bind ==
  /\ app.at = "closed"
  /\ app' = [Closed EXCEPT !.at = "binding"]
  /\ queue' = Pruned(disk)
  /\ disk' = IF Pruned(disk).rows = {} THEN Empty ELSE disk
  /\ UNCHANGED <<moment, trip, stored, live, taken, wire, seen, dropped>>
BindSaves ==
  /\ app.at = "binding" /\ app' = OpenApp /\ Save(queue)
  /\ UNCHANGED <<moment, trip, stored, live, taken, wire, seen, dropped>>

(* bind(null), and the same driver signs in again.                         *)
DriverSignsOut ==
  /\ app.at = "open" /\ app' = OpenApp /\ Save(Empty)
  /\ dropped' = dropped \cup queue.rows \cup queue.expired
  /\ UNCHANGED <<moment, trip, stored, live, taken, wire, seen>>

-----------------------------------------------------------------------------
(* _drain: one request at a time, the oldest fix first                     *)

Sendable == queue.rows \ queue.rejected
Upload ==
  LET kept == Pruned(queue)
      next == {f \in kept.rows \ kept.rejected :
                 \A g \in kept.rows \ kept.rejected : f <= g}
  IN /\ app.sharing /\ app.upload = NoFix
     /\ Sendable # {} \/ kept # queue
     /\ Save(kept)
     /\ IF next = {} THEN UNCHANGED <<app, wire>>
        ELSE \E f \in next : /\ app' = [app EXCEPT !.upload = f, !.answer = "none"]
                             /\ wire' = wire \cup {f}
     /\ UNCHANGED <<moment, trip, stored, live, taken, seen, dropped>>

(* record, on the server                                                   *)
Verdict(f) ==
  IF trip.status # "active" THEN "trip_not_active"
  ELSE IF moment - trip.since > MaxAge THEN "collection_session_expired"
  ELSE IF taken[f] < trip.since THEN "capture_before_start"
  ELSE IF moment - taken[f] > MaxAge THEN "capture_too_old"
  ELSE "receipt"
Answered(f, answer) ==
  app' = IF app.upload = f /\ app.answer = "none"
           THEN [app EXCEPT !.answer = answer] ELSE app
Newer(f) == live = NoFix \/ taken[live] < taken[f]
(* The answer reaches the phone or is lost; so may be the request.         *)
Receive(f) ==
  /\ f \in wire /\ wire' = wire \ {f}
  /\ IF Verdict(f) = "receipt"
     THEN /\ stored' = stored \cup {f}
          /\ live' = IF Newer(f) THEN f ELSE live
     ELSE UNCHANGED <<stored, live>>
  /\ \E answer \in {Verdict(f), "failed"} : Answered(f, answer)
  /\ UNCHANGED <<moment, trip, taken, queue, disk, seen, dropped>>
Lose(f) ==
  /\ f \in wire /\ wire' = wire \ {f}
  /\ Answered(f, "failed")
  /\ UNCHANGED <<moment, trip, stored, live, taken, queue, disk, seen, dropped>>

(* No answer in time: the request may still arrive.                        *)
TimeOut ==
  /\ app.upload # NoFix /\ app.answer = "none"
  /\ app' = [app EXCEPT !.answer = "failed"]
  /\ UNCHANGED <<moment, trip, stored, live, taken, queue, disk, wire, seen, dropped>>

Rests(p) == [p EXCEPT !.upload = NoFix, !.answer = "none"]
Refused(p) == [Stopped(p) EXCEPT !.refused = TRUE]
Settles_Any == {"receipt", "capture_before_start", "failed"}    \* mutant: removed on any answer
Settles == {"receipt", "capture_before_start"}
HandleAnswer ==
  LET f == app.upload
      answer == app.answer
  IN /\ f # NoFix /\ answer # "none"
     /\ Save(CASE answer \in Settles -> Without(queue, {f})
               [] answer = "capture_too_old" ->
                    [queue EXCEPT !.rejected = @ \cup ({f} \cap queue.rows)]
               [] answer = "collection_session_expired" -> [queue EXCEPT !.rejected = queue.rows]
               [] OTHER -> queue)
     /\ app' = IF answer \in {"trip_not_active", "collection_session_expired"}
                 THEN Refused(app) ELSE Rests(app)
     /\ seen' = IF answer = "capture_before_start" THEN seen \cup {f} ELSE seen
     /\ UNCHANGED <<moment, trip, stored, live, taken, wire, dropped>>

-----------------------------------------------------------------------------
(* complete: flushBeforeComplete, then the request                         *)

Reviewed == queue.rejected = {} /\ queue.expired = {}
BeginFlush ==
  /\ app.at = "open" /\ app.ending = "no" /\ trip.status # "scheduled"
  /\ Reviewed /\ app.sharing
  /\ app' = [app EXCEPT !.ending = "flush", !.finishing = TRUE]
  /\ UNCHANGED <<moment, trip, stored, live, taken, queue, disk, wire, seen, dropped>>
Flushed == queue.rows = {} /\ queue.expired = {}
AskCompletion ==
  /\ \/ app.ending = "flush" /\ app.upload = NoFix
     \/ app.at = "open" /\ app.ending = "no" /\ trip.status # "scheduled" /\ ~app.sharing
        /\ Reviewed
  /\ Flushed
  /\ app' = [app EXCEPT !.ending = "asked"]
  /\ wire' = wire \cup {Completing}
  /\ UNCHANGED <<moment, trip, stored, live, taken, queue, disk, seen, dropped>>
(* A refusal, a timeout or a failed request: capture goes on.              *)
GiveUpEnding ==
  /\ app.ending # "no"
  /\ app' = [app EXCEPT !.ending = "no", !.finishing = FALSE]
  /\ UNCHANGED <<moment, trip, stored, live, taken, queue, disk, wire, seen, dropped>>
CompleteTrip ==
  /\ Completing \in wire /\ wire' = wire \ {Completing}
  /\ trip' = [trip EXCEPT !.status = IF @ = "active" THEN "completed" ELSE @]
  /\ \/ app' = app                                         \* the answer is lost
     \/ app.ending = "asked" /\ app' = [Stopped(app) EXCEPT !.ending = "no"]
  /\ UNCHANGED <<moment, stored, live, taken, queue, disk, seen, dropped>>

PositionsNext ==
  \/ MomentPasses \/ StartTrip \/ Share \/ Retry \/ Review \/ Kill \/ Bind \/ BindSaves
  \/ DriverSignsOut \/ Upload \/ TimeOut \/ HandleAnswer
  \/ BeginFlush \/ AskCompletion \/ GiveUpEnding \/ CompleteTrip
  \/ \E f \in Fixes : \/ Receive(f) \/ Lose(f)
                      \/ \E at \in {moment - 1, moment} \cap Nat : Capture(f, at)

PositionsSpec == PositionsInit /\ [][PositionsNext]_positionVars

-----------------------------------------------------------------------------
PositionsTypeOK ==
  /\ moment \in 0..LastMoment
  /\ trip.status \in {"scheduled", "active", "completed"}
  /\ stored \subseteq Fixes /\ live \in Fixes \cup {NoFix}
  /\ app.at \in {"closed", "binding", "open"}
  /\ app.ending \in {"no", "flush", "asked"}
  /\ \A q \in {queue, disk} : q.rejected \subseteq q.rows /\ Cardinality(q.rows) <= Capacity
  /\ wire \subseteq Fixes \cup {Completing}

(* When the phone asks to end the trip, every fix it ever saved is with    *)
(* the server, or predates the trip, or its loss was shown to the driver - *)
(* through lost answers, kills, restarts and a clock that runs on; only a  *)
(* sign-out, and a kill while the app binds its queue, lose fixes in       *)
(* silence (position_publisher.dart:220, position_queue.dart:6).           *)
Saved == {f \in Fixes : taken[f] # Untaken}
EvidenceKept ==
  [][app.ending # "asked" /\ app'.ending = "asked"
       => Saved \subseteq stored \cup seen \cup dropped]_positionVars

(* The marker riders see is the newest fix the server has, whatever the    *)
(* order in which a queue was uploaded (gps.ts:209).                       *)
LiveIsNewest ==
  /\ (live = NoFix) <=> (stored = {})
  /\ \A f \in stored : taken[f] <= taken[live]

(* A fix of which the app knows no end is kept on the phone, also over a   *)
(* kill.                                                                   *)
NothingSlips ==
  app.at # "binding" =>
    Saved \subseteq stored \cup seen \cup dropped \cup disk.rows \cup disk.expired

(* The promises of the queue and of the marker                             *)
PositionsSafe == [](PositionsTypeOK /\ LiveIsNewest /\ NothingSlips) /\ EvidenceKept
=============================================================================
