-------------------------- MODULE ErasureRecovery --------------------------
(***************************************************************************)
(* Deleted accounts and restored databases: AccountService.erase writes    *)
(* every deletion into a journal outside the database before it commits,   *)
(* and the owner's tool (account/erasure-recovery.ts) moves the authority  *)
(* over the journal from a fenced source to a restored database in which   *)
(* the journal has been replayed.                                          *)
(*                                                                         *)
(* The journal is one object that is only ever replaced by a write on      *)
(* condition of the version read before, and every write raises its        *)
(* revision, so the revision stands for the etag.  An advisory lock in     *)
(* each database is shared by erasures and exclusive for the tool.  Each   *)
(* process reads the journal, and writes it or commits, in two steps; it   *)
(* may die in between or lose the answer of the write.                     *)
(***************************************************************************)
EXTENDS Integers

CONSTANTS
  Users,
  Names,        \* names of databases; 1 is the first to serve
  MaxRevision   \* bound: writes of the journal

ASSUME ErasureAssumption == 1 \in Names /\ Names \subseteq Nat \ {0} /\ MaxRevision \in Nat

VARIABLES
  journal,     \* the object in the bucket; revision 0: there is none
  database,    \* by actual name: the control row and the accounts closed
  snapshot,    \* the backup there is
  erasing,     \* the erasure of an account under way in a database
  tool,        \* the locked step of the tool under way in a database
  replaying,   \* the journal that a replay into a database works off
  deleted      \* accounts whose deletion was committed by a serving database

erasureVars == <<journal, database, snapshot, erasing, tool, replaying, deleted>>

Journal == [revision : 0 .. MaxRevision, writer : Nat, database : Nat, fenced : BOOLEAN,
            entries : SUBSET Users]
NoJournal == [revision |-> 0, writer |-> 0, database |-> 0, fenced |-> FALSE, entries |-> {}]

(* app.erasure_recovery_control.  name is the database_name it was written *)
(* for, captured whether journal_namespace is set; identities are numbers. *)
Control == [id : Nat, name : Nat, mode : {"active", "fenced", "isolated", "ready"},
            captured : BOOLEAN, source : Nat, sourceName : Nat,
            replayRevision : 0 .. MaxRevision, replayed : SUBSET Users, closed : SUBSET Users]
Absent == [id |-> 0, name |-> 0, mode |-> "fenced", captured |-> FALSE, source |-> 0,
           sourceName |-> 0, replayRevision |-> 0, replayed |-> {}, closed |-> {}]
First == [Absent EXCEPT !.id = 1, !.name = 1, !.mode = "active"]

NoCall == [step |-> "idle", seen |-> 0]
NoTool == [op |-> "none", seen |-> NoJournal]
(* The steps of the tool, with the modes of the target each accepts; the   *)
(* lock keeps the mode as it is.                                           *)
Accepts == [initialize |-> {"active"}, fence |-> {"active", "fenced"},
            prepare |-> {"active", "fenced"}, finish |-> {"isolated"}, promote |-> {"ready"}]
Ops == DOMAIN Accepts

ErasureInit ==
  /\ journal = NoJournal /\ snapshot = Absent /\ deleted = {}
  /\ database = [d \in Names |-> IF d = 1 THEN First ELSE Absent]
  /\ erasing = [d \in Names |-> [u \in Users |-> NoCall]]
  /\ tool = [d \in Names |-> NoTool]
  /\ replaying = [d \in Names |-> NoJournal]

Exists(d) == database[d].id # 0
Bound(d) == database[d].name = d
(* assertWriter *)
Writes(j, d) ==
  j.revision # 0 /\ ~j.fenced /\ j.writer = database[d].id /\ j.database = d

MayServe_Renamed(d) ==      \* mutant: whatever name the control row was written for
  database[d].mode = "active" /\ (database[d].captured => Writes(journal, d))
(* assertErasureRuntime: a backend, with a journal configured or without,  *)
(* comes up.                                                               *)
MayServe(d) ==
  /\ database[d].mode = "active" /\ Bound(d)
  /\ database[d].captured => Writes(journal, d)

-----------------------------------------------------------------------------
(* Backups                                                                 *)

(* A backup is of a database of its own name, and is restored under        *)
(* another name, as the runbook requires.                                  *)
Backup(d) ==
  /\ Exists(d) /\ Bound(d) /\ snapshot' = database[d]
  /\ UNCHANGED <<journal, database, erasing, tool, replaying, deleted>>

Restore(d) ==
  /\ snapshot.id # 0 /\ ~Exists(d)
  /\ database' = [database EXCEPT ![d] = snapshot]
  /\ UNCHANGED <<journal, snapshot, erasing, tool, replaying, deleted>>

-----------------------------------------------------------------------------
(* AccountService.eraseInTransaction                                       *)

Open(d, u) == u \notin database[d].closed
Drained(d) == \A u \in Users : erasing[d][u] = NoCall

(* One erasure at a time (teamLock), the lock shared with the tool, the    *)
(* control row, and the journal if one is kept.  An entry that is there    *)
(* already is not written again.                                           *)
BeginErasure(d, u) ==
  /\ tool[d] = NoTool /\ Drained(d) /\ Open(d, u)
  /\ database[d].mode = "active" /\ Bound(d)
  /\ IF ~database[d].captured
     THEN erasing' = [erasing EXCEPT ![d][u].step = "recorded"]
     ELSE /\ Writes(journal, d)
          /\ erasing' = [erasing EXCEPT ![d][u] =
               IF u \in journal.entries THEN [step |-> "recorded", seen |-> 0]
               ELSE [step |-> "read", seen |-> journal.revision]]
  /\ UNCHANGED <<journal, database, snapshot, tool, replaying, deleted>>

(* ErasureJournal.record; the answer may be lost, and then the transaction *)
(* fails with the intent written.                                          *)
RecordErasure(d, u) ==
  /\ erasing[d][u].step = "read" /\ erasing[d][u].seen = journal.revision
  /\ journal.revision < MaxRevision
  /\ journal' = [journal EXCEPT !.revision = @ + 1, !.entries = @ \cup {u}]
  /\ erasing' = [erasing EXCEPT ![d][u] = [step |-> "recorded", seen |-> 0]]
  /\ UNCHANGED <<database, snapshot, tool, replaying, deleted>>

CommitErasure(d, u) ==
  /\ erasing[d][u].step = "recorded"
  /\ database' = [database EXCEPT ![d].closed = @ \cup {u}]
  /\ deleted' = deleted \cup {u}
  /\ erasing' = [erasing EXCEPT ![d][u] = NoCall]
  /\ UNCHANGED <<journal, snapshot, tool, replaying>>

(* A conflict, an outage or a crash rolls back.                            *)
AbandonErasure(d, u) ==
  /\ erasing[d][u] # NoCall
  /\ erasing' = [erasing EXCEPT ![d][u] = NoCall]
  /\ UNCHANGED <<journal, database, snapshot, tool, replaying, deleted>>

-----------------------------------------------------------------------------
(* ErasureRecovery                                                         *)

(* locked, up to the journal it reads                                      *)
BeginTool(d, op) ==
  /\ Exists(d) /\ tool[d] = NoTool /\ Drained(d) /\ database[d].mode \in Accepts[op]
  /\ tool' = [tool EXCEPT ![d] = [op |-> op, seen |-> journal]]
  /\ UNCHANGED <<journal, database, snapshot, erasing, replaying, deleted>>

AbandonTool(d) ==
  /\ tool[d] # NoTool /\ tool' = [tool EXCEPT ![d] = NoTool]
  /\ UNCHANGED <<journal, database, snapshot, erasing, replaying, deleted>>

(* The write on condition of what was read, and the control row after it,  *)
(* unless the tool dies in between.                                        *)
Write(d, value, control) ==
  /\ journal.revision = tool[d].seen.revision /\ journal.revision < MaxRevision
  /\ journal' = [value EXCEPT !.revision = tool[d].seen.revision + 1]
  /\ database' \in {database, [database EXCEPT ![d] = control]}
Commit(d, control) ==
  /\ database' = [database EXCEPT ![d] = control] /\ UNCHANGED journal
Close(d) ==
  /\ tool' = [tool EXCEPT ![d] = NoTool]
  /\ UNCHANGED <<snapshot, erasing, replaying, deleted>>

Initialize(d) ==
  LET seen == tool[d].seen IN
  /\ tool[d].op = "initialize" /\ Close(d)
  /\ Bound(d)
  /\ IF seen.revision = 0 THEN ~database[d].captured ELSE Writes(seen, d)
  /\ Write(d, [seen EXCEPT !.writer = database[d].id, !.database = d,
                           !.entries = @ \cup database[d].closed],
           [database[d] EXCEPT !.captured = TRUE])

Fence(d) ==
  LET seen == tool[d].seen
      fenced == [database[d] EXCEPT !.mode = "fenced"]
  IN
  /\ tool[d].op = "fence" /\ Close(d)
  /\ Bound(d) /\ database[d].captured
  /\ seen.revision # 0 /\ seen.writer = database[d].id /\ seen.database = d
  /\ database[d].closed \subseteq seen.entries
  /\ IF seen.fenced THEN Commit(d, fenced)
     ELSE Write(d, [seen EXCEPT !.fenced = TRUE], fenced)

Snapshot(seen) == seen.revision # 0 /\ seen.fenced
(* checkSource *)
FromSource(seen, d) ==
  database[d].source = seen.writer /\ database[d].sourceName = seen.database
Replaying(d) == database[d].mode \in {"isolated", "ready"} /\ Bound(d) /\ database[d].captured

(* A new identity, drawn at random: unlike any database's or the backup's  *)
Fresh(i) == i # 0 /\ i # snapshot.id /\ \A d \in Names : database[d].id # i

(* A target prepared before is left as it is.                              *)
Prepare(d, i) ==
  LET seen == tool[d].seen IN
  /\ tool[d].op = "prepare" /\ Close(d)
  /\ Snapshot(seen) /\ seen.database # d
  /\ database[d].id = seen.writer /\ database[d].captured
  /\ Fresh(i)
  /\ Commit(d, [database[d] EXCEPT !.id = i, !.name = d, !.mode = "isolated",
                  !.source = seen.writer, !.sourceName = seen.database,
                  !.replayRevision = 0, !.replayed = {}])

(* replay, up to the row that makes the target isolated (again)            *)
StartReplay(d) ==
  /\ tool[d] = NoTool /\ Drained(d) /\ replaying[d] = NoJournal
  /\ Snapshot(journal) /\ Replaying(d) /\ FromSource(journal, d)
  /\ replaying' = [replaying EXCEPT ![d] = journal]
  /\ database' = [database EXCEPT ![d].mode = "isolated", ![d].replayRevision = 0,
                                  ![d].replayed = {}]
  /\ UNCHANGED <<journal, snapshot, erasing, tool, deleted>>

(* eraseInTransaction once more, without journal or session                *)
ReplayErasure(d, u) ==
  /\ u \in replaying[d].entries /\ Open(d, u)
  /\ tool[d] = NoTool /\ database[d].mode = "isolated" /\ Bound(d)
  /\ database' = [database EXCEPT ![d].closed = @ \cup {u}]
  /\ UNCHANGED <<journal, snapshot, erasing, tool, replaying, deleted>>

AbandonReplay(d) ==
  /\ replaying[d] # NoJournal /\ tool[d] = NoTool
  /\ replaying' = [replaying EXCEPT ![d] = NoJournal]
  /\ UNCHANGED <<journal, database, snapshot, erasing, tool, deleted>>

FinishReplay(d) ==
  LET seen == tool[d].seen IN
  /\ tool[d].op = "finish" /\ replaying[d] # NoJournal /\ seen = replaying[d]
  /\ FromSource(seen, d)
  /\ seen.entries \subseteq database[d].closed
  /\ Commit(d, [database[d] EXCEPT !.mode = "ready", !.replayRevision = seen.revision,
                                   !.replayed = seen.entries])
  /\ tool' = [tool EXCEPT ![d] = NoTool]
  /\ replaying' = [replaying EXCEPT ![d] = NoJournal]
  /\ UNCHANGED <<snapshot, erasing, deleted>>

(* A journal that was handed over already, with the answer lost, only      *)
(* opens the gate.                                                         *)
Promote(d) ==
  LET seen == tool[d].seen
      active == [database[d] EXCEPT !.mode = "active"]
      handed == [seen EXCEPT !.writer = database[d].id, !.database = d, !.fenced = FALSE]
  IN
  /\ tool[d].op = "promote" /\ Close(d)
  /\ Bound(d) /\ database[d].captured
  /\ seen.revision # 0 /\ (seen.fenced => FromSource(seen, d))
  /\ seen.entries = database[d].replayed /\ seen.entries \subseteq database[d].closed
  /\ IF seen.fenced /\ seen.revision = database[d].replayRevision
     THEN Write(d, handed, active)
     ELSE /\ Writes(seen, d) /\ seen.revision = database[d].replayRevision + 1
          /\ Commit(d, active)

-----------------------------------------------------------------------------

ErasureStep(d) ==
  \/ Backup(d) \/ Restore(d)
  \/ \E u \in Users : BeginErasure(d, u) \/ RecordErasure(d, u) \/ CommitErasure(d, u)
                        \/ AbandonErasure(d, u) \/ ReplayErasure(d, u)
  \/ \E op \in Ops : BeginTool(d, op)
  \/ AbandonTool(d) \/ Initialize(d) \/ Fence(d) \/ (\E i \in Names : Prepare(d, i))
  \/ StartReplay(d) \/ AbandonReplay(d) \/ FinishReplay(d) \/ Promote(d)
ErasureNext == \E d \in Names : ErasureStep(d)
ErasureSpec == ErasureInit /\ [][ErasureNext]_erasureVars

-----------------------------------------------------------------------------

ErasureTypeOK ==
  /\ journal \in Journal
  /\ database \in [Names -> Control]
  /\ snapshot \in Control
  /\ erasing \in [Names -> [Users -> [step : {"idle", "read", "recorded"}, seen : 0 .. MaxRevision]]]
  /\ tool \in [Names -> [op : Ops \cup {"none"}, seen : Journal]]
  /\ replaying \in [Names -> Journal]
  /\ deleted \in SUBSET Users

(* No database that a backend would serve from, the source or a restored   *)
(* one, has an open account whose deletion was ever committed.             *)
DeletedStaysDeleted == \A d \in Names : MayServe(d) => deleted \subseteq database[d].closed
(* No two databases may be served from at once: a journal has one writer.  *)
OneAuthority == \A d, e \in Names : MayServe(d) /\ MayServe(e) => d = e
(* The promises of the recovery procedure (erasure-recovery.ts:15)         *)
ErasureSafe == ErasureTypeOK /\ DeletedStaysDeleted /\ OneAuthority
=============================================================================
