--------------------------- MODULE Accounts_Proofs ---------------------------
(***************************************************************************)
(* For any users, databases and number of writes of the journal: one       *)
(* database may serve at a time, and in it every account whose deletion    *)
(* was committed anywhere is closed.  For any phones, clock, bounds and    *)
(* lifetimes: the promises of Sessions.  For any drains and limits, and    *)
(* for any queue, age and number of fixes: those of Delivery and of        *)
(* TripPositions, which serve the phone of a driver.                       *)
(*                                                                         *)
(* The two promises of an erasure are not inductive.  They follow from     *)
(* where the authority lies (Authority): with the first database until it  *)
(* has a journal, then with the database the journal names; and from what  *)
(* each erasure and each step of the tool still knows when it writes.      *)
(*                                                                         *)
(* Those of the sessions need what a phone may rely on while an answer is  *)
(* under way.  The server only moves forward (Forward): a session that     *)
(* ended, a credential that was consumed or expired, never comes back, so  *)
(* an answer that is read late still says the truth (AnswersStand).        *)
(*                                                                         *)
(* Those of the outboxes rest on the lock of the driver's row, which makes *)
(* one drain the only sender (OneSender) and keeps what it says true       *)
(* (SendersHold), and on where the second send of a text or a mail would   *)
(* come from (TextedOnce, MailedOnce).                                     *)
(*                                                                         *)
(* Those of the positions need what the app holds while it binds its       *)
(* queue (WholeWhileBinding) and that a receipt it has read is true        *)
(* (ReceiptHolds).                                                         *)
(***************************************************************************)
EXTENDS ErasureRecovery, Sessions, Delivery, TripPositions, FiniteSetTheorems, SequenceTheorems,
        TLAPS


CallType == [step : {"idle", "read", "recorded"}, seen : 0 .. MaxRevision]
ToolType == [op : Ops \cup {"none"}, seen : Journal]

(* The databases there are.  Only the first one may serve without a        *)
(* journal, and once it has one, so has everything restored from it.       *)
Kept ==
  /\ Exists(1)
  /\ \A d \in Names : ~Exists(d) => database[d] = Absent
  /\ snapshot.id # 0 => snapshot.name \in Names /\ Exists(snapshot.name)
Capturing ==
  /\ \A d \in Names : database[d].captured => database[1].captured
  /\ \A d \in Names : Exists(d) /\ Bound(d) /\ d # 1 => database[d].captured
  /\ snapshot.captured => database[1].captured

(* Where the deletions are: with the first database while there is no      *)
(* journal, in the journal from then on.                                   *)
Uncaptured ==
  ~database[1].captured =>
    /\ deleted \subseteq database[1].closed
    /\ journal.revision # 0 => journal.database = 1 /\ ~journal.fenced
Journaled ==
  /\ database[1].captured => journal.revision > 0 /\ deleted \subseteq journal.entries
  /\ journal.revision = 0 => journal = NoJournal

(* The writer of the journal exists, and has carried out all of it that    *)
(* was committed.                                                          *)
WriterKnown ==
  journal.revision # 0 =>
    /\ journal.database \in Names /\ Exists(journal.database)
    /\ database[journal.database].id = journal.writer
WriterComplete ==
  \A d \in Names : Writes(journal, d) /\ database[d].captured => deleted \subseteq database[d].closed

(* What a step of the tool read is the journal as it is, or an older one   *)
(* that its conditional write will refuse.                                 *)
ToolSeen ==
  \A d \in Names : tool[d] # NoTool =>
    LET read == tool[d].seen IN
    /\ Drained(d) /\ Exists(d)
    /\ read.revision <= journal.revision
    /\ read.revision = journal.revision => read = journal
    /\ journal.revision # 0 /\ journal.database = d => read.revision # 0 /\ read.database = d

(* An erasure under way holds the shared lock: its database serves, and    *)
(* has written the entry it is about to commit.                            *)
CallStands(d, u) ==
  /\ Bound(d)
  /\ erasing[d][u].step = "recorded" /\ database[d].captured =>
       Writes(journal, d) /\ u \in journal.entries
  /\ erasing[d][u].step = "read" =>
       /\ database[d].captured /\ erasing[d][u].seen <= journal.revision
       /\ erasing[d][u].seen = journal.revision => Writes(journal, d)
Calls == \A d \in Names, u \in Users : erasing[d][u] # NoCall => CallStands(d, u)

Authority ==
  /\ Kept /\ Capturing /\ Uncaptured /\ Journaled /\ WriterKnown /\ WriterComplete
  /\ ToolSeen /\ Calls

-----------------------------------------------------------------------------
(* The rows there are at the beginning are rows. *)
LEMMA Blank ==
  /\ NoJournal \in Journal /\ Absent \in Control /\ First \in Control
  /\ NoCall \in CallType /\ NoTool \in ToolType
<1>1. NoJournal \in Journal
  BY ErasureAssumption DEF NoJournal, Journal
<1>2. Absent \in Control
  BY ErasureAssumption DEF Absent, Control
<1>3. First \in Control
  BY <1>2 DEF First, Control
<1> QED
  BY <1>1, <1>2, <1>3, ErasureAssumption DEF NoCall, NoTool, CallType, ToolType

(* The first database and the blank rows are well typed. *)
LEMMA TypeInit == ErasureInit => ErasureTypeOK
BY Blank, ErasureAssumption DEF ErasureInit, ErasureTypeOK, CallType, ToolType

(* The steps of an erasure keep every row well typed. *)
LEMMA CallTypes ==
  ASSUME ErasureTypeOK, NEW d \in Names, NEW u \in Users,
         BeginErasure(d, u) \/ RecordErasure(d, u) \/ CommitErasure(d, u)
           \/ AbandonErasure(d, u) \/ ReplayErasure(d, u)
  PROVE  ErasureTypeOK'
<1>1. database[d] \in Control /\ erasing[d][u] \in CallType
  BY DEF ErasureTypeOK, CallType
<1>2. CASE BeginErasure(d, u)
  <2>1. CASE ~database[d].captured
    <3>1. erasing' = [erasing EXCEPT ![d][u] = [erasing[d][u] EXCEPT !.step = "recorded"]]
      BY <1>2, <2>1 DEF BeginErasure
    <3>2. [erasing[d][u] EXCEPT !.step = "recorded"] \in CallType
      BY <1>1 DEF CallType
    <3> QED
      BY <1>2, <3>1, <3>2 DEF BeginErasure, ErasureTypeOK, CallType
  <2>2. CASE database[d].captured
    <3> DEFINE c == IF u \in journal.entries THEN [step |-> "recorded", seen |-> 0]
                    ELSE [step |-> "read", seen |-> journal.revision]
    <3>1. erasing' = [erasing EXCEPT ![d][u] = c]
      BY <1>2, <2>2 DEF BeginErasure
    <3>2. c \in CallType
      BY ErasureAssumption DEF CallType, ErasureTypeOK, Journal
    <3> HIDE DEF c
    <3> QED
      BY <1>2, <3>1, <3>2 DEF BeginErasure, ErasureTypeOK, CallType
  <2> QED
    BY <2>1, <2>2
<1>3. CASE RecordErasure(d, u)
  <2>1. journal' \in Journal
    <3>1. journal \in Journal /\ journal.revision + 1 \in 0 .. MaxRevision
      BY <1>3, ErasureAssumption DEF RecordErasure, ErasureTypeOK, Journal
    <3>2. journal' = [journal EXCEPT !.revision = journal.revision + 1,
                                     !.entries = journal.entries \cup {u}]
      BY <1>3 DEF RecordErasure
    <3> QED
      BY <3>1, <3>2 DEF Journal
  <2> QED
    BY <1>1, <1>3, <2>1, ErasureAssumption DEF RecordErasure, ErasureTypeOK, CallType
<1>4. CASE CommitErasure(d, u)
  <2>1. [database[d] EXCEPT !.closed = @ \cup {u}] \in Control
    BY <1>1 DEF Control
  <2> QED
    BY <1>4, <2>1, Blank DEF CommitErasure, ErasureTypeOK, CallType
<1>5. CASE AbandonErasure(d, u)
  BY <1>5, Blank DEF AbandonErasure, ErasureTypeOK, CallType
<1>6. CASE ReplayErasure(d, u)
  <2>1. [database[d] EXCEPT !.closed = @ \cup {u}] \in Control
    BY <1>1 DEF Control
  <2> QED
    BY <1>6, <2>1 DEF ReplayErasure, ErasureTypeOK
<1> QED
  BY <1>2, <1>3, <1>4, <1>5, <1>6

(* The tool closes with a control row, and a journal, of their types. *)
LEMMA WriteTypes ==
  ASSUME ErasureTypeOK, NEW d \in Names, Close(d), NEW value \in Journal, NEW control \in Control,
         Write(d, value, control)
  PROVE  ErasureTypeOK'
<1>1. tool[d].seen.revision \in 0 .. MaxRevision
  BY DEF ErasureTypeOK, Journal
<1>2. journal' \in Journal
  <2>1. tool[d].seen.revision + 1 \in 0 .. MaxRevision
    BY <1>1, ErasureAssumption DEF Write
  <2> QED
    BY <2>1 DEF Write, Journal
<1>3. database' \in [Names -> Control] /\ tool' \in [Names -> ToolType]
  BY Blank DEF Write, Close, ErasureTypeOK, ToolType
<1> QED
  BY <1>2, <1>3 DEF Write, Close, ErasureTypeOK, ToolType

(* So does a control row that is replaced. *)
LEMMA CommitTypes ==
  ASSUME ErasureTypeOK, NEW d \in Names, Close(d), NEW control \in Control, Commit(d, control)
  PROVE  ErasureTypeOK'
BY Blank DEF Commit, Close, ErasureTypeOK, ToolType

(* The steps of the tool, and backups, keep every row well typed. *)
LEMMA ToolTypes ==
  ASSUME ErasureTypeOK, NEW d \in Names,
         AbandonTool(d) \/ Initialize(d) \/ Fence(d) \/ (\E i \in Names : Prepare(d, i))
           \/ StartReplay(d) \/ AbandonReplay(d) \/ FinishReplay(d) \/ Promote(d)
           \/ (\E op \in Ops : BeginTool(d, op)) \/ Backup(d) \/ Restore(d)
  PROVE  ErasureTypeOK'
<1>1. database[d] \in Control /\ tool[d].seen \in Journal
  BY DEF ErasureTypeOK
<1>2. CASE AbandonTool(d) \/ AbandonReplay(d)
  BY <1>2, Blank DEF AbandonTool, AbandonReplay, ErasureTypeOK, ToolType
<1>0. ASSUME NEW op \in Ops, BeginTool(d, op)
      PROVE  ErasureTypeOK'
  <2>1. [op |-> op, seen |-> journal] \in ToolType
    BY DEF ErasureTypeOK, ToolType
  <2> QED
    BY <1>0, <2>1 DEF BeginTool, ErasureTypeOK, ToolType
<1>3. CASE Initialize(d)
  <2>1. [tool[d].seen EXCEPT !.writer = database[d].id, !.database = d,
                             !.entries = @ \cup database[d].closed] \in Journal
    BY <1>1, ErasureAssumption DEF Journal, Control
  <2>2. [database[d] EXCEPT !.captured = TRUE] \in Control
    BY <1>1 DEF Control
  <2> QED
    BY <1>3, <2>1, <2>2, WriteTypes DEF Initialize
<1>4. CASE Fence(d)
  <2>1. [tool[d].seen EXCEPT !.fenced = TRUE] \in Journal
    BY <1>1 DEF Journal
  <2>2. [database[d] EXCEPT !.mode = "fenced"] \in Control
    BY <1>1 DEF Control
  <2> QED
    BY <1>4, <2>1, <2>2, WriteTypes, CommitTypes DEF Fence
<1>5. ASSUME NEW i \in Names, Prepare(d, i)
      PROVE  ErasureTypeOK'
  <2>1. [database[d] EXCEPT !.id = i, !.name = d, !.mode = "isolated",
            !.source = tool[d].seen.writer, !.sourceName = tool[d].seen.database,
            !.replayRevision = 0, !.replayed = {}] \in Control
    <3>1. i \in Nat /\ d \in Nat /\ 0 \in 0 .. MaxRevision
      BY ErasureAssumption
    <3>2. tool[d].seen.writer \in Nat /\ tool[d].seen.database \in Nat
      BY <1>1 DEF Journal
    <3> QED
      BY <1>1, <3>1, <3>2 DEF Control
  <2> QED
    BY <1>5, <2>1, CommitTypes DEF Prepare
<1>6. CASE StartReplay(d)
  <2>1. [database[d] EXCEPT !.mode = "isolated", !.replayRevision = 0, !.replayed = {}] \in Control
    <3>1. 0 \in 0 .. MaxRevision
      BY ErasureAssumption
    <3> QED
      BY <1>1, <3>1 DEF Control
  <2>2. database' = [database EXCEPT ![d] =
           [database[d] EXCEPT !.mode = "isolated", !.replayRevision = 0, !.replayed = {}]]
    BY <1>1, <1>6 DEF StartReplay, ErasureTypeOK, Control
  <2> QED
    BY <1>6, <2>1, <2>2 DEF StartReplay, ErasureTypeOK
<1>7. CASE FinishReplay(d)
  <2>1. [database[d] EXCEPT !.mode = "ready", !.replayRevision = tool[d].seen.revision,
                            !.replayed = tool[d].seen.entries] \in Control
    BY <1>1 DEF Control, Journal
  <2> QED
    BY <1>7, <2>1, Blank DEF FinishReplay, Commit, ErasureTypeOK, ToolType
<1>8. CASE Promote(d)
  <2>1. [tool[d].seen EXCEPT !.writer = database[d].id, !.database = d, !.fenced = FALSE] \in Journal
    BY <1>1, ErasureAssumption DEF Journal, Control
  <2>2. [database[d] EXCEPT !.mode = "active"] \in Control
    BY <1>1 DEF Control
  <2> QED
    BY <1>8, <2>1, <2>2, WriteTypes, CommitTypes DEF Promote
<1>9. CASE Backup(d) \/ Restore(d)
  BY <1>1, <1>9 DEF Backup, Restore, ErasureTypeOK
<1> QED
  BY <1>0, <1>2, <1>3, <1>4, <1>5, <1>6, <1>7, <1>8, <1>9

(* Every step does. *)
LEMMA TypeStep == ASSUME ErasureTypeOK, [ErasureNext]_erasureVars PROVE ErasureTypeOK'
<1>1. CASE UNCHANGED erasureVars
  BY <1>1 DEF erasureVars, ErasureTypeOK
<1>2. ASSUME NEW d \in Names, ErasureStep(d)
      PROVE  ErasureTypeOK'
  BY <1>2, CallTypes, ToolTypes DEF ErasureStep
<1> QED
  BY <1>1, <1>2 DEF ErasureNext

-----------------------------------------------------------------------------

(* The identities and the gate of every database are as they were. *)
SameRows ==
  \A e \in Names :
    /\ database'[e].id = database[e].id /\ database'[e].name = database[e].name
    /\ database'[e].captured = database[e].captured

(* Calls and tools that only end disturb nothing. *)
LEMMA EndingsFrame ==
  ASSUME Authority, SameRows, UNCHANGED journal,
         \A e \in Names : tool'[e] = tool[e] \/ tool'[e] = NoTool,
         \A e \in Names, u \in Users : erasing'[e][u] = erasing[e][u] \/ erasing'[e][u] = NoCall
  PROVE  ToolSeen' /\ Calls'
<1>1. ToolSeen'
  BY DEF Authority, ToolSeen, SameRows, Drained, Exists
<1>2. ASSUME NEW e \in Names, NEW u \in Users, erasing'[e][u] # NoCall
      PROVE  CallStands(e, u)'
  <2>1. erasing'[e][u] = erasing[e][u] /\ CallStands(e, u)
    BY <1>2 DEF Authority, Calls
  <2> QED
    BY <2>1 DEF CallStands, SameRows, Bound, Writes
<1> QED
  BY <1>1, <1>2 DEF Calls

(* Neither does a database that closes accounts or changes its mode. *)
LEMMA RowsFrame ==
  ASSUME Authority, ErasureTypeOK, SameRows, UNCHANGED <<journal, snapshot, deleted>>,
         \A e \in Names : database[e].closed \subseteq database'[e].closed,
         \A e \in Names : ~Exists(e) => database'[e] = database[e]
  PROVE  /\ Kept' /\ Capturing' /\ Uncaptured' /\ Journaled' /\ WriterKnown'
         /\ WriterComplete'
<1>1. Kept' /\ Capturing'
  BY ErasureAssumption DEF Authority, Kept, Capturing, SameRows, Exists, Bound
<1>2. Uncaptured' /\ Journaled'
  BY ErasureAssumption DEF Authority, Uncaptured, Journaled, SameRows
<1>3. WriterKnown' /\ WriterComplete'
  BY DEF Authority, WriterKnown, WriterComplete, SameRows, Exists, Writes
<1> QED
  BY <1>1, <1>2, <1>3

(* A row replaced by one with the same identity and gate *)
LEMMA RowReplaced ==
  ASSUME ErasureTypeOK, Authority, NEW d \in Names, NEW control \in Control, Exists(d),
         control.id = database[d].id, control.name = database[d].name,
         control.captured = database[d].captured, database[d].closed \subseteq control.closed,
         database' = [database EXCEPT ![d] = control],
         UNCHANGED <<journal, snapshot, deleted>>,
         \A e \in Names : tool'[e] = tool[e] \/ tool'[e] = NoTool,
         \A e \in Names, u \in Users : erasing'[e][u] = erasing[e][u] \/ erasing'[e][u] = NoCall
  PROVE  Authority'
<1>1. SameRows /\ \A e \in Names : database[e].closed \subseteq database'[e].closed
  BY DEF SameRows, ErasureTypeOK
<1>2. \A e \in Names : ~Exists(e) => database'[e] = database[e]
  BY DEF ErasureTypeOK
<1> QED
  BY <1>1, <1>2, EndingsFrame, RowsFrame DEF Authority

(* A call or a step of the tool that is given up keeps the authority. *)
LEMMA RestKeeps ==
  ASSUME ErasureTypeOK, Authority, NEW d \in Names,
         (\E u \in Users : AbandonErasure(d, u)) \/ AbandonTool(d) \/ AbandonReplay(d)
  PROVE  Authority'
<1>1. SameRows /\ UNCHANGED <<journal, database, snapshot, deleted>>
  BY DEF SameRows, AbandonErasure, AbandonTool, AbandonReplay
<1>2. \A e \in Names : tool'[e] = tool[e] \/ tool'[e] = NoTool
  BY DEF AbandonErasure, AbandonTool, AbandonReplay, ErasureTypeOK
<1>3. \A e \in Names, u \in Users : erasing'[e][u] = erasing[e][u] \/ erasing'[e][u] = NoCall
  BY DEF AbandonErasure, AbandonTool, AbandonReplay, ErasureTypeOK
<1> QED
  BY <1>1, <1>2, <1>3, EndingsFrame, RowsFrame DEF Authority

(* A database of its own name exists. *)
LEMMA BoundExists == ASSUME Authority, NEW d \in Names, Bound(d) PROVE Exists(d)
BY ErasureAssumption DEF Authority, Kept, Bound, Absent, Exists

(* A backup keeps it: the name in the backup is that of a database. *)
LEMMA BackupKeeps == ASSUME ErasureTypeOK, Authority, NEW d \in Names, Backup(d) PROVE Authority'
<1>1. Kept' /\ Capturing'
  BY DEF Backup, Authority, Kept, Capturing, Exists, Bound
<1>2. Uncaptured' /\ Journaled' /\ WriterKnown' /\ WriterComplete'
  BY DEF Backup, Authority, Uncaptured, Journaled, WriterKnown, WriterComplete, Exists, Writes
<1>3. SameRows
  BY DEF Backup, SameRows
<1> QED
  BY <1>1, <1>2, <1>3, EndingsFrame DEF Backup, Authority

(* What is restored has the name of another database: it may not serve.    *)
LEMMA RestoreKeeps == ASSUME ErasureTypeOK, Authority, NEW d \in Names, Restore(d) PROVE Authority'
<1>1. /\ database' = [database EXCEPT ![d] = snapshot]
      /\ UNCHANGED <<journal, snapshot, erasing, tool, replaying, deleted>>
      /\ snapshot.id # 0 /\ ~Exists(d) /\ snapshot.name # d /\ d # 1
      /\ database[d] = Absent
  BY DEF Restore, Authority, Kept
<1>2. /\ database'[d] = snapshot
      /\ \A e \in Names : e # d => database'[e] = database[e]
  BY <1>1 DEF ErasureTypeOK
<1>3. journal.revision # 0 => journal.database # d
  BY <1>1 DEF Authority, WriterKnown
<1>4. Kept'
  BY <1>1, <1>2 DEF Authority, Kept, Exists
<1>5. Capturing'
  BY <1>1, <1>2, ErasureAssumption DEF Authority, Capturing, Exists, Bound
<1>6. Uncaptured' /\ Journaled'
  BY <1>1, <1>2, ErasureAssumption DEF Authority, Uncaptured, Journaled
<1>7. WriterKnown' /\ WriterComplete'
  BY <1>1, <1>2, <1>3 DEF Authority, WriterKnown, WriterComplete, Exists, Writes
<1>8. ToolSeen'
  BY <1>1, <1>2 DEF Authority, ToolSeen, Drained, Exists
<1>9. ASSUME NEW e \in Names, NEW u \in Users, erasing'[e][u] # NoCall
      PROVE  CallStands(e, u)'
  <2>1. CallStands(e, u)
    BY <1>1, <1>9 DEF Authority, Calls
  <2>2. e # d
    BY <1>1, <2>1, BoundExists DEF CallStands
  <2> QED
    BY <1>1, <1>2, <2>1, <2>2 DEF CallStands, Bound, Writes
<1> QED
  BY <1>4, <1>5, <1>6, <1>7, <1>8, <1>9 DEF Authority, Calls

(* A step of the tool begins with the journal as it is. *)
LEMMA BeginToolKeeps ==
  ASSUME ErasureTypeOK, Authority, NEW d \in Names, NEW op \in Ops, BeginTool(d, op)
  PROVE  Authority'
<1>1. SameRows /\ UNCHANGED <<journal, database, snapshot, erasing, deleted>>
  BY DEF BeginTool, SameRows
<1>2. Calls'
  BY <1>1 DEF Authority, Calls, CallStands, Bound, Writes
<1>3. ToolSeen'
  <2> SUFFICES ASSUME NEW e \in Names, tool'[e] # NoTool
               PROVE  LET read == tool'[e].seen IN
                      /\ Drained(e) /\ Exists(e)
                      /\ read.revision <= journal.revision
                      /\ read.revision = journal.revision => read = journal
                      /\ journal.revision # 0 /\ journal.database = e =>
                           read.revision # 0 /\ read.database = e
    BY <1>1 DEF ToolSeen, Drained, Exists
  <2>1. CASE e = d
    <3>1. tool'[e].seen = journal
      BY <2>1 DEF BeginTool, ErasureTypeOK
    <3>2. journal.revision <= journal.revision
      BY DEF ErasureTypeOK, Journal
    <3> QED
      BY <2>1, <3>1, <3>2 DEF BeginTool
  <2>2. CASE e # d
    BY <2>2 DEF BeginTool, ErasureTypeOK, Authority, ToolSeen
  <2> QED
    BY <2>1, <2>2
<1> QED
  BY <1>1, <1>2, <1>3, RowsFrame DEF Authority, BeginTool

(* An erasure begins in the database that writes, or before there is a journal. *)
LEMMA BeginErasureKeeps ==
  ASSUME ErasureTypeOK, Authority, NEW d \in Names, NEW u \in Users, BeginErasure(d, u)
  PROVE  Authority'
<1>1. SameRows /\ UNCHANGED <<journal, database, snapshot, tool, deleted>>
  BY DEF BeginErasure, SameRows
<1>2. \A e \in Names, v \in Users : <<e, v>> # <<d, u>> => erasing'[e][v] = erasing[e][v]
  BY DEF BeginErasure, ErasureTypeOK
<1>3. ToolSeen'
  BY <1>1, <1>2 DEF Authority, ToolSeen, BeginErasure, Drained, Exists
<1>4. CallStands(d, u)'
  <2>1. CASE ~database[d].captured
    <3>1. erasing'[d][u] = [erasing[d][u] EXCEPT !.step = "recorded"]
      <4>1. erasing' = [erasing EXCEPT ![d][u].step = "recorded"]
        BY <2>1 DEF BeginErasure
      <4>2. d \in DOMAIN erasing /\ u \in DOMAIN erasing[d]
        BY DEF ErasureTypeOK
      <4> QED
        BY <4>1, <4>2
    <3>2. erasing'[d][u].step = "recorded"
      BY <3>1 DEF ErasureTypeOK
    <3> QED
      BY <1>1, <2>1, <3>2 DEF CallStands, BeginErasure, Bound
  <2>2. CASE database[d].captured /\ u \in journal.entries
    <3>1. erasing'[d][u] = [step |-> "recorded", seen |-> 0]
      BY <2>2 DEF BeginErasure, ErasureTypeOK
    <3> QED
      BY <1>1, <2>2, <3>1 DEF CallStands, BeginErasure, Bound, Writes
  <2>3. CASE database[d].captured /\ u \notin journal.entries
    <3>1. erasing'[d][u] = [step |-> "read", seen |-> journal.revision]
      BY <2>3 DEF BeginErasure, ErasureTypeOK
    <3>2. journal.revision <= journal.revision
      BY DEF ErasureTypeOK, Journal
    <3> QED
      BY <1>1, <2>3, <3>1, <3>2 DEF CallStands, BeginErasure, Bound, Writes
  <2> QED
    BY <2>1, <2>2, <2>3
<1>5. ASSUME NEW e \in Names, NEW v \in Users, erasing'[e][v] # NoCall
      PROVE  CallStands(e, v)'
  <2>1. CASE <<e, v>> = <<d, u>>
    BY <1>4, <2>1
  <2>2. CASE <<e, v>> # <<d, u>>
    BY <1>1, <1>2, <1>5, <2>2 DEF Authority, Calls, CallStands, Bound, Writes
  <2> QED
    BY <2>1, <2>2
<1> QED
  BY <1>1, <1>3, <1>5, RowsFrame DEF Authority, Calls

(* A new revision of the journal by the same writer, with more entries *)
LEMMA RecordErasureKeeps ==
  ASSUME ErasureTypeOK, Authority, NEW d \in Names, NEW u \in Users, RecordErasure(d, u)
  PROVE  Authority'
<1>1. /\ journal \in Journal /\ journal.revision \in Nat
      /\ \A e \in Names : tool[e].seen.revision \in Nat
      /\ \A e \in Names, v \in Users : erasing[e][v].seen \in Nat
  BY ErasureAssumption DEF ErasureTypeOK, Journal
<1>2. /\ journal'.revision = journal.revision + 1 /\ journal'.writer = journal.writer
      /\ journal'.database = journal.database /\ journal'.fenced = journal.fenced
      /\ journal'.entries = journal.entries \cup {u}
      /\ UNCHANGED <<database, snapshot, tool, replaying, deleted>>
  BY <1>1 DEF RecordErasure, Journal
<1>3. /\ \A e \in Names, v \in Users : <<e, v>> # <<d, u>> => erasing'[e][v] = erasing[e][v]
      /\ erasing'[d][u] = [step |-> "recorded", seen |-> 0]
  BY DEF RecordErasure, ErasureTypeOK
<1>4. erasing[d][u] # NoCall /\ CallStands(d, u) /\ Writes(journal, d) /\ database[d].captured
  BY DEF RecordErasure, Authority, Calls, CallStands, NoCall
<1>5. \A e \in Names : Writes(journal, e)' <=> Writes(journal, e)
  BY <1>1, <1>2, <1>4 DEF Writes
<1>6. Kept' /\ Capturing'
  BY <1>2 DEF Authority, Kept, Capturing, Exists, Bound
<1>7. Uncaptured' /\ Journaled'
  BY <1>1, <1>2, <1>4 DEF Authority, Uncaptured, Journaled, Capturing, Writes
<1>8. WriterKnown' /\ WriterComplete'
  BY <1>1, <1>2, <1>4, <1>5 DEF Authority, WriterKnown, WriterComplete, Exists, Writes
<1>9. ToolSeen'
  <2> SUFFICES ASSUME NEW e \in Names, tool[e] # NoTool
               PROVE  LET read == tool[e].seen IN
                      /\ Drained(e)' /\ Exists(e)
                      /\ read.revision <= journal'.revision
                      /\ read.revision # journal'.revision
                      /\ journal.database = e => read.revision # 0 /\ read.database = e
    BY <1>2 DEF ToolSeen, Exists
  <2>1. e # d
    BY <1>4 DEF Authority, ToolSeen, Drained
  <2> QED
    BY <1>1, <1>2, <1>3, <1>4, <2>1 DEF Authority, ToolSeen, Drained, Writes
<1>10. ASSUME NEW e \in Names, NEW v \in Users, erasing'[e][v] # NoCall
       PROVE  CallStands(e, v)'
  <2>1. CASE <<e, v>> = <<d, u>>
    BY <1>2, <1>3, <1>4, <1>5, <2>1 DEF CallStands, Bound
  <2>2. CASE <<e, v>> # <<d, u>>
    <3>1. erasing'[e][v] = erasing[e][v] /\ CallStands(e, v)
      BY <1>3, <1>10, <2>2 DEF Authority, Calls
    <3> QED
      BY <1>1, <1>2, <1>5, <3>1 DEF CallStands, Bound
  <2> QED
    BY <2>1, <2>2
<1> QED
  BY <1>6, <1>7, <1>8, <1>9, <1>10 DEF Authority, Calls

(* An account is closed in the database that wrote it, or, before there is *)
(* a journal, in the first one.                                            *)
LEMMA CommitErasureKeeps ==
  ASSUME ErasureTypeOK, Authority, NEW d \in Names, NEW u \in Users, CommitErasure(d, u)
  PROVE  Authority'
<1>1. /\ UNCHANGED <<journal, snapshot, tool, replaying>>
      /\ deleted' = deleted \cup {u} /\ SameRows
      /\ database'[d].closed = database[d].closed \cup {u}
      /\ \A e \in Names : e # d => database'[e] = database[e]
  BY DEF CommitErasure, ErasureTypeOK, SameRows, Control
<1>2. erasing[d][u] # NoCall /\ CallStands(d, u) /\ Exists(d)
  BY BoundExists DEF CommitErasure, Authority, Calls, CallStands, NoCall
<1>3. database[d].captured => Writes(journal, d) /\ u \in journal.entries
  BY <1>2 DEF CallStands, CommitErasure
<1>4. ~database[d].captured => d = 1
  BY <1>2 DEF Authority, Capturing, CallStands
<1>5. Kept' /\ Capturing'
  <2>1. Kept /\ Capturing /\ 1 \in Names
    BY ErasureAssumption DEF Authority
  <2>2. \A e \in Names : /\ Exists(e)' <=> Exists(e)
                         /\ Bound(e)' <=> Bound(e)
                         /\ database'[e].captured = database[e].captured
    BY <1>1 DEF SameRows, Exists, Bound
  <2>3. \A e \in Names : ~Exists(e)' => database'[e] = Absent
    BY <1>1, <1>2, <2>1, <2>2 DEF Kept
  <2>4. Kept'
    BY <1>1, <2>1, <2>2, <2>3 DEF Kept
  <2>5. Capturing'
    BY <1>1, <2>1, <2>2 DEF Capturing
  <2> QED
    BY <2>4, <2>5
<1>6. Uncaptured' /\ Journaled'
  BY <1>1, <1>3, <1>4, ErasureAssumption
     DEF Authority, Uncaptured, Journaled, Capturing, SameRows
<1>7. WriterKnown'
  BY <1>1 DEF Authority, WriterKnown, SameRows, Exists
<1>8. WriterComplete'
  BY <1>1, <1>3, <1>4, ErasureAssumption
     DEF Authority, WriterComplete, Capturing, SameRows, Writes
<1>9. ToolSeen' /\ Calls'
  BY <1>1, EndingsFrame DEF CommitErasure, ErasureTypeOK
<1> QED
  BY <1>5, <1>6, <1>7, <1>8, <1>9 DEF Authority

(* A replay closes accounts of a database that does not write. *)
LEMMA ReplayErasureKeeps ==
  ASSUME ErasureTypeOK, Authority, NEW d \in Names, NEW u \in Users, ReplayErasure(d, u)
  PROVE  Authority'
<1> DEFINE control == [database[d] EXCEPT !.closed = @ \cup {u}]
<1>1. /\ control \in Control
      /\ control.id = database[d].id /\ control.name = database[d].name
      /\ control.captured = database[d].captured /\ database[d].closed \subseteq control.closed
  BY DEF ErasureTypeOK, Control
<1>2. Exists(d)
  BY BoundExists DEF ReplayErasure
<1>3. database' = [database EXCEPT ![d] = control]
  BY DEF ReplayErasure
<1> HIDE DEF control
<1> QED
  BY <1>1, <1>2, <1>3, RowReplaced DEF ReplayErasure

-----------------------------------------------------------------------------

(* What a step of the tool read is the journal it writes over. *)
LEMMA SeenIsJournal ==
  ASSUME Authority, NEW d \in Names, tool[d] # NoTool,
         journal.revision = tool[d].seen.revision
  PROVE  tool[d].seen = journal
BY DEF Authority, ToolSeen

(* A step of the tool has the database for itself. *)
LEMMA ToolAlone ==
  ASSUME Authority, NEW d \in Names, tool[d] # NoTool
  PROVE  Drained(d) /\ Exists(d)
BY DEF Authority, ToolSeen

(* A replay begins with the mode of its target, only. *)
LEMMA StartReplayKeeps ==
  ASSUME ErasureTypeOK, Authority, NEW d \in Names, StartReplay(d) PROVE Authority'
<1> DEFINE control == [database[d] EXCEPT !.mode = "isolated", !.replayRevision = 0,
                                          !.replayed = {}]
<1>1. /\ control \in Control
      /\ control.id = database[d].id /\ control.name = database[d].name
      /\ control.captured = database[d].captured /\ database[d].closed \subseteq control.closed
  <2>1. 0 \in 0 .. MaxRevision
    BY ErasureAssumption
  <2> QED
    BY <2>1 DEF ErasureTypeOK, Control
<1>2. Exists(d)
  BY BoundExists DEF StartReplay, Replaying
<1>3. database' = [database EXCEPT ![d] = control]
  BY DEF StartReplay, ErasureTypeOK, Control
<1> HIDE DEF control
<1> QED
  BY <1>1, <1>2, <1>3, RowReplaced DEF StartReplay

(* A control row with another mode closes the step of the tool. *)
LEMMA CommitKeeps ==
  ASSUME ErasureTypeOK, Authority, NEW d \in Names, tool[d] # NoTool, NEW control \in Control,
         Commit(d, control), tool' = [tool EXCEPT ![d] = NoTool],
         UNCHANGED <<snapshot, erasing, deleted>>,
         control.id = database[d].id, control.name = database[d].name,
         control.captured = database[d].captured, control.closed = database[d].closed
  PROVE  Authority'
<1>1. \A e \in Names : tool'[e] = tool[e] \/ tool'[e] = NoTool
  BY DEF ErasureTypeOK
<1> QED
  BY <1>1, ToolAlone, RowReplaced DEF Commit

(* It ends with the mode and the revision that was replayed. *)
LEMMA FinishReplayKeeps ==
  ASSUME ErasureTypeOK, Authority, NEW d \in Names, FinishReplay(d) PROVE Authority'
<1> DEFINE control == [database[d] EXCEPT !.mode = "ready",
                         !.replayRevision = tool[d].seen.revision,
                         !.replayed = tool[d].seen.entries]
<1>1. /\ control \in Control
      /\ control.id = database[d].id /\ control.name = database[d].name
      /\ control.captured = database[d].captured /\ control.closed = database[d].closed
  BY DEF ErasureTypeOK, Control, Journal
<1>2. Commit(d, control) /\ tool[d] # NoTool
  BY DEF FinishReplay, NoTool
<1> HIDE DEF control
<1> QED
  BY <1>1, <1>2, CommitKeeps DEF FinishReplay

(* A prepared copy gets an identity of its own, and is not the database    *)
(* the journal names.                                                      *)
LEMMA PrepareKeeps ==
  ASSUME ErasureTypeOK, Authority, NEW d \in Names, NEW i \in Names, Prepare(d, i)
  PROVE  Authority'
<1>1. /\ database'[d].id = i /\ database'[d].name = d
      /\ database'[d].captured = database[d].captured /\ database'[d].closed = database[d].closed
      /\ \A e \in Names : e # d => database'[e] = database[e]
      /\ i # 0 /\ database[d].captured
  BY DEF Prepare, Commit, ErasureTypeOK, Control, Fresh
<1>2. /\ UNCHANGED <<journal, snapshot, erasing, replaying, deleted>>
      /\ tool'[d] = NoTool /\ \A e \in Names : e # d => tool'[e] = tool[e]
      /\ tool[d] # NoTool
  BY DEF Prepare, Commit, Close, ErasureTypeOK, NoTool
<1>3. Drained(d) /\ Exists(d)
  BY <1>2, ToolAlone
<1>4. journal.revision # 0 => journal.database # d
  BY <1>2 DEF Prepare, Authority, ToolSeen
<1>5. Kept'
  BY <1>1, <1>2, <1>3, ErasureAssumption DEF Authority, Kept, Exists
<1>6. Capturing'
  BY <1>1, <1>2, <1>3, ErasureAssumption DEF Authority, Capturing, Exists, Bound
<1>7. Uncaptured' /\ Journaled'
  BY <1>1, <1>2, ErasureAssumption DEF Authority, Uncaptured, Journaled
<1>8. WriterKnown' /\ WriterComplete'
  BY <1>1, <1>2, <1>4 DEF Authority, WriterKnown, WriterComplete, Exists, Writes
<1>9. ToolSeen'
  BY <1>1, <1>2 DEF Authority, ToolSeen, Drained, Exists
<1>10. ASSUME NEW e \in Names, NEW u \in Users, erasing'[e][u] # NoCall
       PROVE  CallStands(e, u)'
  <2>1. e # d /\ CallStands(e, u)
    BY <1>2, <1>3, <1>10 DEF Authority, Calls, Drained
  <2> QED
    BY <1>1, <1>2, <2>1 DEF CallStands, Bound, Writes
<1> QED
  BY <1>5, <1>6, <1>7, <1>8, <1>9, <1>10 DEF Authority, Calls

(* A write of the tool makes its database the one the journal names, and   *)
(* overtakes whatever was read before.  No other database may have been    *)
(* writing.                                                                *)
LEMMA WriteTakesOver ==
  ASSUME ErasureTypeOK, Authority, NEW d \in Names, tool[d] # NoTool, Close(d),
         journal'.revision = journal.revision + 1, journal'.database = d,
         journal'.writer = database[d].id,
         \A e \in Names : database'[e].id = database[e].id /\ database'[e].name = database[e].name,
         \A e \in Names : e # d => database'[e] = database[e],
         \A e \in Names : e # d => ~Writes(journal, e)
  PROVE  Kept' /\ WriterKnown' /\ ToolSeen' /\ Calls'
<1>1. /\ journal.revision \in Nat
      /\ \A e \in Names : tool[e].seen.revision \in Nat
      /\ \A e \in Names, v \in Users : erasing[e][v].seen \in Nat
  BY ErasureAssumption DEF ErasureTypeOK, Journal
<1>2. /\ UNCHANGED <<snapshot, erasing>> /\ Drained(d) /\ Exists(d)
      /\ tool'[d] = NoTool /\ \A e \in Names : e # d => tool'[e] = tool[e]
  BY ToolAlone DEF Close, ErasureTypeOK
<1>3. Kept'
  <2>1. Kept
    BY DEF Authority
  <2>2. \A e \in Names : Exists(e)' <=> Exists(e)
    BY DEF Exists
  <2>3. \A e \in Names : ~Exists(e)' => database'[e] = Absent
    BY <1>2, <2>1, <2>2 DEF Kept
  <2>4. Exists(1)'
    BY <2>1, <2>2, ErasureAssumption DEF Kept
  <2> QED
    BY <1>2, <2>1, <2>2, <2>3, <2>4 DEF Kept
<1>4. WriterKnown'
  BY <1>2 DEF WriterKnown, Exists
<1>5. ToolSeen'
  BY <1>1, <1>2 DEF Authority, ToolSeen, Drained, Exists
<1>6. ASSUME NEW e \in Names, NEW u \in Users, erasing'[e][u] # NoCall
      PROVE  CallStands(e, u)'
  <2>1. e # d /\ CallStands(e, u) /\ ~Writes(journal, e)
    BY <1>2, <1>6 DEF Authority, Calls, Drained
  <2> QED
    BY <1>1, <1>2, <2>1 DEF CallStands, Bound
<1> QED
  BY <1>3, <1>4, <1>5, <1>6 DEF Calls

(* The journal begins with what the first database has closed, or goes on. *)
LEMMA InitializeKeeps ==
  ASSUME ErasureTypeOK, Authority, NEW d \in Names, Initialize(d) PROVE Authority'
<1>1. tool[d] # NoTool /\ Close(d) /\ Bound(d) /\ journal.revision = tool[d].seen.revision
  BY DEF Initialize, Write, NoTool
<1>2. tool[d].seen = journal /\ Drained(d) /\ Exists(d)
  BY <1>1, SeenIsJournal, ToolAlone
<1>3. /\ journal \in Journal /\ journal.revision \in Nat
  BY ErasureAssumption DEF ErasureTypeOK, Journal
<1>4. /\ journal'.revision = journal.revision + 1 /\ journal'.writer = database[d].id
      /\ journal'.database = d /\ journal'.fenced = journal.fenced
      /\ journal'.entries = journal.entries \cup database[d].closed
  BY <1>2, <1>3 DEF Initialize, Write, Journal
<1>5. /\ \A e \in Names : database'[e].id = database[e].id /\ database'[e].name = database[e].name
                          /\ database'[e].closed = database[e].closed
      /\ \A e \in Names : e # d => database'[e] = database[e]
      /\ database'[d].captured = database[d].captured \/ database'[d].captured = TRUE
      /\ UNCHANGED <<snapshot, erasing, deleted>>
  <2>1. \/ database' = database
        \/ database' = [database EXCEPT ![d] = [database[d] EXCEPT !.captured = TRUE]]
    BY DEF Initialize, Write
  <2>2. CASE database' = database
    BY <1>1, <2>2 DEF Close
  <2>3. CASE database' = [database EXCEPT ![d] = [database[d] EXCEPT !.captured = TRUE]]
    <3>1. database[d] \in Control /\ database \in [Names -> Control]
      BY DEF ErasureTypeOK
    <3>2. /\ database'[d] = [database[d] EXCEPT !.captured = TRUE]
          /\ \A e \in Names : e # d => database'[e] = database[e]
      BY <2>3, <3>1
    <3>3. /\ database'[d].id = database[d].id /\ database'[d].name = database[d].name
          /\ database'[d].closed = database[d].closed /\ database'[d].captured = TRUE
      BY <3>1, <3>2 DEF Control
    <3> QED
      BY <1>1, <3>2, <3>3 DEF Close
  <2> QED
    BY <2>1, <2>2, <2>3
<1>6. \/ journal.revision = 0 /\ journal = NoJournal /\ ~database[d].captured
      \/ journal.revision # 0 /\ Writes(journal, d)
  BY <1>2 DEF Initialize, Authority, Journaled
<1>7. ~database[d].captured => d = 1
  BY <1>1, <1>2 DEF Authority, Capturing
<1>8. \A e \in Names : e # d => ~Writes(journal, e)
  BY <1>6 DEF Writes
<1>9. ~journal.fenced
  BY <1>6 DEF Writes, NoJournal
<1>10. deleted \subseteq journal'.entries /\ deleted \subseteq database[d].closed
  BY <1>4, <1>6, <1>7 DEF Authority, Capturing, Uncaptured, Journaled, WriterComplete
<1>11. Kept' /\ WriterKnown' /\ ToolSeen' /\ Calls'
  BY <1>1, <1>4, <1>5, <1>8, WriteTakesOver
<1>12. Capturing'
  BY <1>5, <1>7, ErasureAssumption DEF Authority, Capturing, Exists, Bound
<1>13. Uncaptured' /\ Journaled'
  BY <1>3, <1>4, <1>5, <1>7, <1>9, <1>10, ErasureAssumption
     DEF Authority, Capturing, Uncaptured, Journaled
<1>14. WriterComplete'
  BY <1>4, <1>5, <1>10 DEF WriterComplete, Writes
<1> QED
  BY <1>11, <1>12, <1>13, <1>14 DEF Authority

(* A fenced journal has no writer. *)
LEMMA FenceKeeps ==
  ASSUME ErasureTypeOK, Authority, NEW d \in Names, Fence(d) PROVE Authority'
<1> DEFINE fenced == [database[d] EXCEPT !.mode = "fenced"]
<1>1. /\ fenced \in Control
      /\ fenced.id = database[d].id /\ fenced.name = database[d].name
      /\ fenced.captured = database[d].captured /\ fenced.closed = database[d].closed
  BY DEF ErasureTypeOK, Control
<1>2. tool[d] # NoTool /\ Close(d) /\ database[d].captured
  BY DEF Fence, NoTool
<1>3. CASE tool[d].seen.fenced
  <2>1. Commit(d, fenced)
    BY <1>3 DEF Fence
  <2> HIDE DEF fenced
  <2> QED
    BY <1>1, <1>2, <2>1, CommitKeeps DEF Close
<1>4. CASE ~tool[d].seen.fenced
  <2>1. Write(d, [tool[d].seen EXCEPT !.fenced = TRUE], fenced)
    BY <1>4 DEF Fence
  <2>2. tool[d].seen = journal /\ journal \in Journal /\ journal.revision \in Nat
    BY <1>2, <2>1, SeenIsJournal, ErasureAssumption DEF Write, ErasureTypeOK, Journal
  <2>3. /\ journal'.revision = journal.revision + 1 /\ journal'.writer = database[d].id
        /\ journal'.database = d /\ journal'.fenced /\ journal'.entries = journal.entries
        /\ journal.database = d /\ journal.revision # 0
    BY <2>1, <2>2 DEF Write, Journal, Fence
  <2>4. /\ SameRows /\ \A e \in Names : e # d => database'[e] = database[e]
        /\ UNCHANGED <<snapshot, erasing, deleted>>
    BY <1>1, <1>2, <2>1 DEF Write, Close, ErasureTypeOK, SameRows
  <2>5. Kept' /\ WriterKnown' /\ ToolSeen' /\ Calls'
    BY <1>2, <2>3, <2>4, WriteTakesOver DEF Writes, SameRows
  <2>6. Capturing'
    BY <2>4, ErasureAssumption DEF Authority, Capturing, SameRows, Exists, Bound
  <2>7. Uncaptured' /\ Journaled'
    BY <1>2, <2>2, <2>3, <2>4, ErasureAssumption
       DEF Authority, Capturing, Uncaptured, Journaled, SameRows
  <2>8. WriterComplete'
    BY <2>3 DEF WriterComplete, Writes
  <2> QED
    BY <2>5, <2>6, <2>7, <2>8 DEF Authority
<1> QED
  BY <1>3, <1>4

(* The journal is handed over to a database that has closed all of it. *)
LEMMA PromoteKeeps ==
  ASSUME ErasureTypeOK, Authority, NEW d \in Names, Promote(d) PROVE Authority'
<1> DEFINE active == [database[d] EXCEPT !.mode = "active"]
           read == tool[d].seen
<1>1. /\ active \in Control
      /\ active.id = database[d].id /\ active.name = database[d].name
      /\ active.captured = database[d].captured /\ active.closed = database[d].closed
  BY DEF ErasureTypeOK, Control
<1>2. tool[d] # NoTool /\ Close(d) /\ database[d].captured
  BY DEF Promote, NoTool
<1>3. CASE ~(read.fenced /\ read.revision = database[d].replayRevision)
  <2>1. Commit(d, active)
    BY <1>3 DEF Promote
  <2> HIDE DEF active
  <2> QED
    BY <1>1, <1>2, <2>1, CommitKeeps DEF Close
<1>4. CASE read.fenced /\ read.revision = database[d].replayRevision
  <2>1. Write(d, [read EXCEPT !.writer = database[d].id, !.database = d, !.fenced = FALSE], active)
    BY <1>4 DEF Promote
  <2>2. read = journal /\ journal \in Journal /\ journal.revision \in Nat
    BY <1>2, <2>1, SeenIsJournal, ErasureAssumption DEF Write, ErasureTypeOK, Journal
  <2>3. /\ journal'.revision = journal.revision + 1 /\ journal'.writer = database[d].id
        /\ journal'.database = d /\ journal'.entries = journal.entries /\ journal.fenced
        /\ journal.entries \subseteq database[d].closed
    BY <1>4, <2>1, <2>2 DEF Write, Journal, Promote
  <2>4. /\ SameRows /\ \A e \in Names : e # d => database'[e] = database[e]
        /\ database'[d].closed = database[d].closed
        /\ UNCHANGED <<snapshot, erasing, deleted>>
    BY <1>1, <1>2, <2>1 DEF Write, Close, ErasureTypeOK, SameRows
  <2>5. Kept' /\ WriterKnown' /\ ToolSeen' /\ Calls'
    BY <1>2, <2>3, <2>4, WriteTakesOver DEF Writes, SameRows
  <2>6. Capturing'
    BY <2>4, ErasureAssumption DEF Authority, Capturing, SameRows, Exists, Bound
  <2>7. Uncaptured' /\ Journaled' /\ deleted \subseteq database[d].closed
    BY <1>2, <2>2, <2>3, <2>4, ErasureAssumption
       DEF Authority, Capturing, Uncaptured, Journaled, SameRows
  <2>8. WriterComplete'
    BY <2>3, <2>4, <2>7 DEF WriterComplete, Writes
  <2> QED
    BY <2>5, <2>6, <2>7, <2>8 DEF Authority
<1> QED
  BY <1>3, <1>4

-----------------------------------------------------------------------------

(* The first database has the authority. *)
LEMMA AuthorityInit == ErasureInit => Authority
<1> SUFFICES ASSUME ErasureInit PROVE Authority
  OBVIOUS
<1>1. /\ database[1].id = 1 /\ database[1].name = 1 /\ database[1].captured = FALSE
      /\ \A d \in Names : d # 1 => database[d] = Absent
      /\ snapshot = Absent /\ journal = NoJournal /\ deleted = {}
      /\ \A d \in Names : database[d].captured = FALSE
  BY ErasureAssumption DEF ErasureInit, First, Absent
<1>2. \A d \in Names : tool[d] = NoTool /\ \A u \in Users : erasing[d][u] = NoCall
  BY DEF ErasureInit
<1> QED
  BY <1>1, <1>2, ErasureAssumption
     DEF Authority, Kept, Capturing, Uncaptured, Journaled, WriterKnown, WriterComplete, ToolSeen,
         Calls, Exists, Bound, Writes, Absent, NoJournal

(* Every step keeps it where the invariant says it is. *)
LEMMA AuthorityStep ==
  ASSUME ErasureTypeOK, Authority, [ErasureNext]_erasureVars PROVE Authority'
<1>1. CASE UNCHANGED erasureVars
  BY <1>1 DEF erasureVars, Authority, Kept, Capturing, Uncaptured, Journaled, WriterKnown,
     WriterComplete, ToolSeen, Calls, CallStands, Exists, Bound, Writes, Drained
<1>2. ASSUME NEW d \in Names, ErasureStep(d)
      PROVE  Authority'
  <2>1. CASE Backup(d) \/ Restore(d)
    BY <2>1, BackupKeeps, RestoreKeeps
  <2>2. ASSUME NEW u \in Users,
               BeginErasure(d, u) \/ RecordErasure(d, u) \/ CommitErasure(d, u)
                 \/ AbandonErasure(d, u) \/ ReplayErasure(d, u)
        PROVE  Authority'
    BY <2>2, BeginErasureKeeps, RecordErasureKeeps, CommitErasureKeeps, RestKeeps,
       ReplayErasureKeeps
  <2>3. ASSUME NEW op \in Ops, BeginTool(d, op)
        PROVE  Authority'
    BY <2>3, BeginToolKeeps
  <2>4. ASSUME NEW i \in Names, Prepare(d, i)
        PROVE  Authority'
    BY <2>4, PrepareKeeps
  <2>5. CASE AbandonTool(d) \/ AbandonReplay(d)
    BY <2>5, RestKeeps
  <2>6. CASE Initialize(d) \/ Fence(d) \/ StartReplay(d) \/ FinishReplay(d) \/ Promote(d)
    BY <2>6, InitializeKeeps, FenceKeeps, StartReplayKeeps, FinishReplayKeeps, PromoteKeeps
  <2> QED
    BY <1>2, <2>1, <2>2, <2>3, <2>4, <2>5, <2>6 DEF ErasureStep
<1> QED
  BY <1>1, <1>2 DEF ErasureNext

(* With a journal the one that may serve is the one it names; without one  *)
(* it is the first database.                                               *)
LEMMA AuthorityIsSafe == ASSUME ErasureTypeOK, Authority PROVE ErasureSafe
<1>1. ASSUME NEW d \in Names, MayServe(d)
      PROVE  /\ deleted \subseteq database[d].closed
             /\ database[d].captured => Writes(journal, d) /\ database[1].captured
             /\ ~database[d].captured => d = 1
  BY <1>1, BoundExists DEF MayServe, Authority, Capturing, Uncaptured, WriterComplete
<1>2. OneAuthority
  BY <1>1 DEF OneAuthority, Writes
<1> QED
  BY <1>1, <1>2 DEF ErasureSafe, DeletedStaysDeleted

(* Whatever is backed up, restored, prepared and promoted, and wherever an *)
(* erasure or the tool dies or loses an answer, one database serves at a   *)
(* time, and no account deleted anywhere is open in it                     *)
(* (assertErasureRuntime).                                                 *)
THEOREM DeletionSurvivesRestore == ErasureSpec => []ErasureSafe
<1>1. ErasureTypeOK /\ Authority /\ [ErasureNext]_erasureVars => (ErasureTypeOK /\ Authority)'
  BY TypeStep, AuthorityStep
<1>2. ErasureTypeOK /\ Authority => ErasureSafe
  BY AuthorityIsSafe
<1> QED
  BY TypeInit, AuthorityInit, <1>1, <1>2, PTL DEF ErasureSpec

-----------------------------------------------------------------------------

(* The sign-ins and refreshes under way are well typed. *)
LoginRows == [step : {"idle", "sent", "answered"}, pin : Nat, own : BOOLEAN, fresh : BOOLEAN,
              token : Tokens \cup {NoToken}]
CallRows == [step : {"idle", "sent", "rotated", "denied"}, token : Tokens \cup {NoToken}]
PhoneType ==
  /\ login \in [Phones -> LoginRows] /\ call \in [Phones -> CallRows]
  /\ logouts \in SUBSET Tokens

(* A session was opened with a credential and has few rotations. *)
Rotations == \A s \in DOMAIN opened : Len(opened[s].credentials) \in 1 .. MaxRotations

(* Whatever a phone holds or is sent was issued by the server. *)
Issued(t) ==
  t.session \in DOMAIN opened /\ t.number \in 1 .. Len(opened[t.session].credentials)
TokensIssued ==
  /\ \A p \in Phones :
       /\ store[p] # NoToken => Issued(store[p])
       /\ login[p].token # NoToken => Issued(login[p].token)
       /\ call[p].step # "idle" => Issued(call[p].token)
  /\ \A t \in logouts : Issued(t)

(* A credential that will never be accepted again *)
Dead(t) ==
  \/ ~opened[t.session].live \/ Consumed(t)
  \/ opened[t.session].expires <= hour \/ opened[t.session].credentials[t.number] <= hour

(* An answer says what is still so when it is read: a rotated credential   *)
(* is consumed, a denied one is dead, though PIN and account change.       *)
AnswersStand == \A p \in Phones :
  /\ call[p].step = "rotated" => Consumed(call[p].token)
  /\ call[p].step = "denied" => Dead(call[p].token)

(* A sign-in that may still be stored belongs to a driver who wants it. *)
FreshIsWanted == \A p \in Phones : login[p].fresh /\ login[p].step # "idle" => wants[p]

SessionsInv ==
  /\ SessionsTypeOK /\ PhoneType /\ Rotations /\ TokensIssued /\ AnswersStand
  /\ FreshIsWanted /\ LiveIsCurrent /\ SignedOutStaysOut

-----------------------------------------------------------------------------
(* Every bound is a natural number. *)
LEMMA Bounds ==
  /\ LastHour \in Nat /\ MaxSessions \in Nat /\ MaxOrders \in Nat /\ DeviceTtl \in Nat
  /\ ShiftTtl \in Nat /\ TemporaryTtl \in Nat /\ LockTime \in Nat /\ MaxFailures \in Nat
  /\ MaxRotations \in Nat /\ MaxRotations >= 1
BY SessionsAssumption

(* What every row of the server has *)
LEMMA SessionFields ==
  ASSUME SessionsTypeOK
  PROVE  /\ Len(opened) \in Nat /\ DOMAIN opened = 1 .. Len(opened)
         /\ \A s \in DOMAIN opened :
              /\ opened[s] \in Session
              /\ opened[s].credentials \in Seq(Nat) /\ opened[s].expires \in Nat
              /\ Len(opened[s].credentials) \in Nat
              /\ DOMAIN opened[s].credentials = 1 .. Len(opened[s].credentials)
<1>1. opened \in Seq(Session)
  BY DEF SessionsTypeOK
<1>2. Len(opened) \in Nat /\ DOMAIN opened = 1 .. Len(opened)
  BY <1>1, LenProperties
<1>3. ASSUME NEW s \in DOMAIN opened
      PROVE  /\ opened[s] \in Session
             /\ opened[s].credentials \in Seq(Nat) /\ opened[s].expires \in Nat
  <2>1. opened[s] \in Session
    BY <1>1, <1>2, ElementOfSeq
  <2> QED
    BY <2>1 DEF Session
<1> QED
  BY <1>2, <1>3, LenProperties

(* Sessions only end, get further credentials, or live longer while they   *)
(* live.                                                                   *)
Forward ==
  /\ hour' \in 0 .. LastHour /\ hour <= hour'
  /\ opened' \in Seq(Session) /\ Len(opened') <= MaxSessions
  /\ DOMAIN opened \subseteq DOMAIN opened'
  /\ \A s \in DOMAIN opened' : Len(opened'[s].credentials) \in 1 .. MaxRotations
  /\ \A s \in DOMAIN opened :
       /\ Len(opened[s].credentials) <= Len(opened'[s].credentials)
       /\ \A n \in 1 .. Len(opened[s].credentials) :
            opened'[s].credentials[n] = opened[s].credentials[n]
       /\ opened'[s].live => opened[s].live
       /\ opened'[s].expires <= opened[s].expires \/ hour < opened[s].expires

(* Issued and Dead, of what a phone has after a step *)
IssuedThen(t) ==
  t.session \in DOMAIN opened' /\ t.number \in 1 .. Len(opened'[t.session].credentials)
ConsumedThen(t) == t.number < Len(opened'[t.session].credentials)
DeadThen(t) ==
  \/ ~opened'[t.session].live \/ ConsumedThen(t)
  \/ opened'[t.session].expires <= hour' \/ opened'[t.session].credentials[t.number] <= hour'

(* So what was issued stays issued, and what is dead stays dead. *)
LEMMA IssuedStays ==
  ASSUME SessionsTypeOK, Rotations, Forward, NEW t \in Tokens \cup {NoToken}, Issued(t)
  PROVE  /\ IssuedThen(t) /\ (Consumed(t) => ConsumedThen(t))
         /\ (Dead(t) => DeadThen(t))
<1> DEFINE s == t.session
<1>1. /\ s \in DOMAIN opened /\ t.number \in 1 .. Len(opened[s].credentials)
      /\ s \in DOMAIN opened'
  BY DEF Issued, Forward
<1>2. /\ opened[s].credentials \in Seq(Nat) /\ opened[s].expires \in Nat
      /\ Len(opened[s].credentials) \in Nat
  BY <1>1, SessionFields
<1>3. opened'[s].credentials \in Seq(Nat) /\ opened'[s].expires \in Nat
  <2>1. opened' \in Seq(Session) /\ DOMAIN opened' = 1 .. Len(opened')
    BY LenProperties DEF Forward
  <2>2. opened'[s] \in Session
    BY <1>1, <2>1, ElementOfSeq
  <2> QED
    BY <2>2 DEF Session
<1>4. Len(opened'[s].credentials) \in Nat /\ t.number \in Nat
  BY <1>1, <1>3, LenProperties
<1>5. opened[s].credentials[t.number] \in Nat
  BY <1>1, <1>2, ElementOfSeq
<1>6. hour \in Nat /\ hour' \in Nat /\ hour <= hour'
  BY SessionsAssumption DEF SessionsTypeOK, Forward
<1>7. /\ Len(opened[s].credentials) <= Len(opened'[s].credentials)
      /\ opened'[s].credentials[t.number] = opened[s].credentials[t.number]
      /\ opened'[s].live => opened[s].live
      /\ opened'[s].expires <= opened[s].expires \/ hour < opened[s].expires
  BY <1>1 DEF Forward
<1> HIDE DEF s
<1>8. t.number \in 1 .. Len(opened'[s].credentials)
  BY <1>1, <1>2, <1>4, <1>7
<1>9. Consumed(t) => t.number < Len(opened'[s].credentials)
  BY <1>1, <1>2, <1>4, <1>7 DEF Consumed, s
<1>10. Dead(t) => \/ ~opened'[s].live \/ t.number < Len(opened'[s].credentials)
                  \/ opened'[s].expires <= hour' \/ opened'[s].credentials[t.number] <= hour'
  <2>1. CASE Consumed(t)
    BY <1>9, <2>1
  <2>2. CASE ~opened[s].live
    BY <1>7, <2>2
  <2>3. CASE opened[s].expires <= hour
    BY <1>2, <1>3, <1>6, <1>7, <2>3
  <2>4. CASE opened[s].credentials[t.number] <= hour
    BY <1>5, <1>6, <1>7, <2>4
  <2> QED
    BY <2>1, <2>2, <2>3, <2>4 DEF Dead, s
<1> QED
  BY <1>1, <1>8, <1>9, <1>10 DEF s, IssuedThen, ConsumedThen, DeadThen

-----------------------------------------------------------------------------
(* What the server does to its rows                                        *)

(* Nothing *)
LEMMA RowsRest ==
  ASSUME SessionsTypeOK, Rotations, UNCHANGED <<hour, opened>>
  PROVE  Forward
<1>1. hour <= hour /\ \A s \in DOMAIN opened :
        Len(opened[s].credentials) <= Len(opened[s].credentials)
        /\ opened[s].expires <= opened[s].expires
  BY SessionFields, Bounds DEF SessionsTypeOK
<1> QED
  BY <1>1 DEF SessionsTypeOK, Rotations, Forward

(* Ending them all *)
LEMMA EndAllForward ==
  ASSUME SessionsTypeOK, Rotations, hour' = hour, opened' = EndAll
  PROVE  /\ Forward /\ DOMAIN opened' = DOMAIN opened
         /\ \A s \in DOMAIN opened' : ~opened'[s].live
<1>1. /\ DOMAIN opened' = DOMAIN opened
      /\ \A s \in DOMAIN opened' : opened'[s] = [opened[s] EXCEPT !.live = FALSE]
  BY DEF EndAll
<1>2. \A s \in DOMAIN opened :
        /\ opened'[s] \in Session /\ ~opened'[s].live
        /\ opened'[s].credentials = opened[s].credentials
        /\ opened'[s].expires = opened[s].expires
  <2> SUFFICES ASSUME NEW s \in DOMAIN opened
               PROVE  /\ opened'[s] \in Session /\ ~opened'[s].live
                      /\ opened'[s].credentials = opened[s].credentials
                      /\ opened'[s].expires = opened[s].expires
    OBVIOUS
  <2>1. opened[s] \in Session /\ opened'[s] = [opened[s] EXCEPT !.live = FALSE]
    BY <1>1, SessionFields
  <2> QED
    BY <2>1 DEF Session
<1>3. opened' \in [1 .. Len(opened) -> Session]
  BY <1>1, <1>2, SessionFields DEF EndAll
<1>4. opened' \in Seq(Session)
  BY <1>3, SeqDef, SessionFields
<1>5. Len(opened') = Len(opened)
  BY <1>1, <1>4, SessionFields, LenProperties
<1>6. hour <= hour /\ \A s \in DOMAIN opened :
        Len(opened[s].credentials) <= Len(opened[s].credentials)
        /\ opened[s].expires <= opened[s].expires
  BY SessionFields, Bounds DEF SessionsTypeOK
<1> QED
  BY <1>1, <1>2, <1>4, <1>5, <1>6 DEF SessionsTypeOK, Rotations, Forward

(* Ending one *)
LEMMA EndForward ==
  ASSUME SessionsTypeOK, Rotations, NEW s \in DOMAIN opened, hour' = hour, opened' = End(s)
  PROVE  /\ Forward /\ DOMAIN opened' = DOMAIN opened
         /\ \A r \in DOMAIN opened' :
              /\ opened'[r].live => opened[r].live
              /\ opened'[r].version = opened[r].version
<1> DEFINE ended == [opened[s] EXCEPT !.live = FALSE]
<1>1. opened' = [opened EXCEPT ![s] = ended]
  BY DEF End
<1>2. /\ ended \in Session /\ ~ended.live /\ ended.version = opened[s].version
      /\ ended.credentials = opened[s].credentials /\ ended.expires = opened[s].expires
  BY SessionFields DEF Session
<1> HIDE DEF ended
<1>3. /\ opened' \in Seq(Session) /\ Len(opened') = Len(opened) /\ DOMAIN opened' = DOMAIN opened
      /\ \A r \in DOMAIN opened : opened'[r] = IF r = s THEN ended ELSE opened[r]
  BY <1>1, <1>2, SessionFields, ExceptSeq DEF SessionsTypeOK
<1>4. hour <= hour /\ \A r \in DOMAIN opened :
        Len(opened[r].credentials) <= Len(opened[r].credentials)
        /\ opened[r].expires <= opened[r].expires
  BY SessionFields, Bounds DEF SessionsTypeOK
<1> QED
  BY <1>2, <1>3, <1>4 DEF SessionsTypeOK, Rotations, Forward

(* Rotating the credential of one *)
LEMMA RotatedForward ==
  ASSUME SessionsTypeOK, Rotations, NEW t \in Tokens \cup {NoToken}, Issued(t), Usable(t),
         t.number < MaxRotations, hour' = hour, opened' = Rotated(t)
  PROVE  /\ Forward /\ DOMAIN opened' = DOMAIN opened
         /\ \A r \in DOMAIN opened' :
              opened'[r].live = opened[r].live /\ opened'[r].version = opened[r].version
         /\ t.number + 1 = Len(opened'[t.session].credentials)
<1> DEFINE s == t.session
           expires == IF opened[s].rolling THEN hour + DeviceTtl ELSE opened[s].expires
           list == Append(opened[s].credentials, expires)
           rotated == [opened[s] EXCEPT !.expires = expires, !.credentials = list]
<1>1. s \in DOMAIN opened /\ t.number \in 1 .. Len(opened[s].credentials) /\ hour < opened[s].expires
  BY DEF Issued, Usable, Unexpired
<1>2. /\ opened[s] \in Session /\ opened[s].credentials \in Seq(Nat) /\ opened[s].expires \in Nat
      /\ Len(opened[s].credentials) \in Nat /\ hour \in Nat /\ DeviceTtl \in Nat
  <2>1. /\ opened[s] \in Session /\ opened[s].credentials \in Seq(Nat) /\ opened[s].expires \in Nat
        /\ Len(opened[s].credentials) \in Nat
    BY <1>1, SessionFields
  <2>2. hour \in Nat /\ DeviceTtl \in Nat
    BY Bounds DEF SessionsTypeOK
  <2> QED
    BY <2>1, <2>2
<1>3. expires \in Nat
  BY <1>2
<1>4. opened' = [opened EXCEPT ![s] = rotated]
  BY <1>1, <1>2 DEF Rotated, SessionsTypeOK, Session
<1> HIDE DEF expires
<1>5. /\ list \in Seq(Nat) /\ Len(list) = Len(opened[s].credentials) + 1
      /\ \A n \in 1 .. Len(opened[s].credentials) : list[n] = opened[s].credentials[n]
  BY <1>2, <1>3, AppendProperties
<1> HIDE DEF list
<1>6. /\ rotated \in Session /\ rotated.live = opened[s].live
      /\ rotated.version = opened[s].version /\ rotated.credentials = list
  BY <1>2, <1>3, <1>5 DEF Session
<1> HIDE DEF rotated
<1>7. /\ opened' \in Seq(Session) /\ Len(opened') = Len(opened) /\ DOMAIN opened' = DOMAIN opened
      /\ \A r \in DOMAIN opened : opened'[r] = IF r = s THEN rotated ELSE opened[r]
  <2>1. opened \in Seq(Session) /\ s \in 1 .. Len(opened) /\ DOMAIN opened = 1 .. Len(opened)
    BY <1>1, SessionFields DEF SessionsTypeOK
  <2>2. /\ opened' \in Seq(Session) /\ Len(opened') = Len(opened)
        /\ \A r \in 1 .. Len(opened) : opened'[r] = IF r = s THEN rotated ELSE opened[r]
    BY <1>4, <1>6, <2>1, ExceptSeq
  <2>3. DOMAIN opened' = 1 .. Len(opened')
    BY <2>2, LenProperties
  <2>4. QED
    BY <2>1, <2>2, <2>3
<1>8. Len(opened[s].credentials) = t.number
  BY <1>1, <1>2 DEF Usable, Consumed
<1>9. Len(list) \in 1 .. MaxRotations
  BY <1>2, <1>5, <1>8, Bounds
<1>10. hour <= hour /\ \A r \in DOMAIN opened :
        Len(opened[r].credentials) <= Len(opened[r].credentials)
        /\ opened[r].expires <= opened[r].expires
  BY SessionFields, Bounds DEF SessionsTypeOK
<1>11. Forward
  <2>1. /\ hour' \in 0 .. LastHour /\ hour <= hour'
        /\ opened' \in Seq(Session) /\ Len(opened') <= MaxSessions
        /\ DOMAIN opened \subseteq DOMAIN opened'
    BY <1>7, <1>10 DEF SessionsTypeOK
  <2>2. \A r \in DOMAIN opened' : Len(opened'[r].credentials) \in 1 .. MaxRotations
    BY <1>6, <1>7, <1>9 DEF Rotations
  <2>3. ASSUME NEW r \in DOMAIN opened
        PROVE  /\ Len(opened[r].credentials) <= Len(opened'[r].credentials)
               /\ \A n \in 1 .. Len(opened[r].credentials) :
                    opened'[r].credentials[n] = opened[r].credentials[n]
               /\ opened'[r].live => opened[r].live
               /\ opened'[r].expires <= opened[r].expires \/ hour < opened[r].expires
    <3>1. CASE r = s
      <4>1. opened'[r].credentials = list /\ opened'[r].live = opened[r].live
        BY <1>6, <1>7, <3>1
      <4>2. Len(opened[r].credentials) <= Len(list)
        BY <1>2, <1>5, <3>1
      <4>3. \A n \in 1 .. Len(opened[r].credentials) : list[n] = opened[r].credentials[n]
        BY <1>5, <3>1
      <4>4. hour < opened[r].expires
        BY <1>1, <3>1
      <4> QED
        BY <4>1, <4>2, <4>3, <4>4
    <3>2. CASE r # s
      BY <1>7, <1>10, <3>2
    <3> QED
      BY <3>1, <3>2
  <2> QED
    BY <2>1, <2>2, <2>3 DEF Forward
<1> QED
  BY <1>1, <1>5, <1>6, <1>7, <1>8, <1>11

(* Opening another one *)
LEMMA OpenForward ==
  ASSUME SessionsTypeOK, Rotations, Len(opened) < MaxSessions, hour' = hour,
         NEW row \in Session, Len(row.credentials) = 1, opened' = Append(opened, row)
  PROVE  /\ Forward /\ DOMAIN opened' = 1 .. Len(opened) + 1
         /\ opened'[Len(opened) + 1] = row
         /\ \A r \in DOMAIN opened : opened'[r] = opened[r]
<1>1. /\ opened' \in Seq(Session) /\ Len(opened') = Len(opened) + 1
      /\ \A r \in 1 .. Len(opened) : opened'[r] = opened[r]
      /\ opened'[Len(opened) + 1] = row
  BY AppendProperties DEF SessionsTypeOK
<1>2. DOMAIN opened' = 1 .. Len(opened) + 1 /\ DOMAIN opened = 1 .. Len(opened) /\ Len(opened) \in Nat
  BY <1>1, SessionFields, LenProperties
<1>3. hour <= hour /\ \A r \in DOMAIN opened :
        Len(opened[r].credentials) <= Len(opened[r].credentials)
        /\ opened[r].expires <= opened[r].expires
  BY SessionFields, Bounds DEF SessionsTypeOK
<1>4. Len(opened') <= MaxSessions /\ 1 \in 1 .. MaxRotations
  BY <1>1, <1>2, SessionsAssumption
<1>5. \A s \in DOMAIN opened' : Len(opened'[s].credentials) \in 1 .. MaxRotations
  <2> SUFFICES ASSUME NEW s \in DOMAIN opened'
               PROVE  Len(opened'[s].credentials) \in 1 .. MaxRotations
    OBVIOUS
  <2>1. CASE s = Len(opened) + 1
    BY <1>1, <1>4, <2>1
  <2>2. CASE s # Len(opened) + 1
    <3>1. s \in 1 .. Len(opened)
      BY <1>2, <2>2
    <3> QED
      BY <1>1, <1>2, <3>1 DEF Rotations
  <2> QED
    BY <2>1, <2>2
<1> QED
  BY <1>1, <1>2, <1>3, <1>4, <1>5 DEF SessionsTypeOK, Forward

-----------------------------------------------------------------------------

(* A phone keeps what it had, drops it, or gets what is issued by then. *)
LEMMA PhoneFrame ==
  ASSUME SessionsInv, Forward, PhoneType',
         \A p \in Phones : store'[p] # NoToken => store'[p] = store[p] \/ IssuedThen(store'[p]),
         \A p \in Phones : login'[p].token # NoToken =>
           login'[p].token = login[p].token \/ IssuedThen(login'[p].token),
         \A p \in Phones : call'[p].step # "idle" =>
           \/ call'[p] = call[p]
           \/ /\ IssuedThen(call'[p].token)
              /\ call'[p].step = "rotated" => ConsumedThen(call'[p].token)
              /\ call'[p].step = "denied" => DeadThen(call'[p].token),
         \A t \in logouts' : t \in logouts \/ IssuedThen(t)
  PROVE  TokensIssued' /\ AnswersStand'
<1>1. SessionsTypeOK /\ Rotations /\ TokensIssued /\ AnswersStand /\ PhoneType
  BY DEF SessionsInv
<1>2. \A p \in Phones : store'[p] # NoToken => IssuedThen(store'[p])
  BY <1>1, IssuedStays DEF TokensIssued, SessionsTypeOK
<1>3. \A p \in Phones : login'[p].token # NoToken => IssuedThen(login'[p].token)
  BY <1>1, IssuedStays DEF TokensIssued, PhoneType, LoginRows
<1>4. ASSUME NEW p \in Phones, call'[p].step # "idle"
      PROVE  /\ IssuedThen(call'[p].token)
             /\ call'[p].step = "rotated" => ConsumedThen(call'[p].token)
             /\ call'[p].step = "denied" => DeadThen(call'[p].token)
  <2>1. CASE call'[p] = call[p]
    <3>1. call[p].token \in Tokens \cup {NoToken} /\ Issued(call[p].token)
      BY <1>1, <1>4, <2>1 DEF TokensIssued, PhoneType, CallRows
    <3> QED
      BY <1>1, <2>1, <3>1, IssuedStays DEF AnswersStand
  <2>2. CASE call'[p] # call[p]
    BY <1>4, <2>2
  <2> QED
    BY <2>1, <2>2
<1>5. \A t \in logouts' : IssuedThen(t)
  BY <1>1, IssuedStays DEF TokensIssued, PhoneType
<1>6. TokensIssued'
  BY <1>2, <1>3, <1>4, <1>5 DEF TokensIssued, Issued, IssuedThen
<1>7. AnswersStand'
  BY <1>4 DEF AnswersStand, Consumed, Dead, ConsumedThen, DeadThen
<1> QED
  BY <1>6, <1>7

(* driver_credentials *)
Pin == [version : Nat, temporary : BOOLEAN, until : Nat, failed : Nat, locked : Nat,
        status : {"active", "suspended"}]

(* The server works while the phones rest. *)
LEMMA ServerOnly ==
  ASSUME SessionsInv, UNCHANGED phone, Forward, orders' \in 0 .. MaxOrders, pin' \in Pin,
         LiveIsCurrent'
  PROVE  SessionsInv'
<1>1. SessionsTypeOK' /\ Rotations'
  BY DEF SessionsInv, SessionsTypeOK, Forward, Rotations, phone, Pin
<1>2. PhoneType' /\ FreshIsWanted' /\ SignedOutStaysOut'
  BY DEF SessionsInv, PhoneType, FreshIsWanted, SignedOutStaysOut, phone
<1>3. TokensIssued' /\ AnswersStand'
  BY <1>2, PhoneFrame DEF phone
<1> QED
  BY <1>1, <1>2, <1>3 DEF SessionsInv

(* A phone works while the server rests, or counts a wrong PIN. *)
LEMMA PhoneOnly ==
  ASSUME SessionsInv, UNCHANGED <<hour, opened, orders>>, PhoneType',
         pin' \in Pin, pin'.version = pin.version, pin'.status = pin.status,
         store' \in [Phones -> Tokens \cup {NoToken}], wants' \in [Phones -> BOOLEAN],
         FreshIsWanted', SignedOutStaysOut', TokensIssued', AnswersStand'
  PROVE  SessionsInv'
<1>1. SessionsTypeOK' /\ Rotations' /\ LiveIsCurrent'
  BY DEF SessionsInv, SessionsTypeOK, Rotations, LiveIsCurrent, Pin
<1> QED
  BY <1>1 DEF SessionsInv

(* The PIN is well typed, and stays so when it is mistyped or replaced. *)
LEMMA PinTypes ==
  ASSUME SessionsInv
  PROVE  /\ pin \in Pin
         /\ WrongPin => pin' \in Pin /\ pin'.version = pin.version /\ pin'.status = pin.status
         /\ \A temporary \in BOOLEAN : NewPin(temporary) => pin' \in Pin
<1>1. pin \in Pin /\ hour \in Nat
  BY Bounds DEF SessionsInv, SessionsTypeOK, Pin
<1>2. ASSUME WrongPin
      PROVE  pin' \in Pin /\ pin'.version = pin.version /\ pin'.status = pin.status
  <2>1. pin.failed + 1 \in Nat /\ hour + LockTime \in Nat
    BY <1>1, Bounds DEF Pin
  <2> QED
    BY <1>1, <1>2, <2>1 DEF WrongPin, Pin
<1>3. ASSUME NEW temporary \in BOOLEAN, NewPin(temporary)
      PROVE  pin' \in Pin
  <2>1. pin.version + 1 \in Nat /\ hour + TemporaryTtl \in Nat
    BY <1>1, Bounds DEF Pin
  <2> QED
    BY <1>1, <1>3, <2>1 DEF NewPin, Pin
<1> QED
  BY <1>1, <1>2, <1>3

(* Orders stay bounded. *)
LEMMA OrderTypes == ASSUME SessionsTypeOK, Order PROVE orders' \in 0 .. MaxOrders
BY Bounds DEF SessionsTypeOK, Order

(* The clock *)
LEMMA ClockKeeps == ASSUME SessionsInv, HourPasses PROVE SessionsInv'
<1>1. Forward
  <2>1. /\ hour' \in 0 .. LastHour /\ hour <= hour'
        /\ \A s \in DOMAIN opened :
             /\ Len(opened[s].credentials) <= Len(opened[s].credentials)
             /\ opened[s].expires <= opened[s].expires
    BY SessionFields, Bounds DEF SessionsInv, SessionsTypeOK, HourPasses
  <2> QED
    BY <2>1 DEF HourPasses, server, Forward, SessionsInv, SessionsTypeOK, Rotations
<1>2. LiveIsCurrent'
  BY DEF HourPasses, server, SessionsInv, LiveIsCurrent
<1> QED
  BY <1>1, <1>2, ServerOnly, PinTypes DEF HourPasses, server, SessionsInv, SessionsTypeOK

(* The office: a PIN is replaced, an account is suspended, with all sessions. *)
LEMMA OfficeKeeps == ASSUME SessionsInv, Office PROVE SessionsInv'
<1>1. SessionsTypeOK /\ Rotations /\ LiveIsCurrent /\ pin \in Pin
  BY PinTypes DEF SessionsInv
<1>2. UNCHANGED phone /\ hour' = hour /\ orders' \in 0 .. MaxOrders
  BY <1>1, OrderTypes DEF Office, ResetPin, Suspend, Activate, Unlock
<1>3. CASE ResetPin
  <2>1. opened' = EndAll /\ pin' \in Pin
    BY <1>3, PinTypes DEF ResetPin, NewPin
  <2> QED
    BY <1>1, <1>2, <2>1, EndAllForward, ServerOnly DEF LiveIsCurrent
<1>4. CASE Suspend
  <2>1. opened' = EndAll /\ pin' \in Pin
    BY <1>1, <1>4 DEF Suspend, Pin
  <2> QED
    BY <1>1, <1>2, <2>1, EndAllForward, ServerOnly DEF LiveIsCurrent
<1>5. CASE Activate \/ Unlock
  <2>1. /\ pin' \in Pin /\ pin'.version = pin.version /\ opened' = opened
        /\ pin.status = "active" => pin'.status = "active"
    <3>1. CASE Activate
      BY <1>1, <3>1 DEF Activate, Pin
    <3>2. CASE Unlock
      BY <1>1, <3>2 DEF Unlock, Pin
    <3> QED
      BY <1>5, <3>1, <3>2
  <2> QED
    BY <1>1, <1>2, <2>1, RowsRest, ServerOnly DEF LiveIsCurrent
<1> QED
  BY <1>3, <1>4, <1>5 DEF Office

(* The driver ends a session or changes the PIN. *)
LEMMA AccountKeeps ==
  ASSUME SessionsInv, NEW p \in Phones,
         \/ \E s \in DOMAIN opened : RevokeSession(p, s)
         \/ \E typed \in 1 .. pin.version : ChangePin(p, typed)
  PROVE  SessionsInv'
<1>1. SessionsTypeOK /\ Rotations /\ LiveIsCurrent /\ pin \in Pin
  BY PinTypes DEF SessionsInv
<1>2. UNCHANGED phone /\ hour' = hour /\ orders' \in 0 .. MaxOrders
  BY <1>1, OrderTypes DEF RevokeSession, ChangePin
<1>3. ASSUME NEW s \in DOMAIN opened, RevokeSession(p, s)
      PROVE  SessionsInv'
  <2>1. Forward /\ LiveIsCurrent' /\ pin' = pin
    BY <1>1, <1>2, <1>3, EndForward DEF RevokeSession, LiveIsCurrent
  <2> QED
    BY <1>1, <1>2, <2>1, ServerOnly
<1>4. ASSUME NEW typed \in 1 .. pin.version, ChangePin(p, typed)
      PROVE  SessionsInv'
  <2>1. CASE typed = pin.version
    <3>1. opened' = EndAll /\ pin' \in Pin
      BY <1>4, <2>1, PinTypes DEF ChangePin, NewPin
    <3> QED
      BY <1>1, <1>2, <3>1, EndAllForward, ServerOnly DEF LiveIsCurrent
  <2>2. CASE typed # pin.version
    <3>1. /\ opened' = opened /\ pin' \in Pin
          /\ pin'.version = pin.version /\ pin'.status = pin.status
      BY <1>4, <2>2, PinTypes DEF ChangePin
    <3> QED
      BY <1>1, <1>2, <3>1, RowsRest, ServerOnly DEF LiveIsCurrent
  <2> QED
    BY <2>1, <2>2
<1> QED
  BY <1>3, <1>4

-----------------------------------------------------------------------------

(* Only a driver who wants to be signed in gets a sign-in or a credential. *)
LEMMA WishesFrame ==
  ASSUME SignedOutStaysOut, FreshIsWanted,
         \A p \in Phones : wants[p] => wants'[p],
         \A p \in Phones : store'[p] # NoToken => store'[p] = store[p] \/ wants'[p],
         \A p \in Phones : login'[p].fresh /\ login'[p].step # "idle" =>
           (login[p].fresh /\ login[p].step # "idle") \/ wants'[p]
  PROVE  SignedOutStaysOut' /\ FreshIsWanted'
BY Zenon DEF SignedOutStaysOut, FreshIsWanted

(* A sign-in is asked for, refused, stored or lost. *)
LEMMA SignInKeeps ==
  ASSUME SessionsInv, NEW p \in Phones,
         \/ \E typed \in 1 .. pin.version, own \in BOOLEAN : StartSignIn(p, typed, own)
         \/ RefuseSignIn(p) \/ FinishSignIn(p) \/ LoseSignIn(p)
  PROVE  SessionsInv'
<1> DEFINE l == login[p]
<1>1. /\ SessionsTypeOK /\ Rotations /\ PhoneType /\ TokensIssued /\ FreshIsWanted
      /\ SignedOutStaysOut /\ pin \in Pin /\ l \in LoginRows
      /\ UNCHANGED <<hour, opened>> => Forward
  BY PinTypes, RowsRest DEF SessionsInv, PhoneType
<1>2. NoLogin \in LoginRows
  BY DEF NoLogin, LoginRows
<1>3. ASSUME NEW typed \in 1 .. pin.version, NEW own \in BOOLEAN, StartSignIn(p, typed, own)
      PROVE  SessionsInv'
  <2>1. typed \in Nat
    BY <1>1 DEF Pin
  <2>2. [step |-> "sent", pin |-> typed, own |-> own, fresh |-> TRUE, token |-> NoToken] \in LoginRows
    BY <2>1 DEF LoginRows
  <2>3. PhoneType'
    BY <1>1, <1>3, <2>2 DEF StartSignIn, PhoneType
  <2>4. wants' \in [Phones -> BOOLEAN] /\ SignedOutStaysOut' /\ FreshIsWanted'
    <3>1. wants \in [Phones -> BOOLEAN] /\ wants' = [wants EXCEPT ![p] = TRUE]
      BY <1>1, <1>3 DEF StartSignIn, SessionsTypeOK
    <3>2. wants' \in [Phones -> BOOLEAN] /\ \A q \in Phones : wants'[q] = (wants[q] \/ q = p)
      BY <3>1
    <3>3. store' = store /\ \A q \in Phones : q # p => login'[q] = login[q]
      BY <1>1, <1>3 DEF StartSignIn, PhoneType
    <3>4. (\A q \in Phones : wants[q] => wants'[q]) /\ wants'[p]
      BY <3>2
    <3> QED
      BY <1>1, <3>2, <3>3, <3>4, WishesFrame
  <2>5. TokensIssued' /\ AnswersStand'
    BY <1>1, <1>3, <2>3, PhoneFrame DEF StartSignIn, PhoneType, server
  <2> QED
    BY <1>1, <1>3, <2>3, <2>4, <2>5, PhoneOnly DEF StartSignIn, server, SessionsTypeOK
<1>4. CASE RefuseSignIn(p)
  <2> DEFINE answered == [NoLogin EXCEPT !.step = "answered", !.token = NoToken, !.fresh = l.fresh]
  <2>1. /\ answered \in LoginRows /\ answered.token = NoToken /\ answered.fresh = l.fresh
        /\ l.step # "idle"
    BY <1>1, <1>2, <1>4 DEF LoginRows, RefuseSignIn
  <2>2. login' = [login EXCEPT ![p] = answered] /\ UNCHANGED <<store, call, logouts, wants>>
    BY <1>4 DEF RefuseSignIn, Answer
  <2> HIDE DEF answered
  <2>3. /\ pin' \in Pin /\ pin'.version = pin.version /\ pin'.status = pin.status
        /\ UNCHANGED <<hour, opened, orders>>
    BY <1>1, <1>4, PinTypes DEF RefuseSignIn
  <2>4. PhoneType'
    BY <1>1, <2>1, <2>2 DEF PhoneType
  <2>5. SignedOutStaysOut' /\ FreshIsWanted'
    <3>1. /\ store' = store /\ wants' = wants
          /\ \A q \in Phones : q # p => login'[q] = login[q]
          /\ login'[p].fresh = login[p].fresh /\ login[p].step # "idle"
      BY <1>1, <2>1, <2>2 DEF PhoneType
    <3>2. \A q \in Phones : login'[q].fresh /\ login'[q].step # "idle" =>
            login[q].fresh /\ login[q].step # "idle"
      BY <3>1
    <3> QED
      BY <1>1, <3>1, <3>2, WishesFrame
  <2>6. TokensIssued' /\ AnswersStand'
    BY <1>1, <2>1, <2>2, <2>3, <2>4, PhoneFrame DEF PhoneType
  <2> QED
    BY <1>1, <2>2, <2>3, <2>4, <2>5, <2>6, PhoneOnly DEF SessionsTypeOK
<1>5. CASE FinishSignIn(p)
  <2>1. /\ login' = [login EXCEPT ![p] = NoLogin]
        /\ store' = IF l.fresh /\ l.token # NoToken THEN [store EXCEPT ![p] = l.token] ELSE store
        /\ UNCHANGED <<hour, server, call, logouts, wants>> /\ l.step # "idle"
    BY <1>5 DEF FinishSignIn
  <2>2. NoLogin.token = NoToken /\ NoLogin.step = "idle" /\ l.token \in Tokens \cup {NoToken}
    <3>1. NoLogin.token = NoToken /\ NoLogin.step = "idle"
      BY DEF NoLogin
    <3>2. l.token \in Tokens \cup {NoToken}
      BY <1>1 DEF LoginRows
    <3> QED
      BY <3>1, <3>2
  <2>3. PhoneType' /\ store' \in [Phones -> Tokens \cup {NoToken}]
    BY <1>1, <1>2, <2>1, <2>2 DEF PhoneType, SessionsTypeOK
  <2>4. SignedOutStaysOut' /\ FreshIsWanted'
    <3>1. /\ wants' = wants /\ login'[p].step = "idle"
          /\ \A q \in Phones : q # p => login'[q] = login[q] /\ store'[q] = store[q]
      BY <1>1, <2>1, <2>2 DEF PhoneType, SessionsTypeOK
    <3>2. store'[p] = store[p] \/ wants[p]
      BY <1>1, <2>1 DEF FreshIsWanted
    <3> QED
      BY <1>1, <3>1, <3>2, WishesFrame
  <2>5. l.token # NoToken => IssuedThen(l.token)
    BY <1>1, <2>1, <2>2, IssuedStays DEF TokensIssued, server
  <2>6. \A q \in Phones : store'[q] # NoToken => store'[q] = store[q] \/ IssuedThen(store'[q])
    BY <1>1, <2>1, <2>5 DEF SessionsTypeOK
  <2>7. TokensIssued' /\ AnswersStand'
    BY <1>1, <2>1, <2>2, <2>3, <2>6, PhoneFrame DEF PhoneType, server
  <2> QED
    BY <1>1, <2>1, <2>3, <2>4, <2>7, PhoneOnly DEF SessionsTypeOK, server
<1>6. CASE LoseSignIn(p)
  <2>1. /\ login' = [login EXCEPT ![p] = NoLogin]
        /\ UNCHANGED <<hour, server, store, call, logouts, wants>>
    BY <1>6 DEF LoseSignIn
  <2>2. NoLogin.token = NoToken /\ NoLogin.step = "idle"
    BY DEF NoLogin
  <2>3. PhoneType'
    BY <1>1, <1>2, <2>1 DEF PhoneType
  <2>4. SignedOutStaysOut' /\ FreshIsWanted'
    <3>1. /\ store' = store /\ wants' = wants /\ login'[p].step = "idle"
          /\ \A q \in Phones : q # p => login'[q] = login[q]
      BY <1>1, <2>1, <2>2 DEF PhoneType
    <3> QED
      BY <1>1, <3>1, WishesFrame
  <2>5. TokensIssued' /\ AnswersStand'
    BY <1>1, <2>1, <2>2, <2>3, PhoneFrame DEF PhoneType, server
  <2> QED
    BY <1>1, <2>1, <2>3, <2>4, <2>5, PhoneOnly DEF SessionsTypeOK, server
<1> QED
  BY <1>3, <1>4, <1>5, <1>6

(* A sign-in that is accepted opens a session by the PIN of the moment. *)
LEMMA OpenSessionKeeps == ASSUME SessionsInv, NEW p \in Phones, OpenSession(p) PROVE SessionsInv'
<1> DEFINE l == login[p]
           expires == hour + (IF l.own THEN DeviceTtl ELSE ShiftTtl)
           row == [live |-> TRUE, rolling |-> l.own, version |-> pin.version,
                   expires |-> expires, credentials |-> <<expires>>]
           token == IF opened' = opened THEN NoToken
                    ELSE [session |-> Len(opened) + 1, number |-> 1]
           answered(x) == [NoLogin EXCEPT !.step = "answered", !.token = x, !.fresh = l.fresh]
<1>1. /\ SessionsTypeOK /\ Rotations /\ PhoneType /\ TokensIssued /\ FreshIsWanted
      /\ LiveIsCurrent /\ SignedOutStaysOut /\ pin \in Pin /\ l \in LoginRows /\ l.step = "sent"
      /\ pin.status = "active"
  BY PinTypes DEF SessionsInv, PhoneType, OpenSession
<1>2. /\ pin' \in Pin /\ pin'.version = pin.version /\ pin'.status = "active"
      /\ UNCHANGED <<hour, orders, store, call, logouts, wants>>
  BY <1>1 DEF OpenSession, Pin
<1>3. expires \in Nat /\ row \in Session /\ Len(row.credentials) = 1 /\ Len(opened) \in Nat
  <2>1. hour \in Nat /\ l.own \in BOOLEAN /\ pin.version \in Nat
    BY <1>1, Bounds DEF SessionsTypeOK, LoginRows, Pin
  <2>2. expires \in Nat
    BY <2>1, Bounds
  <2> HIDE DEF expires
  <2>3. <<expires>> \in Seq(Nat) /\ Len(<<expires>>) = 1
    BY <2>2
  <2> QED
    BY <1>1, <2>1, <2>2, <2>3, SessionFields DEF Session
<1> HIDE DEF row
<1>4. PICK x \in Tokens \cup {NoToken} :
         /\ login' = [login EXCEPT ![p] = answered(x)]
         /\ \/ x = NoToken /\ opened' = opened
            \/ /\ x = [session |-> Len(opened) + 1, number |-> 1]
               /\ Len(opened) < MaxSessions /\ opened' = Append(opened, row)
  <2>1. CASE pin.temporary /\ pin.until <= hour
    BY <2>1 DEF OpenSession, Answer
  <2>2. CASE ~(pin.temporary /\ pin.until <= hour)
    <3>1. Len(opened) < MaxSessions /\ opened' = Append(opened, row)
      BY <2>2 DEF OpenSession, row
    <3>2. [session |-> Len(opened) + 1, number |-> 1] \in Tokens
      BY <1>3, <3>1, Bounds DEF Tokens, Ids
    <3>3. login' = [login EXCEPT ![p] = answered([session |-> Len(opened) + 1, number |-> 1])]
      BY <2>2 DEF OpenSession, Answer
    <3> QED
      BY <3>1, <3>2, <3>3
  <2> QED
    BY <2>1, <2>2
<1>5. /\ answered(x) \in LoginRows /\ answered(x).token = x /\ answered(x).fresh = l.fresh
  BY <1>1 DEF NoLogin, LoginRows
<1> HIDE DEF answered
<1>6. PhoneType'
  BY <1>1, <1>2, <1>4, <1>5 DEF PhoneType
<1>7. SignedOutStaysOut' /\ FreshIsWanted'
  BY <1>1, <1>2, <1>4, <1>5 DEF SignedOutStaysOut, FreshIsWanted, PhoneType
<1>8. Forward /\ LiveIsCurrent' /\ (x # NoToken => IssuedThen(x))
  <2>1. CASE x = NoToken /\ opened' = opened
    BY <1>1, <1>2, <2>1, RowsRest DEF LiveIsCurrent
  <2>2. CASE /\ x = [session |-> Len(opened) + 1, number |-> 1]
             /\ Len(opened) < MaxSessions /\ opened' = Append(opened, row)
    <3>1. /\ Forward /\ DOMAIN opened' = 1 .. Len(opened) + 1 /\ opened'[Len(opened) + 1] = row
          /\ \A r \in DOMAIN opened : opened'[r] = opened[r]
      BY <1>1, <1>2, <1>3, <2>2, OpenForward
    <3>2. DOMAIN opened = 1 .. Len(opened) /\ row.version = pin.version
      BY <1>1, SessionFields DEF row
    <3>3. LiveIsCurrent'
      <4> SUFFICES ASSUME NEW s \in DOMAIN opened', opened'[s].live
                   PROVE  opened'[s].version = pin'.version /\ pin'.status = "active"
        BY DEF LiveIsCurrent
      <4>1. CASE s = Len(opened) + 1
        BY <1>2, <3>1, <3>2, <4>1
      <4>2. CASE s # Len(opened) + 1
        <5>1. s \in DOMAIN opened
          BY <1>3, <3>1, <3>2, <4>2
        <5> QED
          BY <1>1, <1>2, <3>1, <5>1 DEF LiveIsCurrent
      <4> QED
        BY <4>1, <4>2
    <3>4. IssuedThen(x)
      <4>1. x.session = Len(opened) + 1 /\ x.number = 1
        BY <2>2
      <4>2. x.session \in DOMAIN opened' /\ Len(opened'[x.session].credentials) = 1
        BY <1>3, <3>1, <4>1
      <4> QED
        BY <4>1, <4>2 DEF IssuedThen
    <3> QED
      BY <3>1, <3>3, <3>4
  <2> QED
    BY <1>4, <2>1, <2>2
<1>9. TokensIssued' /\ AnswersStand'
  BY <1>1, <1>2, <1>4, <1>5, <1>6, <1>8, PhoneFrame DEF PhoneType
<1>10. SessionsTypeOK' /\ Rotations'
  BY <1>1, <1>2, <1>8 DEF SessionsTypeOK, Forward, Rotations, Pin
<1> QED
  BY <1>6, <1>7, <1>8, <1>9, <1>10 DEF SessionsInv

-----------------------------------------------------------------------------

(* A phone asks with what it has stored, or gives up. *)
LEMMA AskKeeps ==
  ASSUME SessionsInv, NEW p \in Phones, StartRefresh(p) \/ LoseRefresh(p)
  PROVE  SessionsInv'
<1>1. /\ SessionsTypeOK /\ Rotations /\ PhoneType /\ TokensIssued /\ FreshIsWanted
      /\ SignedOutStaysOut /\ pin \in Pin
  BY PinTypes DEF SessionsInv
<1>2. UNCHANGED <<hour, opened, pin, orders, store, login, logouts, wants>>
  BY DEF StartRefresh, LoseRefresh, server
<1>3. Forward
  BY <1>1, <1>2, RowsRest
<1>4. PICK c \in CallRows :
         /\ call' = [call EXCEPT ![p] = c]
         /\ c.step = "idle" \/ (c.step = "sent" /\ IssuedThen(c.token))
  <2>1. CASE StartRefresh(p)
    <3> DEFINE c == [step |-> "sent", token |-> store[p]]
    <3>1. store[p] \in Tokens \cup {NoToken} /\ Issued(store[p])
      BY <1>1, <2>1 DEF StartRefresh, TokensIssued, SessionsTypeOK
    <3>2. c \in CallRows /\ c.step = "sent" /\ IssuedThen(c.token)
      BY <1>1, <1>3, <3>1, IssuedStays DEF CallRows
    <3> HIDE DEF c
    <3>3. call' = [call EXCEPT ![p] = c]
      BY <2>1 DEF StartRefresh, c
    <3> QED
      BY <3>2, <3>3
  <2>2. CASE LoseRefresh(p)
    <3>1. Idle \in CallRows /\ Idle.step = "idle"
      BY DEF Idle, CallRows
    <3>2. call' = [call EXCEPT ![p] = Idle]
      BY <2>2 DEF LoseRefresh
    <3> QED
      BY <3>1, <3>2
  <2> QED
    BY <2>1, <2>2
<1>5. PhoneType'
  BY <1>1, <1>2, <1>4 DEF PhoneType
<1>6. \A q \in Phones : call'[q] = IF q = p THEN c ELSE call[q]
  BY <1>1, <1>4 DEF PhoneType
<1>7. TokensIssued' /\ AnswersStand'
  BY <1>2, <1>3, <1>4, <1>5, <1>6, PhoneFrame
<1>8. SignedOutStaysOut' /\ FreshIsWanted'
  BY <1>1, <1>2, WishesFrame
<1> QED
  BY <1>1, <1>2, <1>5, <1>7, <1>8, PhoneOnly DEF SessionsTypeOK

(* What was issued has an end in the session and one of its own. *)
LEMMA IssuedFields ==
  ASSUME SessionsTypeOK, NEW t, Issued(t)
  PROVE  /\ opened[t.session].expires \in Nat
         /\ opened[t.session].credentials[t.number] \in Nat /\ hour \in Nat
<1>1. t.session \in DOMAIN opened /\ t.number \in 1 .. Len(opened[t.session].credentials)
  BY DEF Issued
<1>2. opened[t.session].credentials \in Seq(Nat) /\ opened[t.session].expires \in Nat
  BY <1>1, SessionFields
<1>3. opened[t.session].credentials[t.number] \in Nat
  BY <1>1, <1>2, ElementOfSeq
<1> QED
  BY <1>2, <1>3, Bounds, SMTT(20) DEF SessionsTypeOK

(* The server rotates what is usable.  What it denies is dead: the account *)
(* of a session that lives is active.                                      *)
LEMMA RefreshKeeps == ASSUME SessionsInv, NEW p \in Phones, Refresh(p) PROVE SessionsInv'
<1> DEFINE t == call[p].token
<1>1. /\ SessionsTypeOK /\ Rotations /\ PhoneType /\ TokensIssued /\ FreshIsWanted
      /\ SignedOutStaysOut /\ LiveIsCurrent /\ pin \in Pin /\ call[p].step = "sent"
      /\ t \in Tokens \cup {NoToken} /\ Issued(t) /\ call[p] \in CallRows
  <2>1. call[p] \in CallRows /\ call[p].step = "sent"
    BY DEF SessionsInv, PhoneType, Refresh
  <2> QED
    BY <2>1, PinTypes DEF SessionsInv, TokensIssued, CallRows
<1>2. UNCHANGED <<hour, pin, orders, store, login, logouts, wants>>
  BY DEF Refresh
<1>3. CASE Usable(t)
  <2> DEFINE c == [call[p] EXCEPT !.step = "rotated"]
  <2>1. opened' = Rotated(t) /\ t.number < MaxRotations /\ call' = [call EXCEPT ![p] = c]
    BY <1>3 DEF Refresh
  <2>2. c \in CallRows /\ c.step = "rotated" /\ c.token = t
    BY <1>1 DEF CallRows
  <2> HIDE DEF c
  <2>3. /\ Forward /\ DOMAIN opened' = DOMAIN opened
        /\ \A r \in DOMAIN opened' :
             opened'[r].live = opened[r].live /\ opened'[r].version = opened[r].version
        /\ t.number + 1 = Len(opened'[t.session].credentials)
    BY <1>1, <1>2, <1>3, <2>1, RotatedForward
  <2>4. IssuedThen(t) /\ ConsumedThen(t)
    <3>1. IssuedThen(t)
      BY <1>1, <2>3, IssuedStays
    <3> QED
      BY <2>3, <3>1 DEF IssuedThen, ConsumedThen
  <2>5. PhoneType'
    BY <1>1, <1>2, <2>1, <2>2 DEF PhoneType
  <2>6. \A q \in Phones : call'[q] = IF q = p THEN c ELSE call[q]
    BY <1>1, <2>1 DEF PhoneType
  <2>7. TokensIssued' /\ AnswersStand'
    BY <1>2, <2>2, <2>3, <2>4, <2>5, <2>6, PhoneFrame
  <2>8. LiveIsCurrent'
    BY <1>1, <1>2, <2>3 DEF LiveIsCurrent
  <2>9. SessionsTypeOK' /\ Rotations'
    BY <1>1, <1>2, <2>3 DEF SessionsTypeOK, Forward, Rotations, Pin
  <2>10. SignedOutStaysOut' /\ FreshIsWanted'
    BY <1>1, <1>2, WishesFrame
  <2> QED
    BY <2>5, <2>7, <2>8, <2>9, <2>10 DEF SessionsInv
<1>4. CASE ~Usable(t)
  <2> DEFINE c == [call[p] EXCEPT !.step = "denied"]
  <2>1. /\ call' = [call EXCEPT ![p] = c]
        /\ opened' = EndAll \/ opened' = opened
    BY <1>4 DEF Refresh, Reused
  <2>2. c \in CallRows /\ c.step = "denied" /\ c.token = t
    BY <1>1 DEF CallRows
  <2> HIDE DEF c
  <2>3. Forward /\ LiveIsCurrent'
    <3>1. CASE opened' = EndAll
      BY <1>1, <1>2, <3>1, EndAllForward DEF LiveIsCurrent
    <3>2. CASE opened' = opened
      BY <1>1, <1>2, <3>2, RowsRest DEF LiveIsCurrent
    <3> QED
      BY <2>1, <3>1, <3>2
  <2>4. Dead(t)
    <3>1. /\ t.session \in DOMAIN opened
          /\ t.number \in 1 .. Len(opened[t.session].credentials)
      BY <1>1 DEF Issued
    <3>2. opened[t.session].live => pin.status = "active"
      BY <1>1, <3>1 DEF LiveIsCurrent
    <3>3. /\ opened[t.session].expires \in Nat
          /\ opened[t.session].credentials[t.number] \in Nat /\ hour \in Nat
      BY <1>1, IssuedFields
    <3> QED
      BY <1>4, <3>2, <3>3 DEF Usable, Unexpired, Dead
  <2>5. IssuedThen(t) /\ DeadThen(t)
    BY <1>1, <2>3, <2>4, IssuedStays
  <2>6. PhoneType'
    BY <1>1, <1>2, <2>1, <2>2 DEF PhoneType
  <2>7. \A q \in Phones : call'[q] = IF q = p THEN c ELSE call[q]
    BY <1>1, <2>1 DEF PhoneType
  <2>8. TokensIssued' /\ AnswersStand'
    BY <1>2, <2>2, <2>3, <2>5, <2>6, <2>7, PhoneFrame
  <2>9. SessionsTypeOK' /\ Rotations'
    BY <1>1, <1>2, <2>3 DEF SessionsTypeOK, Forward, Rotations, Pin
  <2>10. SignedOutStaysOut' /\ FreshIsWanted'
    BY <1>1, <1>2, WishesFrame
  <2> QED
    BY <2>3, <2>6, <2>8, <2>9, <2>10 DEF SessionsInv
<1> QED
  BY <1>3, <1>4

(* Sign-ins that are outdated are not fresh. *)
LEMMA OutdatedRows ==
  ASSUME NEW l \in LoginRows
  PROVE  Outdated(l) \in LoginRows /\ Outdated(l).token = l.token /\ ~Outdated(l).fresh
BY DEF Outdated, LoginRows

(* The phone takes the next number of the credential it still has stored. *)
LEMMA FinishRefreshKeeps ==
  ASSUME SessionsInv, NEW p \in Phones, FinishRefresh(p)
  PROVE  /\ SessionsInv'
         /\ \A q \in Phones : store[q] # NoToken /\ store'[q] = NoToken => ~Usable(store[q])
<1> DEFINE t == call[p].token
           next == [t EXCEPT !.number = @ + 1]
<1>1. /\ SessionsTypeOK /\ Rotations /\ PhoneType /\ TokensIssued /\ FreshIsWanted
      /\ SignedOutStaysOut /\ pin \in Pin /\ call[p].step \in {"rotated", "denied"}
      /\ t \in Tokens \cup {NoToken} /\ Issued(t) /\ login[p] \in LoginRows
  <2>1. call[p] \in CallRows /\ call[p].step \in {"rotated", "denied"}
    BY DEF SessionsInv, PhoneType, FinishRefresh
  <2> QED
    BY <2>1, PinTypes DEF SessionsInv, TokensIssued, CallRows, PhoneType
<1>2. UNCHANGED <<hour, opened, pin, orders, logouts, wants>> /\ call' = [call EXCEPT ![p] = Idle]
  BY DEF FinishRefresh, server
<1>3. Forward
  BY <1>1, <1>2, RowsRest
<1>4. /\ Idle \in CallRows /\ Idle.step = "idle"
  BY DEF Idle, CallRows
<1>5. call[p].step = "rotated" => next \in Tokens /\ IssuedThen(next)
  <2> SUFFICES ASSUME call[p].step = "rotated"
               PROVE  next \in Tokens /\ IssuedThen(next)
    OBVIOUS
  <2>1. /\ t.session \in DOMAIN opened /\ t.number \in 1 .. Len(opened[t.session].credentials)
        /\ t.number < Len(opened[t.session].credentials)
        /\ Len(opened[t.session].credentials) \in 1 .. MaxRotations
    BY <1>1 DEF Issued, Rotations, SessionsInv, AnswersStand, Consumed
  <2>2. t.session \in Ids
    <3>1. Len(opened) \in Nat /\ DOMAIN opened = 1 .. Len(opened) /\ Len(opened) <= MaxSessions
      BY <1>1, SessionFields DEF SessionsTypeOK
    <3>2. MaxSessions \in Nat
      BY Bounds
    <3> QED
      BY <2>1, <3>1, <3>2 DEF Ids
  <2>3. t.number + 1 \in 1 .. MaxRotations /\ t.number + 1 \in 1 .. Len(opened[t.session].credentials)
    <3> DEFINE number == t.number
               count == Len(opened[t.session].credentials)
    <3>1. number \in 1 .. count /\ number < count /\ count \in 1 .. MaxRotations
      BY <2>1
    <3>2. MaxRotations \in Nat
      BY Bounds
    <3> HIDE DEF number, count
    <3>3. number + 1 \in 1 .. MaxRotations /\ number + 1 \in 1 .. count
      BY <3>1, <3>2
    <3> QED
      BY <3>3 DEF number, count
  <2>4. t \in Tokens
    BY <1>1, <2>1, SessionFields DEF NoToken
  <2>5. next \in Tokens /\ next.session = t.session /\ next.number = t.number + 1
    BY <2>2, <2>3, <2>4 DEF Tokens
  <2> HIDE DEF next
  <2> QED
    BY <1>2, <2>1, <2>3, <2>5 DEF IssuedThen
<1>6. /\ \A q \in Phones : q # p => store'[q] = store[q] /\ login'[q] = login[q]
      /\ \/ store'[p] = store[p] /\ login'[p] = login[p]
         \/ store'[p] = NoToken /\ login'[p] = Outdated(login[p]) /\ Clears(p)
         \/ store'[p] = next /\ login'[p] = login[p] /\ call[p].step = "rotated"
      /\ DOMAIN store' = Phones /\ DOMAIN login' = Phones
      /\ store' = [q \in Phones |-> store'[q]] /\ login' = [q \in Phones |-> login'[q]]
  BY <1>1 DEF FinishRefresh, SessionsTypeOK, PhoneType
<1> HIDE DEF next
<1>7. store' \in [Phones -> Tokens \cup {NoToken}]
  BY <1>1, <1>5, <1>6 DEF SessionsTypeOK
<1>8. login' \in [Phones -> LoginRows]
  BY <1>1, <1>6, OutdatedRows DEF PhoneType
<1>9. PhoneType'
  BY <1>1, <1>2, <1>4, <1>8 DEF PhoneType
<1>10. \A q \in Phones : call'[q] = call[q] \/ call'[q].step = "idle"
  BY <1>1, <1>2, <1>4 DEF PhoneType
<1>11. TokensIssued' /\ AnswersStand'
  BY <1>1, <1>2, <1>3, <1>5, <1>6, <1>9, <1>10, OutdatedRows, PhoneFrame
<1>12. SignedOutStaysOut' /\ FreshIsWanted'
  <2>1. store'[p] # NoToken => store'[p] = store[p] \/ wants[p]
    <3>1. CASE store'[p] = next /\ call[p].step = "rotated"
      <4>1. store[p] # NoToken \/ store'[p] = store[p]
        <5>1. ~Clears(p)
          BY <3>1 DEF Clears
        <5>2. store[p] = t \/ store' = store
          BY <3>1, <5>1 DEF FinishRefresh
        <5>3. t # NoToken
          BY <1>1, SessionFields DEF Issued, NoToken
        <5> QED
          BY <5>2, <5>3
      <4> QED
        BY <1>1, <4>1 DEF SignedOutStaysOut
    <3> QED
      BY <1>6, <3>1
  <2>2. login'[p].fresh => login'[p] = login[p]
    BY <1>1, <1>6, OutdatedRows
  <2> QED
    BY <1>1, <1>2, <1>6, <2>1, <2>2, WishesFrame
<1>13. SessionsInv'
  BY <1>1, <1>2, <1>7, <1>9, <1>11, <1>12, PhoneOnly DEF SessionsTypeOK
<1>14. ASSUME NEW q \in Phones, store[q] # NoToken, store'[q] = NoToken
       PROVE  ~Usable(store[q])
  <2>1. q = p
    BY <1>6, <1>14
  <2>2. NoToken \notin Tokens
    BY DEF NoToken, Tokens, Ids
  <2>3. Clears(p)
    BY <1>5, <1>6, <1>14, <2>1, <2>2
  <2>4. store[p] = t /\ Dead(t)
    BY <2>3 DEF Clears, SessionsInv, AnswersStand
  <2>5. /\ opened[t.session].expires \in Nat
        /\ opened[t.session].credentials[t.number] \in Nat /\ hour \in Nat
    BY <1>1, IssuedFields
  <2> QED
    BY <2>1, <2>4, <2>5 DEF Usable, Unexpired, Dead
<1> QED
  BY <1>13, <1>14

(* A driver who signs out takes the credential from the phone. *)
LEMMA SignOutKeeps ==
  ASSUME SessionsInv, NEW p \in Phones, SignOut(p)
  PROVE  /\ SessionsInv'
         /\ \A q \in Phones : store[q] # NoToken /\ store'[q] = NoToken => ~wants'[q]
<1>1. /\ SessionsTypeOK /\ Rotations /\ PhoneType /\ TokensIssued /\ FreshIsWanted
      /\ SignedOutStaysOut /\ pin \in Pin /\ login[p] \in LoginRows
  BY PinTypes DEF SessionsInv, PhoneType
<1>2. /\ UNCHANGED <<hour, opened, pin, orders, call>>
      /\ wants' = [wants EXCEPT ![p] = FALSE] /\ store' = [store EXCEPT ![p] = NoToken]
      /\ login' = [login EXCEPT ![p] = Outdated(login[p])]
      /\ logouts' = IF store[p] = NoToken THEN logouts ELSE logouts \cup {store[p]}
  BY DEF SignOut, server
<1>3. Forward
  BY <1>1, <1>2, RowsRest
<1>4. /\ \A q \in Phones : q # p => store'[q] = store[q] /\ login'[q] = login[q]
      /\ store'[p] = NoToken /\ login'[p] = Outdated(login[p])
      /\ store' \in [Phones -> Tokens \cup {NoToken}]
  BY <1>1, <1>2 DEF SessionsTypeOK, PhoneType
<1>5. wants' \in [Phones -> BOOLEAN] /\ ~wants'[p] /\ \A q \in Phones : q # p => wants'[q] = wants[q]
  BY <1>1, <1>2 DEF SessionsTypeOK
<1>6. PhoneType'
  <2>1. login' \in [Phones -> LoginRows]
    BY <1>1, <1>2, OutdatedRows DEF PhoneType
  <2>2. logouts' \in SUBSET Tokens
    BY <1>1, <1>2 DEF PhoneType, SessionsTypeOK
  <2> QED
    BY <1>1, <1>2, <2>1, <2>2 DEF PhoneType
<1>7. \A t \in logouts' : t \in logouts \/ IssuedThen(t)
  <2>1. store[p] # NoToken => IssuedThen(store[p])
    BY <1>1, <1>3, IssuedStays DEF TokensIssued, SessionsTypeOK
  <2> QED
    BY <1>2, <2>1
<1>8. TokensIssued' /\ AnswersStand'
  BY <1>1, <1>2, <1>3, <1>4, <1>6, <1>7, OutdatedRows, PhoneFrame
<1>9. SignedOutStaysOut'
  BY <1>1, <1>4, <1>5 DEF SignedOutStaysOut
<1>10. FreshIsWanted'
  <2> SUFFICES ASSUME NEW q \in Phones, login'[q].fresh, login'[q].step # "idle"
               PROVE  wants'[q]
    BY DEF FreshIsWanted
  <2>1. q # p
    BY <1>1, <1>4, OutdatedRows
  <2> QED
    BY <1>1, <1>4, <1>5, <2>1 DEF FreshIsWanted
<1>11. SessionsInv'
  BY <1>1, <1>2, <1>4, <1>5, <1>6, <1>8, <1>9, <1>10, PhoneOnly
<1> QED
  BY <1>4, <1>5, <1>11

(* A logout that arrives ends the session it was told of, or nothing. *)
LEMMA LogoutKeeps == ASSUME SessionsInv, NEW t \in logouts, Logout(t) PROVE SessionsInv'
<1>1. /\ SessionsTypeOK /\ Rotations /\ PhoneType /\ TokensIssued /\ FreshIsWanted
      /\ SignedOutStaysOut /\ LiveIsCurrent /\ pin \in Pin
  BY PinTypes DEF SessionsInv
<1>2. /\ UNCHANGED <<hour, pin, orders, store, login, call, wants>> /\ logouts' \subseteq logouts
      /\ opened' = opened \/ opened' = End(t.session)
  BY <1>1 DEF Logout, TokensIssued, Issued
<1>3. Forward /\ LiveIsCurrent'
  <2>1. CASE opened' = opened
    BY <1>1, <1>2, <2>1, RowsRest DEF LiveIsCurrent
  <2>2. CASE opened' = End(t.session)
    <3>1. t.session \in DOMAIN opened
      BY <1>1 DEF TokensIssued, Issued
    <3> QED
      BY <1>1, <1>2, <2>2, <3>1, EndForward DEF LiveIsCurrent
  <2> QED
    BY <1>2, <2>1, <2>2
<1>4. PhoneType'
  BY <1>1, <1>2 DEF PhoneType
<1>5. TokensIssued' /\ AnswersStand'
  BY <1>2, <1>3, <1>4, PhoneFrame
<1>6. SessionsTypeOK' /\ Rotations'
  BY <1>1, <1>2, <1>3 DEF SessionsTypeOK, Forward, Rotations, Pin
<1>7. SignedOutStaysOut' /\ FreshIsWanted'
  BY <1>1, <1>2, WishesFrame
<1> QED
  BY <1>3, <1>4, <1>5, <1>6, <1>7 DEF SessionsInv

-----------------------------------------------------------------------------

(* There is nothing at the beginning. *)
LEMMA SessionsInvInit == SessionsInit => SessionsInv
<1> SUFFICES ASSUME SessionsInit PROVE SessionsInv
  OBVIOUS
<1>1. /\ NoLogin \in LoginRows /\ NoLogin.step = "idle" /\ NoLogin.token = NoToken
  BY DEF NoLogin, LoginRows
<1>2. Idle \in CallRows /\ Idle.step = "idle"
  BY DEF Idle, CallRows
<1>3. opened \in Seq(Session) /\ Len(opened) = 0 /\ DOMAIN opened = {}
  BY EmptySeq DEF SessionsInit
<1>4. hour \in 0 .. LastHour /\ orders \in 0 .. MaxOrders /\ Len(opened) <= MaxSessions /\ pin \in Pin
  BY <1>3, Bounds DEF SessionsInit, Pin
<1>5. SessionsTypeOK
  <2>1. store \in [Phones -> Tokens \cup {NoToken}] /\ wants \in [Phones -> BOOLEAN]
    BY DEF SessionsInit
  <2> QED
    BY <1>3, <1>4, <2>1 DEF SessionsTypeOK, Pin
<1>6. PhoneType
  BY <1>1, <1>2 DEF SessionsInit, PhoneType
<1>7. Rotations /\ LiveIsCurrent
  BY <1>3 DEF Rotations, LiveIsCurrent
<1>8. TokensIssued /\ AnswersStand /\ FreshIsWanted /\ SignedOutStaysOut
  BY <1>1, <1>2 DEF SessionsInit, TokensIssued, AnswersStand, FreshIsWanted, SignedOutStaysOut
<1> QED
  BY <1>5, <1>6, <1>7, <1>8 DEF SessionsInv

(* Every step keeps the invariant and clears only what is refused or       *)
(* signed out.                                                             *)
LEMMA SessionsStep ==
  ASSUME SessionsInv, [SessionsNext]_sessionVars
  PROVE  /\ SessionsInv'
         /\ \A p \in Phones :
              store[p] # NoToken /\ store'[p] = NoToken => ~wants'[p] \/ ~Usable(store[p])
<1>1. CASE UNCHANGED sessionVars
  BY <1>1 DEF sessionVars, server, phone, SessionsInv, SessionsTypeOK, PhoneType, Rotations,
     TokensIssued, Issued, AnswersStand, Consumed, Dead, FreshIsWanted, LiveIsCurrent,
     SignedOutStaysOut
<1>2. CASE HourPasses \/ Office \/ \E t \in logouts : Logout(t)
  <2>1. store' = store
    BY <1>2 DEF HourPasses, Office, ResetPin, Suspend, Activate, Unlock, Logout, phone
  <2> QED
    BY <1>2, <2>1, ClockKeeps, OfficeKeeps, LogoutKeeps
<1>3. ASSUME NEW p \in Phones, Phone(p)
      PROVE  /\ SessionsInv'
             /\ \A q \in Phones :
                  store[q] # NoToken /\ store'[q] = NoToken => ~wants'[q] \/ ~Usable(store[q])
  <2>1. CASE \/ \E typed \in 1 .. pin.version, own \in BOOLEAN : StartSignIn(p, typed, own)
             \/ RefuseSignIn(p) \/ FinishSignIn(p) \/ LoseSignIn(p) \/ OpenSession(p)
    <3>1. \A q \in Phones : store'[q] = store[q] \/ store'[q] # NoToken
      BY <2>1 DEF StartSignIn, RefuseSignIn, FinishSignIn, LoseSignIn, OpenSession, SessionsInv,
         SessionsTypeOK
    <3> QED
      BY <2>1, <3>1, SignInKeeps, OpenSessionKeeps
  <2>2. CASE \/ StartRefresh(p) \/ LoseRefresh(p) \/ Refresh(p)
             \/ \E s \in DOMAIN opened : RevokeSession(p, s)
             \/ \E typed \in 1 .. pin.version : ChangePin(p, typed)
    <3>1. store' = store
      BY <2>2 DEF StartRefresh, LoseRefresh, Refresh, RevokeSession, ChangePin, phone
    <3> QED
      BY <2>2, <3>1, AskKeeps, RefreshKeeps, AccountKeeps
  <2>3. CASE FinishRefresh(p) \/ SignOut(p)
    BY <2>3, FinishRefreshKeeps, SignOutKeeps
  <2> QED
    BY <1>3, <2>1, <2>2, <2>3 DEF Phone
<1> QED
  BY <1>1, <1>2, <1>3 DEF SessionsNext

(* Whatever sign-ins, refreshes, sign-outs, lost answers, PIN changes and  *)
(* suspensions cross: a live session belongs to the PIN of the moment and  *)
(* an active account, a driver who signed out stays out, and a phone loses *)
(* its credential only to a sign-out or when the server would refuse it    *)
(* (AuthService.refresh, clearTokensIfRefreshMatches).                     *)
THEOREM SessionsAreSafe == SessionsSpec => SessionsSafe
<1>1. SessionsInv /\ [SessionsNext]_sessionVars =>
        SessionsInv' /\ [\A p \in Phones : store[p] # NoToken /\ store'[p] = NoToken =>
                           ~wants'[p] \/ ~Usable(store[p])]_sessionVars
  BY SessionsStep
<1>2. SessionsInv => SessionsTypeOK /\ LiveIsCurrent /\ SignedOutStaysOut
  BY DEF SessionsInv
<1> QED
  BY SessionsInvInit, <1>1, <1>2, PTL DEF SessionsSpec, SessionsSafe, OnlyRefusedIsCleared

-----------------------------------------------------------------------------
(* Delivery: the outboxes of a driver                                      *)

(* The rows of the driver, of a message and of what a drain is doing       *)
DriverType ==
  [deleted : BOOLEAN, archived : BOOLEAN, active : BOOLEAN, version : Nat,
   temporary : BOOLEAN, until : Int, contact : Nat, signedIn : BOOLEAN,
   device : {"mine", "theirs", "revoked"}]
MessageType ==
  [kind : {"sms", "mail", "push", "closed"}, version : Nat, contact : Nat,
   state : Waiting \cup {"accepted", "cancelled", "failed", "unknown"},
   holder : Drains \cup {Nobody}, lease : Int, first : Int, tries : Nat, next : Int,
   expires : Int]
DrainType == [at : {"rest", "claimed", "sending", "answered"}, id : 0 .. MaxMessages,
              answer : {"none", "taken", "refused", "lost"}]

DeliveryTyped ==
  /\ tick \in 0 .. LastTick
  /\ driver \in DriverType
  /\ outbox \in Seq(MessageType) /\ Len(outbox) <= MaxMessages
  /\ drain \in [Drains -> DrainType]
  /\ copies \in [1 .. MaxMessages -> Nat] /\ remembered \in [1 .. MaxMessages -> Int]

OneSender == \A d, e \in Drains : Sending(d) /\ Sending(e) => d = e

(* What a message says, while it is being sent                             *)
Truth(m) ==
  \/ m.kind \in Credentials /\ RightPin(m)
  \/ m.kind = "push" /\ Known /\ driver.device = "mine"
  \/ m.kind = "closed" /\ driver.deleted
SendersHold ==
  \A d \in Drains :
    /\ ~At(d, "rest") => drain[d].id \in Rows
    /\ At(d, "sending") => Truth(Mine(d))
    /\ At(d, "answered") /\ drain[d].answer = "taken" => copies[drain[d].id] > 0
ClosedIsDeleted == \A i \in Rows : outbox[i].kind = "closed" => driver.deleted

(* An SMS belongs to the one drain that claimed it, and is not sent        *)
(* before that drain sends it.                                             *)
On(d, i) == ~At(d, "rest") /\ drain[d].id = i
TextedOnce ==
  \A i \in Rows : outbox[i].kind = "sms" =>
    /\ copies[i] <= 1
    /\ outbox[i].state = "pending" => copies[i] = 0 /\ \A d \in Drains : ~On(d, i)
    /\ \A d \in Drains : On(d, i) /\ ~At(d, "answered") => copies[i] = 0
    /\ \A d, e \in Drains : On(d, i) /\ On(e, i) => d = e

(* A mail that went out is known to the provider since a moment no earlier *)
(* than the first claim, from which the ceiling counts.                    *)
MailedOnce ==
  \A i \in Rows : outbox[i].kind \in Mails =>
    /\ copies[i] <= 1
    /\ remembered[i] = Unset => copies[i] = 0
    /\ outbox[i].first <= tick
    /\ remembered[i] # Unset =>
         copies[i] = 1 /\ outbox[i].first # Unset /\ outbox[i].first <= remembered[i]
    /\ \A d \in Drains : On(d, i) => outbox[i].first # Unset
    /\ \A d \in Drains : On(d, i) /\ At(d, "sending") => tick - outbox[i].first < Ceiling
Unqueued ==
  \A i \in 1 .. MaxMessages : i \notin Rows => copies[i] = 0 /\ remembered[i] = Unset

DeliveryInv ==
  /\ DeliveryTyped /\ OneSender /\ SendersHold /\ ClosedIsDeleted /\ TextedOnce /\ MailedOnce
  /\ Unqueued /\ AcceptedWentOut

(* Nothing is queued and nobody sends.                                     *)
LEMMA DeliveryInitInv == DeliveryInit => DeliveryInv
<1> SUFFICES ASSUME DeliveryInit PROVE DeliveryInv
  OBVIOUS
<1> USE DeliveryAssumption DEF DeliveryInit
<1>1. Rest \in DrainType /\ Rest.at = "rest"
  BY DEF Rest, DrainType
<1>2. DeliveryTyped
  BY <1>1, EmptySeq DEF DeliveryTyped, DriverType, Unset
<1>3. Rows = {}
  BY DEF Rows
<1>4. \A d \in Drains : At(d, "rest") /\ ~Sending(d)
  BY <1>1 DEF At, Sending
<1>5. OneSender /\ SendersHold /\ ClosedIsDeleted
  BY <1>3, <1>4, <1>1 DEF OneSender, SendersHold, ClosedIsDeleted, At
<1>6. TextedOnce /\ MailedOnce /\ Unqueued /\ AcceptedWentOut
  BY <1>3 DEF TextedOnce, MailedOnce, Unqueued, AcceptedWentOut
<1>7. QED
  BY <1>2, <1>5, <1>6 DEF DeliveryInv

-----------------------------------------------------------------------------
USE DEF DeliveryInv

(* Rows may be cancelled and added while drains go on: the message that is *)
(* being sent stays as it is and stays true.                               *)
LEMMA OfficeKeepsDelivery ==
  ASSUME DeliveryInv, UNCHANGED <<tick, drain, copies, remembered>>,
         driver' \in DriverType, driver.deleted => driver'.deleted,
         outbox' \in Seq(MessageType),
         Len(outbox) <= Len(outbox'), Len(outbox') <= MaxMessages,
         \A i \in Rows :
           /\ outbox'[i].kind = outbox[i].kind /\ outbox'[i].first = outbox[i].first
           /\ outbox'[i].state = outbox[i].state \/ outbox'[i].state \in {"cancelled", "unknown"},
         \A i \in 1 .. Len(outbox') : i \notin Rows =>
           /\ outbox'[i].state = "pending" /\ outbox'[i].first = Unset
           /\ outbox'[i].kind = "closed" => driver'.deleted,
         \A d \in Drains : At(d, "sending") => Truth(Mine(d))'
  PROVE  DeliveryInv'
<1>1. DeliveryTyped'
  BY DEF DeliveryTyped
<1>2. Rows \subseteq Rows' /\ Len(outbox) \in Nat /\ Len(outbox') \in Nat
  BY LenProperties DEF Rows, DeliveryTyped
<1>3. OneSender'
  BY DEF OneSender, Sending
<1>4. SendersHold'
  BY <1>2 DEF SendersHold, At
<1>5. ClosedIsDeleted'
  BY <1>2 DEF ClosedIsDeleted, Rows
<1>6. \A i \in Rows' \ Rows : i \in 1 .. MaxMessages /\ copies[i] = 0 /\ remembered[i] = Unset
  BY <1>2, DeliveryAssumption DEF Unqueued, Rows
<1>7. \A i \in Rows' \ Rows, d \in Drains : ~On(d, i)
  BY DEF SendersHold, On
<1>8. TextedOnce'
  <2> SUFFICES ASSUME NEW i \in Rows', (outbox[i].kind = "sms")'
               PROVE  /\ copies[i] <= 1
                      /\ outbox'[i].state = "pending" => copies[i] = 0 /\ \A d \in Drains : ~On(d, i)
                      /\ \A d \in Drains : On(d, i) /\ ~At(d, "answered") => copies[i] = 0
                      /\ \A d, e \in Drains : On(d, i) /\ On(e, i) => d = e
    BY DEF TextedOnce, On, At
  <2>1. CASE i \in Rows
    BY <2>1 DEF TextedOnce
  <2>2. CASE i \notin Rows
    BY <2>2, <1>6, <1>7
  <2>3. QED
    BY <2>1, <2>2
<1>9. MailedOnce'
  <2> SUFFICES ASSUME NEW i \in Rows', outbox'[i].kind \in Mails
               PROVE  /\ copies[i] <= 1
                      /\ remembered[i] = Unset => copies[i] = 0
                      /\ outbox'[i].first <= tick
                      /\ remembered[i] # Unset =>
                           copies[i] = 1 /\ outbox'[i].first # Unset /\ outbox'[i].first <= remembered[i]
                      /\ \A d \in Drains : On(d, i) => outbox'[i].first # Unset
                      /\ \A d \in Drains : On(d, i) /\ At(d, "sending") => tick - outbox'[i].first < Ceiling
    BY DEF MailedOnce, On, At
  <2>1. CASE i \in Rows
    BY <2>1 DEF MailedOnce
  <2>2. CASE i \notin Rows
    <3>1. outbox'[i].first = Unset
      BY <2>2 DEF Rows
    <3>2. QED
      BY <2>2, <3>1, <1>6, <1>7 DEF DeliveryTyped, Unset
  <2>3. QED
    BY <2>1, <2>2
<1>10. Unqueued' /\ AcceptedWentOut'
  BY <1>2 DEF Unqueued, AcceptedWentOut, Rows
<1>11. QED
  BY <1>1, <1>3, <1>4, <1>5, <1>8, <1>9, <1>10

(* A row that is settled keeps its kind and its first claim.               *)
LEMMA MessageSettled ==
  ASSUME NEW row \in MessageType, NEW s \in Waiting \cup {"accepted", "cancelled", "failed", "unknown"}
  PROVE  /\ [row EXCEPT !.state = s, !.holder = Nobody, !.lease = Unset] \in MessageType
         /\ [row EXCEPT !.state = s, !.holder = Nobody, !.lease = Unset].kind = row.kind
         /\ [row EXCEPT !.state = s, !.holder = Nobody, !.lease = Unset].first = row.first
         /\ [row EXCEPT !.state = s, !.holder = Nobody, !.lease = Unset].state = s
<1>1. Unset \in Int
  BY DEF Unset
<1>2. QED
  BY <1>1 DEF MessageType

(* cancelCredentialMail and cancelCredentialSms keep kind and first claim. *)
LEMMA CancelledKeeps ==
  ASSUME DeliveryInv, NEW kinds
  PROVE  /\ Cancelled(kinds) \in Seq(MessageType) /\ Len(Cancelled(kinds)) = Len(outbox)
         /\ Len(outbox) \in Nat
         /\ \A i \in Rows :
              /\ Cancelled(kinds)[i] \in MessageType
              /\ Cancelled(kinds)[i].kind = outbox[i].kind
              /\ Cancelled(kinds)[i].first = outbox[i].first
              /\ Cancelled(kinds)[i].state \in {outbox[i].state, "cancelled"}
<1>1. outbox \in Seq(MessageType) /\ Len(outbox) \in Nat
  BY LenProperties DEF DeliveryTyped
<1>2. \A i \in Rows : outbox[i] \in MessageType
  BY <1>1, ElementOfSeq DEF Rows
<1>3. ASSUME NEW i \in Rows
      PROVE  /\ Cancelled(kinds)[i] \in MessageType
             /\ Cancelled(kinds)[i].kind = outbox[i].kind
             /\ Cancelled(kinds)[i].first = outbox[i].first
             /\ Cancelled(kinds)[i].state \in {outbox[i].state, "cancelled"}
  <2>1. Cancelled(kinds)[i] =
          IF outbox[i].kind \in kinds /\ outbox[i].state \in Waiting
          THEN [outbox[i] EXCEPT !.state = "cancelled", !.holder = Nobody, !.lease = Unset]
          ELSE outbox[i]
    BY DEF Cancelled
  <2>2. CASE Cancelled(kinds)[i] = outbox[i]
    BY <1>2, <2>2
  <2>3. CASE Cancelled(kinds)[i] =
               [outbox[i] EXCEPT !.state = "cancelled", !.holder = Nobody, !.lease = Unset]
    <3>1. "cancelled" \in Waiting \cup {"accepted", "cancelled", "failed", "unknown"}
      OBVIOUS
    <3>2. outbox[i] \in MessageType
      BY <1>2
    <3> DEFINE c == Cancelled(kinds)[i]
               row == outbox[i]
    <3>3. c = [row EXCEPT !.state = "cancelled", !.holder = Nobody, !.lease = Unset]
      BY <2>3
    <3> HIDE DEF c, row
    <3>4. c \in MessageType /\ c.kind = row.kind /\ c.first = row.first /\ c.state = "cancelled"
      BY <3>1, <3>2, <3>3, MessageSettled, Zenon DEF row
    <3>5. QED
      BY <3>4 DEF c, row
  <2>4. QED
    BY <2>1, <2>2, <2>3
<1>4. Cancelled(kinds) \in [1 .. Len(outbox) -> MessageType]
  BY <1>3 DEF Cancelled, Rows
<1>5. Cancelled(kinds) \in Seq(MessageType)
  BY <1>1, <1>4, SeqDef
<1>6. Len(Cancelled(kinds)) = Len(outbox)
  BY <1>1, <1>4, <1>5, LenProperties
<1>7. QED
  BY <1>1, <1>3, <1>5, <1>6

(* A queue of at most one new message                                      *)
LEMMA AtMostOneMore ==
  ASSUME NEW rows \in Seq(MessageType), NEW n \in {0, 1}, NEW m \in MessageType
  PROVE  /\ rows \o [i \in 1 .. n |-> m] \in Seq(MessageType)
         /\ Len(rows) \in Nat
         /\ Len(rows \o [i \in 1 .. n |-> m]) = Len(rows) + n
         /\ \A i \in 1 .. Len(rows) : (rows \o [j \in 1 .. n |-> m])[i] = rows[i]
         /\ \A i \in 1 .. Len(rows) + n :
              i \notin 1 .. Len(rows) => (rows \o [j \in 1 .. n |-> m])[i] = m
<1> DEFINE added == [i \in 1 .. n |-> m]
<1>1. /\ added \in [1 .. n -> MessageType] /\ DOMAIN added = 1 .. n
      /\ \A i \in 1 .. n : added[i] = m
  OBVIOUS
<1> HIDE DEF added
<1>2. added \in Seq(MessageType)
  BY <1>1, SeqDef
<1>3. Len(added) \in Nat /\ DOMAIN added = 1 .. Len(added)
  BY <1>2, LenProperties
<1>4. Len(added) = n
  BY <1>1, <1>3
<1>5. /\ rows \o added \in Seq(MessageType) /\ Len(rows \o added) = Len(rows) + Len(added)
      /\ \A i \in 1 .. Len(rows) + Len(added) :
           (rows \o added)[i] = IF i <= Len(rows) THEN rows[i] ELSE added[i - Len(rows)]
  BY <1>2, ConcatProperties, Zenon
<1>6. Len(rows) \in Nat
  BY LenProperties
<1>7. \A i \in 1 .. Len(rows) : (rows \o added)[i] = rows[i]
  BY <1>4, <1>5, <1>6
<1>8. \A i \in 1 .. Len(rows) + n : i \notin 1 .. Len(rows) => (rows \o added)[i] = m
  BY <1>1, <1>4, <1>5, <1>6
<1>9. QED
  BY <1>4, <1>5, <1>6, <1>7, <1>8 DEF added

(* While nobody holds the driver's row, nothing is being sent.             *)
LEMMA Unlocked == ~DriverLocked => \A d \in Drains : ~At(d, "sending") /\ ~At(d, "answered")
BY DEF DriverLocked, Sending, At

(* What every step of the office or the driver needs to know               *)
LEMMA DriverFacts ==
  ASSUME DeliveryInv
  PROVE  /\ driver \in DriverType /\ tick \in Nat /\ outbox \in Seq(MessageType)
         /\ Len(outbox) \in Nat /\ Len(outbox) <= MaxMessages
         /\ \A i \in Rows : outbox[i] \in MessageType
         /\ drain \in [Drains -> DrainType]
BY LenProperties, ElementOfSeq, DeliveryAssumption DEF DeliveryTyped, Rows

(* The driver's row changes and waiting messages of some kinds are         *)
(* cancelled, while nobody sends.                                          *)
LEMMA CancellingKeepsDelivery ==
  ASSUME DeliveryInv, ~DriverLocked, UNCHANGED <<tick, drain, copies, remembered>>,
         driver' \in DriverType, driver.deleted => driver'.deleted,
         NEW kinds, outbox' = Cancelled(kinds)
  PROVE  DeliveryInv'
<1>1. \A i \in 1 .. Len(outbox') : i \in Rows
  BY CancelledKeeps DEF Rows
<1>2. QED
  BY <1>1, CancelledKeeps, DriverFacts, Unlocked, OfficeKeepsDelivery DEF Rows

(* The same, with at most one new message.                                 *)
LEMMA QueueingKeepsDelivery ==
  ASSUME DeliveryInv, ~DriverLocked, UNCHANGED <<tick, drain, copies, remembered>>,
         driver' \in DriverType, driver.deleted => driver'.deleted,
         NEW kinds, NEW new, NEW k \in {"sms", "mail", "push", "closed"}, new \in {{}, {k}},
         new # {} => Len(outbox) < MaxMessages, k = "closed" => driver'.deleted,
         NEW expires \in Nat, outbox' = Queue(Cancelled(kinds), new, expires)
  PROVE  DeliveryInv'
<1> DEFINE rows == Cancelled(kinds)
<1>1. /\ rows \in Seq(MessageType) /\ Len(rows) = Len(outbox) /\ Len(outbox) \in Nat
      /\ \A i \in Rows :
           /\ rows[i].kind = outbox[i].kind /\ rows[i].first = outbox[i].first
           /\ rows[i].state \in {outbox[i].state, "cancelled"}
  BY CancelledKeeps
<1>2. driver \in DriverType /\ tick \in Nat /\ Len(outbox) <= MaxMessages
  BY DriverFacts
<1> HIDE DEF rows
<1>3. /\ outbox' \in Seq(MessageType)
      /\ Len(outbox') = IF new = {} THEN Len(outbox) ELSE Len(outbox) + 1
      /\ \A i \in Rows : outbox'[i] = rows[i]
      /\ \A i \in 1 .. Len(outbox') : i \notin Rows =>
           outbox'[i].state = "pending" /\ outbox'[i].first = Unset /\ outbox'[i].kind = k
  <2>1. outbox' = Queue(rows, new, expires)
    BY DEF rows
  <2>2. /\ outbox' \in Seq(MessageType)
        /\ Len(outbox') = IF new = {} THEN Len(rows) ELSE Len(rows) + 1
        /\ \A i \in 1 .. Len(rows) : outbox'[i] = rows[i]
        /\ \A i \in 1 .. Len(outbox') : i \notin 1 .. Len(rows) =>
             outbox'[i].state = "pending" /\ outbox'[i].first = Unset /\ outbox'[i].kind = k
    <3>1. PICK here, then : here = driver.contact /\ then = driver'.version
      OBVIOUS
    <3> DEFINE m == [kind |-> k, version |-> then, contact |-> here, state |-> "pending",
                     holder |-> Nobody, lease |-> Unset, first |-> Unset, tries |-> 0, next |-> tick,
                     expires |-> expires]
               n == IF new = {} THEN 0 ELSE 1
    <3>2. /\ m \in MessageType /\ n \in {0, 1}
          /\ m.state = "pending" /\ m.first = Unset /\ m.kind = k
      BY <1>2, <3>1 DEF MessageType, DriverType, Waiting, Unset
    <3>5. outbox' = rows \o [i \in 1 .. n |-> m]
      <4>1. CASE new = {}
        <5>1. outbox' = rows \o [i \in 1 .. 0 |-> Message(CHOOSE j \in new : TRUE, expires)]
          BY <2>1, <4>1 DEF Queue
        <5>2. /\ [i \in 1 .. 0 |-> Message(CHOOSE j \in new : TRUE, expires)] = <<>>
              /\ [i \in 1 .. n |-> m] = <<>>
          BY <4>1
        <5>3. QED
          BY <5>1, <5>2, Zenon
      <4>2. CASE new = {k}
        <5>1. (CHOOSE j \in new : TRUE) = k
          BY <4>2
        <5>2. Message(CHOOSE j \in new : TRUE, expires) = m
          BY <3>1, <5>1 DEF Message
        <5>3. QED
          BY <2>1, <4>2, <5>2 DEF Queue
      <4>3. QED
        BY <4>1, <4>2
    <3>6. n = (IF new = {} THEN 0 ELSE 1)
      OBVIOUS
    <3> HIDE DEF m, n
    <3>3. /\ rows \o [i \in 1 .. n |-> m] \in Seq(MessageType)
          /\ Len(rows) \in Nat
          /\ Len(rows \o [i \in 1 .. n |-> m]) = Len(rows) + n
          /\ \A i \in 1 .. Len(rows) : (rows \o [j \in 1 .. n |-> m])[i] = rows[i]
          /\ \A i \in 1 .. Len(rows) + n :
               i \notin 1 .. Len(rows) => (rows \o [j \in 1 .. n |-> m])[i] = m
      BY <1>1, <3>2, AtMostOneMore
    <3>4. QED
      BY <3>2, <3>3, <3>5, <3>6
  <2>3. QED
    BY <1>1, <2>2 DEF Rows
<1>4. Len(outbox) <= Len(outbox') /\ Len(outbox') <= MaxMessages
  BY <1>1, <1>2, <1>3, DeliveryAssumption
<1>5. QED
  BY <1>1, <1>3, <1>4, Unlocked, OfficeKeepsDelivery

(* What the driver and the office do to the driver's row                   *)
LEMMA OfficeStepsKeepDelivery ==
  DeliveryInv /\ (SignIn \/ DriverChangesPin \/ SuspendDriver \/ Move \/ Archive) => DeliveryInv'
<1> SUFFICES ASSUME DeliveryInv, SignIn \/ DriverChangesPin \/ SuspendDriver \/ Move \/ Archive
             PROVE  DeliveryInv'
  OBVIOUS
<1>0. driver \in DriverType /\ tick \in Nat
  BY DriverFacts
<1>1. CASE SignIn
  <2>1. /\ driver' \in DriverType /\ driver'.deleted = driver.deleted /\ outbox' = outbox
        /\ ~DriverLocked /\ UNCHANGED <<tick, drain, copies, remembered>>
    BY <1>0, <1>1 DEF SignIn, DriverType
  <2>2. QED
    BY <2>1, DriverFacts, Unlocked, OfficeKeepsDelivery DEF Rows
<1>2. CASE DriverChangesPin
  <2>0. /\ driver' = [driver EXCEPT !.version = @ + 1, !.temporary = FALSE, !.until = Unset,
                                   !.signedIn = FALSE]
        /\ Unset \in Int
    BY <1>2 DEF DriverChangesPin, Unset
  <2>1. driver' \in DriverType /\ driver'.deleted = driver.deleted
    <3> DEFINE v == driver.version + 1
    <3>1. /\ driver' = [driver EXCEPT !.version = v, !.temporary = FALSE, !.until = Unset,
                                     !.signedIn = FALSE]
          /\ v \in Nat
      BY <1>0, <2>0 DEF DriverType
    <3> HIDE DEF v
    <3>2. QED
      BY <1>0, <2>0, <3>1 DEF DriverType
  <2>2. QED
    BY <1>2, <2>1, CancellingKeepsDelivery DEF DriverChangesPin
<1>3. CASE SuspendDriver
  <2>1. driver' \in DriverType /\ driver'.deleted = driver.deleted
    BY <1>0, <1>3 DEF SuspendDriver, DriverType
  <2>2. QED
    BY <1>3, <2>1, CancellingKeepsDelivery DEF SuspendDriver
<1>4. CASE Move
  <2>1. driver' \in DriverType /\ driver'.deleted = driver.deleted
    BY <1>0, <1>4 DEF Move, DriverType
  <2>2. QED
    BY <1>4, <2>1, CancellingKeepsDelivery DEF Move
<1>5. CASE Archive
  <2>1. driver' \in DriverType /\ driver'.deleted = driver.deleted
    BY <1>0, <1>5 DEF Archive, DriverType
  <2>2. QED
    BY <1>5, <2>1, CancellingKeepsDelivery DEF Archive
<1>6. QED
  BY <1>1, <1>2, <1>3, <1>4, <1>5

(* A reset of the PIN ends the messages about the older one.               *)
LEMMA ResetKeepsDelivery ==
  ASSUME DeliveryInv, NEW channel \in {{}, {"sms"}, {"mail"}}, OfficeResetsPin(channel)
  PROVE  DeliveryInv'
<1>0. driver \in DriverType /\ tick \in Nat /\ tick + PinLife \in Nat
  BY DriverFacts, DeliveryAssumption
<1>1. driver' \in DriverType /\ driver'.deleted = driver.deleted
  <2>1. driver' = [driver EXCEPT !.version = @ + 1, !.temporary = TRUE, !.until = tick + PinLife,
                                 !.signedIn = FALSE]
    BY DEF OfficeResetsPin
  <2>2. driver.version + 1 \in Nat /\ tick + PinLife \in Int
    BY <1>0 DEF DriverType
  <2> DEFINE v == driver.version + 1
             u == tick + PinLife
  <2>3. /\ driver' = [driver EXCEPT !.version = v, !.temporary = TRUE, !.until = u, !.signedIn = FALSE]
        /\ v \in Nat /\ u \in Int
    BY <2>1, <2>2
  <2> HIDE DEF v, u
  <2>4. QED
    BY <1>0, <2>3 DEF DriverType
<1>2. PICK k \in {"sms", "mail"} : channel \in {{}, {k}}
  OBVIOUS
<1>3. QED
  BY <1>0, <1>1, <1>2, QueueingKeepsDelivery DEF OfficeResetsPin

(* Closing the account: only now may the acknowledgement be queued.        *)
LEMMA ClosingKeepsDelivery ==
  ASSUME DeliveryInv, NEW mail \in {{}, {"closed"}}, CloseAccount(mail)
  PROVE  DeliveryInv'
<1>0. driver \in DriverType /\ tick \in Nat /\ LastTick + 1 \in Nat
  BY DriverFacts, DeliveryAssumption
<1>1. driver' \in DriverType /\ driver'.deleted
  BY <1>0 DEF CloseAccount, DriverType
<1>2. QED
  BY <1>0, <1>1, QueueingKeepsDelivery DEF CloseAccount

(* Steps that do not wait for the driver's row keep what is being said     *)
(* true.                                                                   *)
LEMMA FreeStepsKeepDelivery ==
  ASSUME DeliveryInv,
         Reinstate \/ FanOut \/ \E owner \in {"mine", "theirs"} : RegisterDevice(owner)
  PROVE  DeliveryInv'
<1>0. /\ driver \in DriverType /\ tick \in Nat /\ outbox \in Seq(MessageType)
      /\ Len(outbox) \in Nat /\ Len(outbox) <= MaxMessages
      /\ \A d \in Drains : At(d, "sending") => drain[d].id \in Rows /\ Truth(Mine(d))
  BY DriverFacts DEF SendersHold, At
<1>1. CASE Reinstate
  <2>1. /\ driver' \in DriverType /\ UNCHANGED <<tick, outbox, drain, copies, remembered>>
        /\ driver'.deleted = driver.deleted /\ driver'.archived = driver.archived
        /\ driver'.version = driver.version /\ driver'.temporary = driver.temporary
        /\ driver'.until = driver.until /\ driver'.contact = driver.contact
        /\ driver'.device = driver.device
    BY <1>0, <1>1 DEF Reinstate, DriverType
  <2>2. \A d \in Drains : At(d, "sending") => Truth(Mine(d))'
    BY <1>0, <2>1 DEF Truth, RightPin, Known, Mine
  <2>3. QED
    BY <1>0, <2>1, <2>2, OfficeKeepsDelivery DEF Rows
<1>2. ASSUME NEW owner \in {"mine", "theirs"}, RegisterDevice(owner)
      PROVE  DeliveryInv'
  <2>1. /\ driver' \in DriverType /\ UNCHANGED <<tick, outbox, drain, copies, remembered>>
        /\ driver'.deleted = driver.deleted /\ driver'.archived = driver.archived
        /\ driver'.version = driver.version /\ driver'.temporary = driver.temporary
        /\ driver'.until = driver.until /\ driver'.contact = driver.contact
    BY <1>0, <1>2 DEF RegisterDevice, DriverType
  <2>2. \A d \in Drains : At(d, "sending") => Mine(d).kind # "push"
    BY <1>2 DEF RegisterDevice, DeviceLocked, Sending, At, Mine
  <2>3. \A d \in Drains : At(d, "sending") => Truth(Mine(d))'
    BY <1>0, <2>1, <2>2 DEF Truth, RightPin, Known, Mine
  <2>4. QED
    BY <1>0, <2>1, <2>3, OfficeKeepsDelivery DEF Rows
<1>3. CASE FanOut
  <2>1. /\ driver' = driver /\ UNCHANGED <<tick, drain, copies, remembered>>
        /\ outbox' = Queue(outbox, {"push"}, tick + 1) /\ Len(outbox) < MaxMessages
    BY <1>3 DEF FanOut
  <2>2. /\ outbox' \in Seq(MessageType)
        /\ Len(outbox') = Len(outbox) + 1
        /\ \A i \in Rows : outbox'[i] = outbox[i]
        /\ \A i \in 1 .. Len(outbox') : i \notin Rows =>
             outbox'[i].state = "pending" /\ outbox'[i].first = Unset /\ outbox'[i].kind = "push"
    <3> DEFINE m == [kind |-> "push", version |-> driver.version, contact |-> driver.contact,
                     state |-> "pending", holder |-> Nobody, lease |-> Unset, first |-> Unset,
                     tries |-> 0, next |-> tick, expires |-> tick + 1]
    <3>1. m \in MessageType /\ m.state = "pending" /\ m.first = Unset /\ m.kind = "push"
      BY <1>0 DEF MessageType, DriverType, Waiting, Unset
    <3>2. outbox' = outbox \o [i \in 1 .. 1 |-> m]
      <4>1. (CHOOSE j \in {"push"} : TRUE) = "push" /\ {"push"} # {}
        OBVIOUS
      <4>2. Message(CHOOSE j \in {"push"} : TRUE, tick + 1) = m
        BY <2>1, <4>1 DEF Message
      <4>3. QED
        BY <2>1, <4>1, <4>2 DEF Queue
    <3> HIDE DEF m
    <3>3. /\ outbox \o [i \in 1 .. 1 |-> m] \in Seq(MessageType)
          /\ Len(outbox \o [i \in 1 .. 1 |-> m]) = Len(outbox) + 1
          /\ \A i \in 1 .. Len(outbox) : (outbox \o [j \in 1 .. 1 |-> m])[i] = outbox[i]
          /\ \A i \in 1 .. Len(outbox) + 1 :
               i \notin 1 .. Len(outbox) => (outbox \o [j \in 1 .. 1 |-> m])[i] = m
      BY <1>0, <3>1, AtMostOneMore
    <3>4. QED
      BY <1>0, <3>1, <3>2, <3>3 DEF Rows
  <2>3. \A d \in Drains : At(d, "sending") => Truth(Mine(d))'
    BY <1>0, <2>1, <2>2 DEF Truth, RightPin, Known, Mine
  <2>4. Len(outbox) <= Len(outbox') /\ Len(outbox') <= MaxMessages
    BY <1>0, <2>1, <2>2, DeliveryAssumption
  <2>5. QED
    BY <1>0, <2>1, <2>2, <2>3, <2>4, OfficeKeepsDelivery
<1>4. QED
  BY <1>1, <1>2, <1>3

(* The clock moves only while nobody sends, so a ceiling that was not      *)
(* reached when sending began is not reached when the message goes out.    *)
LEMMA TickKeepsDelivery == DeliveryInv /\ TickPasses => DeliveryInv'
<1> SUFFICES ASSUME DeliveryInv, TickPasses PROVE DeliveryInv'
  OBVIOUS
<1>1. /\ tick' = tick + 1 /\ tick' \in 0 .. LastTick /\ tick \in Nat
      /\ UNCHANGED <<driver, outbox, drain, copies, remembered>>
      /\ \A d \in Drains : ~At(d, "sending")
  BY DriverFacts, Unlocked, DeliveryAssumption DEF TickPasses, DeliveryTyped
<1>2. DeliveryTyped' /\ OneSender' /\ ClosedIsDeleted' /\ Unqueued' /\ AcceptedWentOut'
  BY <1>1 DEF DeliveryTyped, OneSender, Sending, ClosedIsDeleted, Unqueued, AcceptedWentOut, Rows
<1>3. SendersHold'
  BY <1>1 DEF SendersHold, At, Rows
<1>4. TextedOnce'
  BY <1>1 DEF TextedOnce, On, At, Rows
<1>5. MailedOnce'
  <2> SUFFICES ASSUME NEW i \in Rows, outbox[i].kind \in Mails
               PROVE  /\ copies[i] <= 1
                      /\ remembered[i] = Unset => copies[i] = 0
                      /\ outbox[i].first <= tick + 1
                      /\ remembered[i] # Unset =>
                           copies[i] = 1 /\ outbox[i].first # Unset /\ outbox[i].first <= remembered[i]
                      /\ \A d \in Drains : On(d, i) => outbox[i].first # Unset
    BY <1>1 DEF MailedOnce, On, At, Rows
  <2>1. outbox[i].first \in Int
    BY DriverFacts DEF MessageType
  <2>2. QED
    BY <1>1, <2>1 DEF MailedOnce
<1>6. QED
  BY <1>2, <1>3, <1>4, <1>5

-----------------------------------------------------------------------------
(* One row of the outbox and one drain change; nobody else sends that row. *)
LEMMA RowStep ==
  ASSUME DeliveryInv, NEW i \in Rows, NEW m, outbox' = [outbox EXCEPT ![i] = m],
         m \in MessageType, m.kind = outbox[i].kind
  PROVE  /\ outbox' \in Seq(MessageType) /\ Len(outbox') = Len(outbox) /\ Rows' = Rows
         /\ outbox'[i] = m /\ \A j \in Rows : j # i => outbox'[j] = outbox[j]
<1>1. outbox \in [1 .. Len(outbox) -> MessageType] /\ Len(outbox) \in Nat
  BY LenProperties, DriverFacts
<1>2. outbox' \in [1 .. Len(outbox) -> MessageType]
  BY <1>1 DEF Rows
<1>3. outbox' \in Seq(MessageType)
  BY <1>1, <1>2, SeqDef
<1>4. Len(outbox') = Len(outbox)
  BY <1>1, <1>2, <1>3, LenProperties
<1>5. QED
  BY <1>1, <1>3, <1>4 DEF Rows

(* A drain lets go of its message, as it stands or settled.                *)
LEMMA LettingGoKeepsDelivery ==
  ASSUME DeliveryInv, NEW d \in Drains, drain' = [drain EXCEPT ![d] = Rest],
         UNCHANGED <<tick, copies, remembered>>, driver' \in DriverType,
         driver'.deleted = driver.deleted,
         outbox' \in Seq(MessageType), Len(outbox') = Len(outbox), Rows' = Rows,
         \A i \in Rows :
           /\ outbox'[i].kind = outbox[i].kind /\ outbox'[i].first = outbox[i].first
           /\ outbox'[i].state = "pending" /\ outbox[i].kind = "sms" => outbox[i].state = "pending"
           /\ outbox'[i].state = "accepted" => copies[i] > 0,
         \A e \in Drains \ {d} : At(e, "sending") => Truth(Mine(e))'
  PROVE  DeliveryInv'
<1>0. /\ drain \in [Drains -> DrainType] /\ outbox \in Seq(MessageType)
      /\ Len(outbox) \in Nat /\ Len(outbox) <= MaxMessages
  BY DriverFacts
<1>1. /\ \A e \in Drains : e # d => drain'[e] = drain[e]
      /\ drain'[d] = Rest /\ Rest \in DrainType /\ Rest.at = "rest"
      /\ drain' \in [Drains -> DrainType]
  BY <1>0, DeliveryAssumption DEF Rest, DrainType
<1>2. DeliveryTyped'
  BY <1>0, <1>1 DEF DeliveryTyped
<1>3. OneSender'
  BY <1>1 DEF OneSender, Sending
<1>4. SendersHold'
  <2> SUFFICES ASSUME NEW e \in Drains
               PROVE  /\ drain'[e].at # "rest" => drain'[e].id \in Rows
                      /\ drain'[e].at = "sending" => Truth(Mine(e))'
                      /\ drain'[e].at = "answered" /\ drain'[e].answer = "taken" => copies[drain'[e].id] > 0
    BY DEF SendersHold, At
  <2>1. CASE e = d
    BY <1>1, <2>1
  <2>2. CASE e # d
    BY <1>1, <2>2 DEF SendersHold, At
  <2>3. QED
    BY <2>1, <2>2
<1>5. \A e \in Drains : /\ At(e, "rest")' \/ (e # d /\ ~At(e, "rest"))
                        /\ ~At(e, "rest")' => drain'[e] = drain[e]
  BY <1>1 DEF At
<1>6. \A e \in Drains, i \in Rows : On(e, i)' => e # d /\ On(e, i) /\ drain'[e] = drain[e]
  BY <1>1 DEF On, At
<1>7. ClosedIsDeleted' /\ Unqueued'
  BY DEF ClosedIsDeleted, Unqueued
<1>8. TextedOnce'
  <2> SUFFICES ASSUME NEW i \in Rows, outbox[i].kind = "sms"
               PROVE  /\ copies[i] <= 1
                      /\ outbox'[i].state = "pending" => copies[i] = 0 /\ \A e \in Drains : ~On(e, i)'
                      /\ \A e \in Drains : On(e, i)' /\ ~At(e, "answered")' => copies[i] = 0
                      /\ \A e, f \in Drains : On(e, i)' /\ On(f, i)' => e = f
    BY DEF TextedOnce, On, At
  <2>1. \A e \in Drains : On(e, i)' => On(e, i) /\ (At(e, "answered")' <=> At(e, "answered"))
    BY <1>6 DEF At
  <2>2. QED
    BY <2>1 DEF TextedOnce
<1>9. MailedOnce'
  <2> SUFFICES ASSUME NEW i \in Rows, outbox[i].kind \in Mails
               PROVE  /\ copies[i] <= 1
                      /\ remembered[i] = Unset => copies[i] = 0
                      /\ outbox[i].first <= tick
                      /\ remembered[i] # Unset =>
                           copies[i] = 1 /\ outbox[i].first # Unset /\ outbox[i].first <= remembered[i]
                      /\ \A e \in Drains : On(e, i)' => outbox[i].first # Unset
                      /\ \A e \in Drains : On(e, i)' /\ At(e, "sending")' => tick - outbox[i].first < Ceiling
    BY DEF MailedOnce, On, At
  <2>1. \A e \in Drains : On(e, i)' => On(e, i) /\ (At(e, "sending")' <=> At(e, "sending"))
    BY <1>6 DEF At
  <2>2. QED
    BY <2>1 DEF MailedOnce
<1>10. AcceptedWentOut'
  BY DEF AcceptedWentOut
<1>11. QED
  BY <1>2, <1>3, <1>4, <1>7, <1>8, <1>9, <1>10

(* A drain that finds the row taken, or dies, changes nothing else.        *)
LEMMA LeavingKeepsDelivery ==
  ASSUME DeliveryInv, NEW d \in Drains, LeaveIt(d) \/ Die(d)
  PROVE  DeliveryInv'
<1>1. drain' = [drain EXCEPT ![d] = Rest] /\ UNCHANGED <<tick, driver, outbox, copies, remembered>>
  BY DEF LeaveIt, Die
<1>2. \A e \in Drains \ {d} : At(e, "sending") => Truth(Mine(e))'
  <2> SUFFICES ASSUME NEW e \in Drains \ {d}, At(e, "sending") PROVE Truth(Mine(e))'
    OBVIOUS
  <2>1. drain'[e] = drain[e] /\ Truth(Mine(e))
    BY <1>1, DriverFacts DEF SendersHold
  <2>2. QED
    BY <1>1, <2>1 DEF Truth, RightPin, Known, Mine
<1>3. QED
  BY <1>1, <1>2, DriverFacts, LettingGoKeepsDelivery DEF AcceptedWentOut, Rows

(* A message that is no longer true, or too old, is settled unsent.        *)
LEMMA GivingUpKeepsDelivery ==
  ASSUME DeliveryInv, NEW d \in Drains, GiveUp(d)
  PROVE  DeliveryInv'
<1> DEFINE i == drain[d].id
           s == IF PastCeiling(Mine(d)) THEN "unknown" ELSE "cancelled"
           m == [Mine(d) EXCEPT !.state = s, !.holder = Nobody, !.lease = Unset]
<1>1. i \in Rows /\ outbox[i] \in MessageType /\ Mine(d) = outbox[i]
  BY DriverFacts DEF GiveUp, SendersHold, At, Mine
<1>2. /\ m \in MessageType /\ m.kind = outbox[i].kind /\ m.first = outbox[i].first
      /\ m.state \in {"unknown", "cancelled"}
  <2>1. s \in {"unknown", "cancelled"} /\ s \in Waiting \cup {"accepted", "cancelled", "failed", "unknown"}
    OBVIOUS
  <2>2. m = [outbox[i] EXCEPT !.state = s, !.holder = Nobody, !.lease = Unset]
    BY <1>1
  <2> HIDE DEF s, m, i
  <2>3. QED
    BY <1>1, <2>1, <2>2, MessageSettled, Zenon
<1>3. /\ drain' = [drain EXCEPT ![d] = Rest] /\ outbox' = [outbox EXCEPT ![i] = m]
      /\ UNCHANGED <<tick, driver, copies, remembered>> /\ ~DriverLocked
  BY DEF GiveUp, Put
<1> HIDE DEF m, i
<1>4. /\ outbox' \in Seq(MessageType) /\ Len(outbox') = Len(outbox) /\ Rows' = Rows
      /\ outbox'[i] = m /\ \A j \in Rows : j # i => outbox'[j] = outbox[j]
  BY <1>1, <1>2, <1>3, RowStep
<1>5. QED
  BY <1>1, <1>2, <1>3, <1>4, Unlocked, DriverFacts, LettingGoKeepsDelivery DEF AcceptedWentOut

(* The answer is recorded: accepted means taken, and an SMS is not retried. *)
LEMMA RecordingKeepsDelivery ==
  ASSUME DeliveryInv, NEW d \in Drains, RecordAnswer(d)
  PROVE  DeliveryInv'
<1> DEFINE i == drain[d].id
           s == Outcome(Mine(d), drain[d].answer)
           m == [Mine(d) EXCEPT !.state = s, !.holder = Nobody, !.lease = Unset, !.tries = @ + 1,
                                !.next = tick + 1]
<1>0. At(d, "answered") /\ drain[d] \in DrainType /\ tick \in Nat /\ driver \in DriverType
  BY DriverFacts DEF RecordAnswer
<1>1. i \in Rows /\ outbox[i] \in MessageType /\ Mine(d) = outbox[i]
  BY <1>0, DriverFacts DEF SendersHold, At, Mine
<1>2. /\ s = Outcome(outbox[i], drain[d].answer)
      /\ s \in {"accepted", "failed", "unknown", "pending"}
  BY <1>1 DEF Outcome
<1>3. /\ m \in MessageType /\ m.kind = outbox[i].kind /\ m.first = outbox[i].first
      /\ m.state = s
  <2>1. Unset \in Int /\ tick + 1 \in Int /\ outbox[i].tries + 1 \in Nat
        /\ s \in Waiting \cup {"accepted", "cancelled", "failed", "unknown"}
    BY <1>0, <1>1, <1>2 DEF Unset, MessageType, Waiting
  <2> HIDE DEF s
  <2>2. QED
    BY <1>1, <2>1 DEF MessageType
<1>4. /\ m.state = "pending" => outbox[i].kind # "sms"
      /\ m.state = "accepted" => copies[i] > 0
  BY <1>0, <1>1, <1>2, <1>3 DEF Outcome, SendersHold
<1>5. /\ drain' = [drain EXCEPT ![d] = Rest] /\ outbox' = [outbox EXCEPT ![i] = m]
      /\ UNCHANGED <<tick, copies, remembered>>
      /\ driver' \in DriverType /\ driver'.deleted = driver.deleted
  BY <1>0 DEF RecordAnswer, Put, DriverType
<1>6. \A e \in Drains \ {d} : ~At(e, "sending")
  BY <1>0 DEF OneSender, Sending, At
<1> HIDE DEF m, i
<1>7. /\ outbox' \in Seq(MessageType) /\ Len(outbox') = Len(outbox) /\ Rows' = Rows
      /\ outbox'[i] = m /\ \A j \in Rows : j # i => outbox'[j] = outbox[j]
  BY <1>1, <1>3, <1>5, RowStep
<1>8. \A j \in Rows :
        /\ outbox'[j].kind = outbox[j].kind /\ outbox'[j].first = outbox[j].first
        /\ outbox'[j].state = "pending" /\ outbox[j].kind = "sms" => outbox[j].state = "pending"
        /\ outbox'[j].state = "accepted" => copies[j] > 0
  BY <1>3, <1>4, <1>7 DEF AcceptedWentOut
<1>9. QED
  BY <1>5, <1>6, <1>7, <1>8, LettingGoKeepsDelivery

(* What is checked under the lock is true of the message from here on.     *)
LEMMA BeginningKeepsDelivery ==
  ASSUME DeliveryInv, NEW d \in Drains, Begin(d)
  PROVE  DeliveryInv'
<1> DEFINE i == drain[d].id
<1>0. /\ drain \in [Drains -> DrainType] /\ tick \in Nat
      /\ \A e \in Drains : ~At(e, "sending") /\ ~At(e, "answered")
  BY DriverFacts, Unlocked DEF Begin
<1>1. /\ At(d, "claimed") /\ UNCHANGED <<tick, driver, outbox, copies, remembered>>
      /\ drain' = [drain EXCEPT ![d].at = "sending"]
      /\ ~PastCeiling(Mine(d)) /\ StillEligible(Mine(d))
  BY DEF Begin
<1>2. /\ drain' \in [Drains -> DrainType] /\ drain'[d].at = "sending" /\ drain'[d].id = i
      /\ \A e \in Drains : e # d => drain'[e] = drain[e]
  BY <1>0, <1>1 DEF DrainType
<1>3. i \in Rows /\ outbox[i] \in MessageType /\ Mine(d) = outbox[i] /\ On(d, i)
  BY <1>1, DriverFacts DEF SendersHold, At, Mine, On
<1>4. Truth(outbox[i])
  <2>1. outbox[i].kind \in {"sms", "mail", "push", "closed"}
    BY <1>3 DEF MessageType
  <2>2. QED
    BY <1>1, <1>3, <2>1 DEF StillEligible, Truth, Credentials, ClosedIsDeleted
<1>5. Truth(Mine(d))'
  BY <1>1, <1>2, <1>3, <1>4 DEF Truth, RightPin, Known, Mine
<1> HIDE DEF i
<1>6. \A e \in Drains : drain'[e].id = drain[e].id /\ (drain'[e].at = "rest" <=> drain[e].at = "rest")
        /\ (e # d => drain'[e] = drain[e])
  BY <1>1, <1>2 DEF At, i
<1>7. DeliveryTyped' /\ ClosedIsDeleted' /\ Unqueued' /\ AcceptedWentOut' /\ Rows' = Rows
  BY <1>1, <1>2 DEF DeliveryTyped, ClosedIsDeleted, Unqueued, AcceptedWentOut, Rows
<1>8. OneSender'
  BY <1>0, <1>2 DEF OneSender, Sending, At
<1>9. SendersHold'
  <2> SUFFICES ASSUME NEW e \in Drains
               PROVE  /\ drain'[e].at # "rest" => drain'[e].id \in Rows
                      /\ drain'[e].at = "sending" => Truth(Mine(e))'
                      /\ drain'[e].at = "answered" /\ drain'[e].answer = "taken" => copies[drain'[e].id] > 0
    BY <1>1, <1>7 DEF SendersHold, At
  <2>1. CASE e = d
    BY <1>2, <1>3, <1>5, <2>1
  <2>2. CASE e # d
    BY <1>0, <1>2, <2>2 DEF SendersHold, At
  <2>3. QED
    BY <2>1, <2>2
<1>10. \A e \in Drains, j \in Rows : On(e, j)' <=> On(e, j)
  BY <1>6 DEF On, At
<1>11. \A e \in Drains : ~At(e, "answered")' /\ (At(e, "sending")' => e = d)
  BY <1>0, <1>2 DEF At
<1>12. TextedOnce'
  <2> SUFFICES ASSUME NEW j \in Rows, outbox[j].kind = "sms"
               PROVE  /\ copies[j] <= 1
                      /\ outbox[j].state = "pending" => copies[j] = 0 /\ \A e \in Drains : ~On(e, j)'
                      /\ \A e \in Drains : On(e, j)' => copies[j] = 0
                      /\ \A e, f \in Drains : On(e, j)' /\ On(f, j)' => e = f
    BY <1>1, <1>7 DEF TextedOnce, On, At
  <2>1. QED
    BY <1>0, <1>10 DEF TextedOnce
<1>13. MailedOnce'
  <2> SUFFICES ASSUME NEW j \in Rows, outbox[j].kind \in Mails
               PROVE  /\ copies[j] <= 1
                      /\ remembered[j] = Unset => copies[j] = 0
                      /\ outbox[j].first <= tick
                      /\ remembered[j] # Unset =>
                           copies[j] = 1 /\ outbox[j].first # Unset /\ outbox[j].first <= remembered[j]
                      /\ \A e \in Drains : On(e, j)' => outbox[j].first # Unset
                      /\ \A e \in Drains : On(e, j)' /\ At(e, "sending")' => tick - outbox[j].first < Ceiling
    BY <1>1, <1>7 DEF MailedOnce, On, At
  <2>1. ASSUME NEW e \in Drains, On(e, j)', At(e, "sending")' PROVE tick - outbox[j].first < Ceiling
    <3>1. j = i
      BY <1>11, <1>2, <2>1 DEF On
    <3>2. ~(tick - outbox[j].first >= Ceiling)
      BY <1>1, <1>3, <3>1 DEF PastCeiling
    <3>3. QED
      BY <1>0, <1>3, <3>1, <3>2, DeliveryAssumption DEF MessageType
  <2>2. QED
    BY <2>1, <1>10 DEF MailedOnce
<1>14. QED
  BY <1>7, <1>8, <1>9, <1>12, <1>13

(* A message goes out: a text for the first time, a mail for the first     *)
(* time or within the window in which the provider knows its key.          *)
LEMMA SendingKeepsDelivery ==
  ASSUME DeliveryInv, NEW d \in Drains, NEW answer \in {"taken", "refused", "lost"}, Send(d, answer)
  PROVE  DeliveryInv'
<1> DEFINE i == drain[d].id
<1>0. /\ drain \in [Drains -> DrainType] /\ tick \in Nat
      /\ copies \in [1 .. MaxMessages -> Nat] /\ remembered \in [1 .. MaxMessages -> Int]
  BY DriverFacts DEF DeliveryTyped
<1>1. /\ At(d, "sending") /\ UNCHANGED <<tick, driver, outbox>>
      /\ drain' = [drain EXCEPT ![d].at = "answered", ![d].answer = answer]
      /\ \/ answer \in {"taken", "lost"} /\ Sent(outbox[i], i)
         \/ answer \in {"refused", "lost"} /\ UNCHANGED <<copies, remembered>>
  BY DEF Send, Mine
<1>2. /\ drain' \in [Drains -> DrainType] /\ drain'[d].at = "answered" /\ drain'[d].id = i
      /\ drain'[d].answer = answer
      /\ \A e \in Drains : e # d => drain'[e] = drain[e]
  BY <1>0, <1>1 DEF DrainType
<1>3. /\ i \in Rows /\ outbox[i] \in MessageType /\ On(d, i) /\ ~At(d, "answered")
      /\ i \in 1 .. MaxMessages
  BY <1>1, DriverFacts, DeliveryAssumption DEF SendersHold, At, On, Rows
<1>4. \A e \in Drains : e # d => ~At(e, "sending") /\ ~At(e, "answered")
  BY <1>1 DEF OneSender, Sending, At
<1> HIDE DEF i
<1>5. /\ copies' \in [1 .. MaxMessages -> Nat] /\ remembered' \in [1 .. MaxMessages -> Int]
      /\ \A j \in 1 .. MaxMessages : j # i => copies'[j] = copies[j] /\ remembered'[j] = remembered[j]
      /\ copies[i] > 0 => copies'[i] > 0
      /\ outbox[i].kind = "sms" => copies'[i] <= 1
      /\ outbox[i].kind \in Mails =>
           \/ copies'[i] = copies[i] /\ remembered'[i] = remembered[i]
           \/ copies'[i] = 1 /\ remembered'[i] = tick
      /\ answer = "taken" => copies'[i] > 0
  <2>1. CASE UNCHANGED <<copies, remembered>> /\ answer # "taken"
    BY <1>0, <1>3, <2>1 DEF TextedOnce
  <2>2. CASE Sent(outbox[i], i)
    <3>1. CASE outbox[i].kind \in Mails /\ remembered[i] # Unset
      <4>1. /\ tick - outbox[i].first < Ceiling /\ outbox[i].first <= remembered[i]
            /\ copies[i] = 1
        BY <1>1, <1>3, <3>1 DEF MailedOnce
      <4>2. outbox[i].first \in Int /\ remembered[i] \in Int
        BY <1>0, <1>3 DEF MessageType
      <4>3. tick - remembered[i] < Window
        BY <1>0, <4>1, <4>2, DeliveryAssumption
      <4>4. UNCHANGED <<copies, remembered>>
        BY <2>2, <3>1, <4>3 DEF Sent
      <4>5. QED
        BY <1>0, <1>3, <3>1, <4>1, <4>4 DEF Mails
    <3>2. CASE ~(outbox[i].kind \in Mails /\ remembered[i] # Unset)
      <4>1. /\ copies' = [copies EXCEPT ![i] = IF outbox[i].kind = "push" THEN 1 ELSE @ + 1]
            /\ remembered' = [remembered EXCEPT ![i] = IF outbox[i].kind \in Mails THEN tick ELSE @]
        BY <2>2, <3>2 DEF Sent
      <4>2. /\ outbox[i].kind = "sms" => copies[i] = 0
            /\ outbox[i].kind \in Mails => copies[i] = 0
        BY <1>3, <3>2 DEF TextedOnce, MailedOnce
      <4>3. /\ copies' \in [1 .. MaxMessages -> Nat] /\ remembered' \in [1 .. MaxMessages -> Int]
            /\ \A j \in 1 .. MaxMessages : j # i => copies'[j] = copies[j] /\ remembered'[j] = remembered[j]
        BY <1>0, <1>3, <4>1
      <4>4. copies'[i] = IF outbox[i].kind = "push" THEN 1 ELSE copies[i] + 1
        BY <1>0, <1>3, <4>1
      <4>5. outbox[i].kind \in Mails => remembered'[i] = tick
        BY <1>0, <1>3, <4>1
      <4>7. QED
        BY <1>0, <1>3, <4>2, <4>3, <4>4, <4>5, <3>2 DEF Mails
    <3>3. QED
      BY <3>1, <3>2
  <2>3. QED
    BY <1>1, <2>1, <2>2
<1>6. DeliveryTyped' /\ ClosedIsDeleted' /\ Rows' = Rows
  BY <1>1, <1>2, <1>5 DEF DeliveryTyped, ClosedIsDeleted, Rows
<1>7. \A j \in Rows : j \in 1 .. MaxMessages /\ (copies[j] > 0 => copies'[j] > 0)
  BY <1>0, <1>5, DriverFacts, DeliveryAssumption DEF Rows
<1>8. Unqueued' /\ AcceptedWentOut'
  <2>1. Unqueued'
    BY <1>3, <1>5, <1>6 DEF Unqueued
  <2>2. ASSUME NEW j \in Rows, outbox[j].state = "accepted" PROVE copies'[j] > 0
    BY <1>0, <1>5, <1>7, <2>2 DEF AcceptedWentOut
  <2>3. QED
    BY <1>1, <1>6, <2>1, <2>2 DEF AcceptedWentOut
<1>9. OneSender'
  BY <1>2, <1>4 DEF OneSender, Sending, At
<1>10. SendersHold'
  <2> SUFFICES ASSUME NEW e \in Drains
               PROVE  /\ drain'[e].at # "rest" => drain'[e].id \in Rows
                      /\ drain'[e].at = "sending" => Truth(Mine(e))'
                      /\ drain'[e].at = "answered" /\ drain'[e].answer = "taken" => copies'[drain'[e].id] > 0
    BY <1>1, <1>6 DEF SendersHold, At
  <2>1. CASE e = d
    BY <1>2, <1>3, <1>5, <2>1
  <2>2. CASE e # d
    BY <1>2, <1>4, <2>2 DEF SendersHold, At
  <2>3. QED
    BY <2>1, <2>2
<1>11. /\ \A e \in Drains, j \in Rows : On(e, j)' <=> On(e, j)
       /\ \A e \in Drains : ~At(e, "sending")'
       /\ \A e \in Drains : At(e, "answered")' <=> e = d
  BY <1>1, <1>2, <1>4 DEF On, At, i
<1>12. TextedOnce'
  <2> SUFFICES ASSUME NEW j \in Rows, outbox[j].kind = "sms"
               PROVE  /\ copies'[j] <= 1
                      /\ outbox[j].state = "pending" => copies'[j] = 0 /\ \A e \in Drains : ~On(e, j)
                      /\ \A e \in Drains : On(e, j) /\ e # d => copies'[j] = 0
                      /\ \A e, f \in Drains : On(e, j) /\ On(f, j) => e = f
    BY <1>1, <1>6, <1>11 DEF TextedOnce
  <2>1. CASE j = i
    <3>1. /\ outbox[j].state # "pending"
          /\ \A e, f \in Drains : On(e, j) /\ On(f, j) => e = f
      BY <1>3, <2>1 DEF TextedOnce
    <3>2. QED
      BY <1>3, <1>5, <2>1, <3>1
  <2>2. CASE j # i
    <3>1. copies'[j] = copies[j] /\ ~On(d, j)
      BY <1>5, <1>7, <2>2 DEF On, i
    <3>2. QED
      BY <1>4, <3>1 DEF TextedOnce
  <2>3. QED
    BY <2>1, <2>2
<1>13. MailedOnce'
  <2> SUFFICES ASSUME NEW j \in Rows, outbox[j].kind \in Mails
               PROVE  /\ copies'[j] <= 1
                      /\ remembered'[j] = Unset => copies'[j] = 0
                      /\ outbox[j].first <= tick
                      /\ remembered'[j] # Unset =>
                           copies'[j] = 1 /\ outbox[j].first # Unset /\ outbox[j].first <= remembered'[j]
                      /\ \A e \in Drains : On(e, j) => outbox[j].first # Unset
    BY <1>1, <1>6, <1>11 DEF MailedOnce
  <2>1. CASE copies'[j] = copies[j] /\ remembered'[j] = remembered[j]
    BY <2>1 DEF MailedOnce
  <2>2. CASE j = i /\ copies'[i] = 1 /\ remembered'[i] = tick
    BY <1>0, <1>3, <2>2 DEF MailedOnce, Unset
  <2>3. QED
    BY <1>5, <1>7, <2>1, <2>2
<1>14. QED
  BY <1>6, <1>8, <1>9, <1>10, <1>12, <1>13

(* An SMS whose claim is old is settled, unless it is being sent.          *)
LEMMA ReapingKeepsDelivery ==
  ASSUME DeliveryInv, NEW i \in Rows, Reap(i)
  PROVE  DeliveryInv'
<1> DEFINE m == [outbox[i] EXCEPT !.state = "unknown"]
<1>1. m \in MessageType /\ m.kind = outbox[i].kind /\ m.first = outbox[i].first /\ m.state = "unknown"
  BY DriverFacts DEF MessageType
<1>2. /\ outbox' = [outbox EXCEPT ![i] = m] /\ UNCHANGED <<tick, driver, drain, copies, remembered>>
      /\ ~RowLocked(i)
  BY DEF Reap
<1> HIDE DEF m
<1>3. /\ outbox' \in Seq(MessageType) /\ Len(outbox') = Len(outbox) /\ Rows' = Rows
      /\ outbox'[i] = m /\ \A j \in Rows : j # i => outbox'[j] = outbox[j]
  BY <1>1, <1>2, RowStep
<1>4. \A d \in Drains : At(d, "sending") => Truth(Mine(d))'
  <2> SUFFICES ASSUME NEW d \in Drains, At(d, "sending") PROVE Truth(Mine(d))'
    OBVIOUS
  <2>1. /\ drain[d].id \in Rows /\ drain[d].id # i /\ Truth(outbox[drain[d].id])
    BY <1>2 DEF RowLocked, SendersHold, Sending, At, Mine
  <2>2. QED
    BY <1>2, <1>3, <2>1 DEF Truth, RightPin, Known, Mine
<1>5. QED
  BY <1>1, <1>2, <1>3, <1>4, DriverFacts, OfficeKeepsDelivery DEF Rows

(* A claim: that of an SMS is its only one, that of a mail starts the      *)
(* ceiling when it is the first.                                           *)
LEMMA ClaimingKeepsDelivery ==
  ASSUME DeliveryInv, NEW d \in Drains, NEW i \in Rows, ClaimMessage(d, i)
  PROVE  DeliveryInv'
<1> DEFINE m == Claimed(d, i)
           mine == [at |-> "claimed", id |-> i, answer |-> "none"]
<1>0. /\ drain \in [Drains -> DrainType] /\ tick \in Nat /\ outbox[i] \in MessageType
      /\ i \in 1 .. MaxMessages
      /\ copies \in [1 .. MaxMessages -> Nat] /\ remembered \in [1 .. MaxMessages -> Int]
  BY DriverFacts, DeliveryAssumption DEF DeliveryTyped, Rows
<1>1. /\ drain[d].at = "rest" /\ outbox[i].state = "pending"
      /\ outbox[i].kind # "push" => ~RowLocked(i)
      /\ outbox' = [outbox EXCEPT ![i] = m] /\ drain' = [drain EXCEPT ![d] = mine]
      /\ UNCHANGED <<tick, driver, copies, remembered>>
  BY <1>0 DEF ClaimMessage, At, Due, Mails, MessageType
<1>2. /\ m \in MessageType /\ m.kind = outbox[i].kind
      /\ m.state \in Waiting /\ m.state # "accepted"
      /\ outbox[i].kind = "sms" => m.state = "sending"
      /\ outbox[i].kind = "push" => m = outbox[i]
      /\ outbox[i].kind \in Mails =>
            m.first = (IF outbox[i].first = Unset THEN tick ELSE outbox[i].first)
  <2>1. CASE outbox[i].kind = "sms"
    <3>1. m = [outbox[i] EXCEPT !.state = "sending", !.lease = tick]
      BY <2>1 DEF Claimed
    <3> HIDE DEF m
    <3>2. "sending" \in Waiting /\ tick \in Int /\ outbox[i].kind \notin Mails
      BY <1>0, <2>1 DEF Waiting, Mails
    <3>3. m \in MessageType /\ m.kind = outbox[i].kind /\ m.state = "sending"
      BY <1>0, <3>1, <3>2 DEF MessageType
    <3>4. QED
      BY <2>1, <3>2, <3>3
  <2>2. CASE outbox[i].kind = "push"
    <3>1. m = outbox[i]
      BY <2>2 DEF Claimed
    <3> HIDE DEF m
    <3>2. QED
      BY <1>0, <1>1, <2>2, <3>1 DEF Mails, Waiting
  <2>3. CASE outbox[i].kind \in Mails
    <3> DEFINE first == IF outbox[i].first = Unset THEN tick ELSE outbox[i].first
    <3>1. m = [outbox[i] EXCEPT !.holder = d, !.lease = tick, !.first = first]
      BY <2>3 DEF Claimed, Mails
    <3>2. first \in Int /\ tick \in Int
      BY <1>0 DEF MessageType
    <3> HIDE DEF first, m
    <3>3. m \in MessageType /\ m.kind = outbox[i].kind /\ m.state = outbox[i].state /\ m.first = first
      BY <1>0, <3>1, <3>2 DEF MessageType
    <3>4. QED
      BY <1>1, <2>3, <3>3 DEF Mails, Waiting, first
  <2>4. QED
    BY <1>0, <2>1, <2>2, <2>3 DEF MessageType, Mails
<1>3. /\ drain' \in [Drains -> DrainType] /\ drain'[d] = mine
      /\ mine.at = "claimed" /\ mine.id = i
      /\ \A e \in Drains : e # d => drain'[e] = drain[e]
  <2>1. mine \in DrainType
    BY <1>0 DEF DrainType
  <2>2. QED
    BY <1>0, <1>1, <2>1
<1> HIDE DEF m, mine
<1>4. /\ outbox' \in Seq(MessageType) /\ Len(outbox') = Len(outbox) /\ Rows' = Rows
      /\ outbox'[i] = m /\ \A j \in Rows : j # i => outbox'[j] = outbox[j]
  BY <1>1, <1>2, RowStep
<1>5. DeliveryTyped' /\ ClosedIsDeleted' /\ Unqueued'
  BY <1>1, <1>2, <1>3, <1>4 DEF DeliveryTyped, ClosedIsDeleted, Unqueued
<1>6. AcceptedWentOut'
  BY <1>1, <1>2, <1>4 DEF AcceptedWentOut
<1>7. OneSender'
  BY <1>1, <1>3 DEF OneSender, Sending
<1>8. SendersHold'
  <2> SUFFICES ASSUME NEW e \in Drains
               PROVE  /\ drain'[e].at # "rest" => drain'[e].id \in Rows
                      /\ drain'[e].at = "sending" => Truth(Mine(e))'
                      /\ drain'[e].at = "answered" /\ drain'[e].answer = "taken" => copies[drain'[e].id] > 0
    BY <1>1, <1>4 DEF SendersHold, At
  <2>1. CASE e = d
    BY <1>3, <2>1
  <2>2. CASE e # d
    <3>1. ASSUME drain[e].at = "sending" PROVE Truth(Mine(e))'
      <4>1. drain[e].id \in Rows /\ Truth(outbox[drain[e].id])
        BY <3>1 DEF SendersHold, At, Mine
      <4>2. outbox'[drain[e].id] = outbox[drain[e].id]
        BY <1>1, <1>2, <1>4, <3>1, <4>1 DEF RowLocked, Sending
      <4>3. QED
        BY <1>1, <1>3, <2>2, <4>1, <4>2 DEF Truth, RightPin, Known, Mine
    <3>2. QED
      BY <1>3, <2>2, <3>1 DEF SendersHold, At
  <2>3. QED
    BY <2>1, <2>2
<1>9. /\ \A e \in Drains, j \in Rows : On(e, j)' => On(e, j) \/ (e = d /\ j = i)
      /\ \A e \in Drains : At(e, "sending")' => At(e, "sending") /\ e # d
      /\ \A e \in Drains : e # d => (At(e, "answered")' <=> At(e, "answered"))
  BY <1>3 DEF On, At
<1>10. TextedOnce'
  <2> SUFFICES ASSUME NEW j \in Rows, outbox'[j].kind = "sms"
               PROVE  /\ copies[j] <= 1
                      /\ outbox'[j].state = "pending" => copies[j] = 0 /\ \A e \in Drains : ~On(e, j)'
                      /\ \A e \in Drains : On(e, j)' /\ ~At(e, "answered")' => copies[j] = 0
                      /\ \A e, f \in Drains : On(e, j)' /\ On(f, j)' => e = f
    BY <1>1, <1>4 DEF TextedOnce
  <2>1. CASE j = i
    <3>1. /\ copies[j] = 0 /\ (\A e \in Drains : ~On(e, j)) /\ outbox'[j].state # "pending"
      BY <1>1, <1>2, <1>4, <2>1 DEF TextedOnce
    <3>2. QED
      BY <1>9, <3>1
  <2>2. CASE j # i
    <3>1. outbox'[j] = outbox[j] /\ \A e \in Drains : On(e, j)' => On(e, j) /\ e # d
      BY <1>3, <1>4, <1>9, <2>2 DEF On
    <3>2. QED
      BY <1>9, <3>1 DEF TextedOnce
  <2>3. QED
    BY <2>1, <2>2
<1>11. MailedOnce'
  <2> SUFFICES ASSUME NEW j \in Rows, outbox'[j].kind \in Mails
               PROVE  /\ copies[j] <= 1
                      /\ remembered[j] = Unset => copies[j] = 0
                      /\ outbox'[j].first <= tick
                      /\ remembered[j] # Unset =>
                           copies[j] = 1 /\ outbox'[j].first # Unset /\ outbox'[j].first <= remembered[j]
                      /\ \A e \in Drains : On(e, j)' => outbox'[j].first # Unset
                      /\ \A e \in Drains : On(e, j)' /\ At(e, "sending")' => tick - outbox'[j].first < Ceiling
    BY <1>1, <1>4 DEF MailedOnce
  <2>1. CASE j = i
    <3>1. /\ outbox[j].kind \in Mails
          /\ outbox'[j].first = (IF outbox[j].first = Unset THEN tick ELSE outbox[j].first)
          /\ outbox'[j].first # Unset
      BY <1>0, <1>2, <1>4, <2>1 DEF Unset
    <3>2. \A e \in Drains : On(e, j)' /\ At(e, "sending")' => FALSE
      BY <1>1, <1>9, <2>1, <3>1 DEF RowLocked, On, Sending, At, Mails
    <3>3. /\ copies[j] <= 1
          /\ remembered[j] = Unset => copies[j] = 0
          /\ outbox[j].first <= tick
          /\ remembered[j] # Unset =>
               copies[j] = 1 /\ outbox[j].first # Unset /\ outbox[j].first <= remembered[j]
      BY <3>1 DEF MailedOnce
    <3>4. QED
      BY <1>0, <3>1, <3>2, <3>3
  <2>2. CASE j # i
    <3>1. outbox'[j] = outbox[j] /\ \A e \in Drains : On(e, j)' => On(e, j) /\ e # d
      BY <1>3, <1>4, <1>9, <2>2 DEF On
    <3>2. QED
      BY <1>9, <3>1 DEF MailedOnce
  <2>3. QED
    BY <2>1, <2>2
<1>12. QED
  BY <1>5, <1>6, <1>7, <1>8, <1>10, <1>11

(* Every step of Delivery keeps the invariant.                             *)
LEMMA DeliveryStep == DeliveryInv /\ [DeliveryNext]_deliveryVars => DeliveryInv'
<1> SUFFICES ASSUME DeliveryInv, [DeliveryNext]_deliveryVars PROVE DeliveryInv'
  OBVIOUS
<1>1. CASE UNCHANGED deliveryVars
  BY <1>1, DriverFacts, OfficeKeepsDelivery
     DEF deliveryVars, Rows, SendersHold, Truth, RightPin, Known, Mine, At
<1>2. ASSUME NEW d \in Drains,
             \/ LeaveIt(d) \/ GiveUp(d) \/ Begin(d) \/ RecordAnswer(d) \/ Die(d)
             \/ \E i \in Rows : ClaimMessage(d, i)
             \/ \E answer \in {"taken", "refused", "lost"} : Send(d, answer)
      PROVE  DeliveryInv'
  BY <1>2, LeavingKeepsDelivery, GivingUpKeepsDelivery, BeginningKeepsDelivery,
     RecordingKeepsDelivery, ClaimingKeepsDelivery, SendingKeepsDelivery
<1>3. ASSUME \E mail \in {{}, {"closed"}} : CloseAccount(mail) PROVE DeliveryInv'
  BY <1>3, ClosingKeepsDelivery
<1>4. ASSUME \E channel \in {{}, {"sms"}, {"mail"}} : OfficeResetsPin(channel) PROVE DeliveryInv'
  BY <1>4, ResetKeepsDelivery
<1>5. ASSUME \E i \in Rows : Reap(i) PROVE DeliveryInv'
  BY <1>5, ReapingKeepsDelivery
<1>6. QED
  BY <1>1, <1>2, <1>3, <1>4, <1>5, TickKeepsDelivery, OfficeStepsKeepDelivery, FreeStepsKeepDelivery
     DEF DeliveryNext

(* DeliverySafe (driver-sms.ts, email.ts, push.ts), for any drains,        *)
(* lifetimes and limits such that the ceiling of a mail lies within the    *)
(* window of the provider: nothing is texted or mailed twice, what is      *)
(* accepted went out, and a message is true when it goes out.              *)
THEOREM MessagesAreTrue == DeliverySpec => DeliverySafe
<1>1. DeliveryInv => DeliveryTypeOK /\ SentOnce /\ AcceptedWentOut
  <2> SUFFICES ASSUME DeliveryInv PROVE DeliveryTypeOK /\ SentOnce
    OBVIOUS
  <2>1. DeliveryTypeOK
    BY DriverFacts DEF DeliveryTypeOK, DeliveryTyped, MessageType, DrainType
  <2>2. SentOnce
    BY DriverFacts DEF SentOnce, TextedOnce, MailedOnce, MessageType, Mails
  <2>3. QED
    BY <2>1, <2>2
<1>2. DeliveryInv /\ [DeliveryNext]_deliveryVars =>
        [\A d \in Drains : At(d, "sending") /\ drain'[d].at = "answered" =>
           \/ Mine(d).kind \in Credentials /\ RightPin(Mine(d))
           \/ Mine(d).kind = "push" /\ Known /\ driver.device = "mine"
           \/ Mine(d).kind = "closed" /\ driver.deleted]_deliveryVars
  BY DEF SendersHold, Truth
<1>3. DeliverySpec => []DeliveryInv
  BY DeliveryInitInv, DeliveryStep, PTL DEF DeliverySpec
<1>4. QED
  BY <1>1, <1>2, <1>3, PTL DEF DeliverySpec, DeliverySafe, TrueWhenSent

HIDE DEF DeliveryInv

-----------------------------------------------------------------------------
(* TripPositions: the fixes of a trip                                      *)

(* The queue, in memory or in the storage                                  *)
QueueType == [rows : SUBSET Fixes, rejected : SUBSET Fixes, expired : SUBSET Fixes]
AppType ==
  [at : {"closed", "binding", "open"}, sharing : BOOLEAN, refused : BOOLEAN,
   finishing : BOOLEAN, upload : Fixes \cup {NoFix},
   answer : {"none", "failed", "receipt", "trip_not_active", "collection_session_expired",
             "capture_before_start", "capture_too_old"},
   ending : {"no", "flush", "asked"}]
Fits(q) == q.rejected \subseteq q.rows /\ Cardinality(q.rows) <= Capacity

PositionsTyped ==
  /\ moment \in 0 .. LastMoment
  /\ trip \in [status : {"scheduled", "active", "completed"}, since : Int]
  /\ stored \in SUBSET Fixes /\ live \in Fixes \cup {NoFix}
  /\ taken \in [Fixes -> Int]
  /\ app \in AppType
  /\ queue \in QueueType /\ disk \in QueueType
  /\ wire \in SUBSET (Fixes \cup {Completing})
  /\ seen \in SUBSET Fixes /\ dropped \in SUBSET Fixes
QueuesFit == Fits(queue) /\ Fits(disk)

(* Only an open app shares, uploads or ends a trip; what it knows is what  *)
(* it saved.                                                               *)
OpenToWork ==
  /\ app.sharing \/ app.upload # NoFix \/ app.ending # "no" => app.at = "open"
  /\ app.at = "open" => queue = disk

(* What the phone holds, what is on its way and what the server has was    *)
(* captured once.                                                          *)
OnlyCaptured ==
  /\ queue.rows \subseteq Saved /\ disk.rows \subseteq Saved
  /\ wire \subseteq Saved \cup {Completing} /\ stored \subseteq Saved
  /\ live # NoFix => live \in stored

(* A receipt the phone has read is true.                                   *)
ReceiptHolds == app.answer = "receipt" => app.upload \in stored

Elsewhere == stored \cup seen \cup dropped
Holds(q) == Saved \subseteq Elsewhere \cup q.rows \cup q.expired

(* While the app binds its queue, what was read is whole, and the storage  *)
(* is whole too unless nothing was left to send.                           *)
WholeWhileBinding ==
  app.at = "binding" => Holds(queue) /\ (Holds(disk) \/ (disk = Empty /\ queue.rows = {}))

PositionsInv ==
  /\ PositionsTyped /\ QueuesFit /\ OpenToWork /\ OnlyCaptured /\ ReceiptHolds
  /\ WholeWhileBinding /\ LiveIsNewest /\ NothingSlips

(* The fixes are finitely many, so that the queue can be counted.          *)
LEMMA SetsFit ==
  ASSUME NEW S \in SUBSET Fixes, NEW T \in SUBSET S
  PROVE  /\ IsFiniteSet(S) /\ Cardinality(T) <= Cardinality(S)
         /\ Cardinality(S) \in Nat /\ Cardinality(T) \in Nat
<1>1. 1 \in Int /\ MaxFixes \in Int
  BY PositionsAssumption
<1>2. IsFiniteSet(Fixes)
  BY <1>1, FS_Interval, Zenon DEF Fixes
<1>3. IsFiniteSet(S)
  BY <1>2, FS_Subset, Zenon
<1>4. IsFiniteSet(T) /\ Cardinality(T) <= Cardinality(S)
  BY <1>3, FS_Subset, Zenon
<1>5. QED
  BY <1>3, <1>4, FS_CardinalityType, Zenon

(* Pruning moves what is too old to the count, and loses nothing.          *)
LEMMA PrunedFits ==
  ASSUME NEW q \in QueueType, Fits(q), taken \in [Fixes -> Int]
  PROVE  /\ Pruned(q) \in QueueType /\ Fits(Pruned(q))
         /\ Pruned(q).rows \subseteq q.rows
         /\ Pruned(q).rows \cup Pruned(q).expired = q.rows \cup q.expired
<1>1. Aged(q.rows) \subseteq q.rows /\ q.rows \in SUBSET Fixes
  BY DEF Aged, QueueType
<1>2. /\ Pruned(q).rows = q.rows \ Aged(q.rows)
      /\ Pruned(q).rejected = q.rejected \ Aged(q.rows)
      /\ Pruned(q).expired = q.expired \cup Aged(q.rows)
      /\ Pruned(q) \in QueueType
  BY <1>1 DEF Pruned, Without, QueueType
<1>3. Cardinality(Pruned(q).rows) <= Cardinality(q.rows)
  BY <1>1, <1>2, SetsFit
<1>4. QED
  BY <1>1, <1>2, <1>3, SetsFit, PositionsAssumption DEF Fits, QueueType

(* What is left of a queue                                                 *)
LEMMA WithoutFits ==
  ASSUME NEW q \in QueueType, Fits(q), NEW F \in SUBSET Fixes
  PROVE  /\ Without(q, F) \in QueueType /\ Fits(Without(q, F))
         /\ Without(q, F).rows = q.rows \ F
         /\ Without(q, F).rejected = q.rejected \ F
         /\ Without(q, F).expired = q.expired
<1>1. /\ Without(q, F).rows = q.rows \ F
      /\ Without(q, F).rejected = q.rejected \ F
      /\ Without(q, F).expired = q.expired
      /\ Without(q, F) \in QueueType
  BY DEF Without, QueueType
<1>2. Cardinality(Without(q, F).rows) <= Cardinality(q.rows)
  BY <1>1, SetsFit DEF QueueType
<1>3. QED
  BY <1>1, <1>2, SetsFit, PositionsAssumption DEF Fits, QueueType

(* The app is open with an empty queue.                                    *)
LEMMA PositionsInitInv == PositionsInit => PositionsInv
<1> SUFFICES ASSUME PositionsInit PROVE PositionsInv
  OBVIOUS
<1> USE PositionsAssumption DEF PositionsInit, Empty, OpenApp, Closed
<1>1. PositionsTyped
  <2>1. moment \in 0 .. LastMoment /\ Untaken \in Int
    BY DEF Untaken
  <2>2. OpenApp \in AppType
    BY DEF AppType, NoFix
  <2>3. Empty \in QueueType
    BY DEF QueueType
  <2>4. QED
    BY <2>1, <2>2, <2>3 DEF PositionsTyped
<1>2. QueuesFit
  BY FS_EmptySet DEF QueuesFit, Fits
<1>3. Saved = {}
  BY DEF Saved
<1>4. OpenToWork /\ OnlyCaptured /\ ReceiptHolds /\ WholeWhileBinding
  BY <1>3 DEF OpenToWork, OnlyCaptured, ReceiptHolds, WholeWhileBinding, NoFix
<1>5. LiveIsNewest /\ NothingSlips
  BY <1>3 DEF LiveIsNewest, NothingSlips, NoFix
<1>6. QED
  BY <1>1, <1>2, <1>4, <1>5 DEF PositionsInv

-----------------------------------------------------------------------------
USE DEF PositionsInv

(* Time changes nothing by itself.                                         *)
LEMMA MomentKeepsPositions == PositionsInv /\ MomentPasses => PositionsInv'
<1> SUFFICES ASSUME PositionsInv, MomentPasses PROVE PositionsInv'
  OBVIOUS
<1> USE DEF MomentPasses
<1>1. PositionsTyped' /\ QueuesFit'
  BY PositionsAssumption DEF PositionsTyped, QueuesFit, Fits
<1>2. Saved' = Saved
  BY DEF Saved
<1>3. OpenToWork' /\ OnlyCaptured' /\ ReceiptHolds' /\ WholeWhileBinding'
  BY <1>2 DEF OpenToWork, OnlyCaptured, ReceiptHolds, WholeWhileBinding, Holds, Elsewhere
<1>4. LiveIsNewest' /\ NothingSlips'
  BY <1>2 DEF LiveIsNewest, NothingSlips
<1>5. QED
  BY <1>1, <1>3, <1>4

(* Steps of the app that leave queue, storage and fixes alone.             *)
LEMMA AppStepsKeepPositions ==
  ASSUME PositionsInv, app' \in AppType,
         UNCHANGED <<moment, stored, live, taken, queue, disk, seen, dropped>>,
         trip' \in [status : {"scheduled", "active", "completed"}, since : Int],
         wire' \subseteq wire \cup {Completing},
         app'.at = app.at,
         app'.sharing \/ app'.upload # NoFix \/ app'.ending # "no" => app.at = "open",
         app'.answer = "receipt" => app.answer = "receipt" /\ app'.upload = app.upload
  PROVE  PositionsInv'
<1>1. PositionsTyped' /\ QueuesFit'
  BY DEF PositionsTyped, QueuesFit, Fits
<1>2. Saved' = Saved
  BY DEF Saved
<1>3. OpenToWork' /\ OnlyCaptured' /\ ReceiptHolds' /\ WholeWhileBinding'
  BY <1>2 DEF OpenToWork, OnlyCaptured, ReceiptHolds, WholeWhileBinding, Holds, Elsewhere
<1>4. LiveIsNewest' /\ NothingSlips'
  BY <1>2 DEF LiveIsNewest, NothingSlips
<1>5. QED
  BY <1>1, <1>3, <1>4

(* Starting, sharing, retrying, ending: only the app's own state changes.  *)
LEMMA DriverStepsKeepPositions ==
  PositionsInv /\ (StartTrip \/ Share \/ Retry \/ TimeOut \/ BeginFlush \/ AskCompletion
                   \/ GiveUpEnding \/ CompleteTrip)
    => PositionsInv'
<1> SUFFICES ASSUME PositionsInv,
                    StartTrip \/ Share \/ Retry \/ TimeOut \/ BeginFlush \/ AskCompletion
                      \/ GiveUpEnding \/ CompleteTrip
             PROVE  PositionsInv'
  OBVIOUS
<1> USE DEF Stopped, NoFix
<1>0. /\ app \in AppType /\ wire \in SUBSET (Fixes \cup {Completing})
      /\ trip \in [status : {"scheduled", "active", "completed"}, since : Int]
      /\ moment \in Int
      /\ app.sharing \/ app.upload # NoFix \/ app.ending # "no" => app.at = "open"
  BY DEF PositionsTyped, OpenToWork
<1>1. CASE StartTrip
  <2>1. trip' \in [status : {"scheduled", "active", "completed"}, since : Int]
    BY <1>0, <1>1 DEF StartTrip
  <2>2. QED
    BY <1>0, <1>1, <2>1, AppStepsKeepPositions DEF StartTrip
<1>2. CASE Share
  <2>1. /\ app' \in AppType /\ app'.at = "open" /\ app'.answer = "none"
    BY <1>0, <1>2 DEF Share, AppType
  <2>2. QED
    BY <1>0, <1>2, <2>1, AppStepsKeepPositions DEF Share
<1>3. CASE Retry
  <2>1. /\ app' \in AppType /\ app'.at = "open" /\ app'.answer = "none"
    BY <1>0, <1>3 DEF Retry, AppType
  <2>2. QED
    BY <1>0, <1>3, <2>1, AppStepsKeepPositions DEF Retry
<1>4. CASE TimeOut
  <2>1. /\ app' \in AppType /\ app'.at = app.at /\ app'.answer = "failed"
        /\ app.at = "open"
    BY <1>0, <1>4 DEF TimeOut, AppType
  <2>2. QED
    BY <1>0, <1>4, <2>1, AppStepsKeepPositions DEF TimeOut
<1>5. CASE BeginFlush
  <2>1. /\ app' \in AppType /\ app'.at = app.at /\ app'.answer = app.answer
        /\ app'.upload = app.upload /\ app.at = "open"
    BY <1>0, <1>5 DEF BeginFlush, AppType
  <2>2. QED
    BY <1>0, <1>5, <2>1, AppStepsKeepPositions DEF BeginFlush
<1>6. CASE AskCompletion
  <2>1. /\ app' \in AppType /\ app'.at = app.at /\ app'.answer = app.answer
        /\ app'.upload = app.upload /\ app.at = "open"
    BY <1>0, <1>6 DEF AskCompletion, AppType
  <2>2. QED
    BY <1>0, <1>6, <2>1, AppStepsKeepPositions DEF AskCompletion
<1>7. CASE GiveUpEnding
  <2>1. /\ app' \in AppType /\ app'.at = app.at /\ app'.answer = app.answer
        /\ app'.upload = app.upload /\ app.at = "open"
    BY <1>0, <1>7 DEF GiveUpEnding, AppType
  <2>2. QED
    BY <1>0, <1>7, <2>1, AppStepsKeepPositions DEF GiveUpEnding
<1>8. CASE CompleteTrip
  <2>1. trip' \in [status : {"scheduled", "active", "completed"}, since : Int]
    BY <1>0, <1>8 DEF CompleteTrip
  <2>2. CASE app' = app
    BY <1>0, <1>8, <2>1, <2>2, AppStepsKeepPositions DEF CompleteTrip
  <2>3. CASE app.ending = "asked" /\ app' = [Stopped(app) EXCEPT !.ending = "no"]
    <3>1. /\ app' \in AppType /\ app'.at = app.at /\ app'.answer = "none"
          /\ app.at = "open"
      BY <1>0, <2>3 DEF AppType
    <3>2. QED
      BY <1>0, <1>8, <2>1, <3>1, AppStepsKeepPositions DEF CompleteTrip
  <2>4. QED
    BY <1>8, <2>2, <2>3 DEF CompleteTrip
<1>9. QED
  BY <1>1, <1>2, <1>3, <1>4, <1>5, <1>6, <1>7, <1>8

-----------------------------------------------------------------------------
(* Both the memory and the storage of an open app become q.                *)
LEMMA SavesKeepPositions ==
  ASSUME PositionsInv, NEW q \in QueueType, Fits(q), Save(q),
         app.at = "open", app' \in AppType, app'.at = "open",
         app'.answer = "receipt" => app'.upload \in stored,
         UNCHANGED <<moment, trip, stored, live, taken>>,
         q.rows \subseteq Saved,
         wire' \subseteq wire \cup Saved,
         seen' \in SUBSET Fixes, seen \subseteq seen',
         dropped' \in SUBSET Fixes, dropped \subseteq dropped',
         queue.rows \cup queue.expired
           \subseteq q.rows \cup q.expired \cup stored \cup seen' \cup dropped'
  PROVE  PositionsInv'
<1>1. PositionsTyped' /\ QueuesFit'
  BY DEF PositionsTyped, QueuesFit, Fits, Save, Saved
<1>2. Saved' = Saved
  BY DEF Saved
<1>3. OpenToWork' /\ OnlyCaptured' /\ ReceiptHolds' /\ WholeWhileBinding'
  BY <1>2 DEF OpenToWork, OnlyCaptured, ReceiptHolds, WholeWhileBinding, Save
<1>4. Saved \subseteq Elsewhere \cup queue.rows \cup queue.expired
  BY DEF NothingSlips, OpenToWork, Elsewhere
<1>5. NothingSlips'
  BY <1>2, <1>4 DEF NothingSlips, Elsewhere, Save
<1>6. LiveIsNewest'
  BY DEF LiveIsNewest
<1>7. QED
  BY <1>1, <1>3, <1>5, <1>6

(* What the queue holds when the app is open                               *)
LEMMA OpenQueue ==
  ASSUME PositionsInv
  PROVE  /\ queue \in QueueType /\ Fits(queue) /\ disk \in QueueType /\ Fits(disk)
         /\ queue.rows \subseteq Saved /\ disk.rows \subseteq Saved
         /\ queue.rejected \subseteq queue.rows
         /\ app \in AppType /\ taken \in [Fixes -> Int]
         /\ seen \in SUBSET Fixes /\ dropped \in SUBSET Fixes
         /\ app.sharing \/ app.upload # NoFix \/ app.ending # "no" => app.at = "open"
  BY DEF PositionsTyped, QueuesFit, Fits, OnlyCaptured, OpenToWork

(* What is acknowledged was shown.                                         *)
LEMMA ReviewKeepsPositions == PositionsInv /\ Review => PositionsInv'
<1> SUFFICES ASSUME PositionsInv, Review PROVE PositionsInv'
  OBVIOUS
<1> DEFINE rest == Without(queue, queue.rejected)
           q == [rest EXCEPT !.expired = {}]
<1>1. /\ queue \in QueueType /\ Fits(queue) /\ queue.rejected \in SUBSET Fixes
      /\ queue.rows \subseteq Saved /\ queue.expired \in SUBSET Fixes /\ seen \in SUBSET Fixes
  BY OpenQueue DEF QueueType
<1>2. /\ rest \in QueueType /\ Fits(rest) /\ rest.rows = queue.rows \ queue.rejected
  BY <1>1, WithoutFits
<1> HIDE DEF rest
<1>3. /\ q \in QueueType /\ q.rows = rest.rows /\ q.rejected = rest.rejected /\ q.expired = {}
  BY <1>2 DEF QueueType
<1>4. Fits(q)
  BY <1>2, <1>3 DEF Fits
<1>5. /\ Save(q) /\ app.at = "open" /\ app' = app /\ UNCHANGED <<moment, trip, stored, live, taken>>
      /\ wire' = wire /\ dropped' = dropped
      /\ seen' = seen \cup queue.rejected \cup queue.expired
  BY DEF Review, rest
<1> HIDE DEF q
<1>6. app \in AppType /\ dropped \in SUBSET Fixes /\ (app.answer = "receipt" => app.upload \in stored)
  BY OpenQueue DEF ReceiptHolds
<1>7. QED
  BY <1>1, <1>2, <1>3, <1>4, <1>5, <1>6, SavesKeepPositions

(* A sign-out drops what is left, on purpose.                              *)
LEMMA SignOutKeepsPositions == PositionsInv /\ DriverSignsOut => PositionsInv'
<1> SUFFICES ASSUME PositionsInv, DriverSignsOut PROVE PositionsInv'
  OBVIOUS
<1>1. /\ Empty \in QueueType /\ Fits(Empty) /\ Empty.rows = {}
  BY FS_EmptySet, PositionsAssumption DEF Empty, QueueType, Fits
<1>2. OpenApp \in AppType /\ OpenApp.at = "open" /\ OpenApp.answer = "none"
  BY DEF OpenApp, Closed, AppType, NoFix
<1>3. /\ queue.rows \in SUBSET Fixes /\ queue.expired \in SUBSET Fixes
      /\ dropped \in SUBSET Fixes /\ seen \in SUBSET Fixes
  BY OpenQueue DEF QueueType
<1>4. QED
  BY <1>1, <1>2, <1>3, SavesKeepPositions DEF DriverSignsOut

(* What is sent was captured; what is pruned is counted.                   *)
LEMMA UploadKeepsPositions == PositionsInv /\ Upload => PositionsInv'
<1> SUFFICES ASSUME PositionsInv, Upload PROVE PositionsInv'
  OBVIOUS
<1> DEFINE q == Pruned(queue)
           next == {f \in q.rows \ q.rejected : \A g \in q.rows \ q.rejected : f <= g}
<1>1. /\ q \in QueueType /\ Fits(q) /\ q.rows \subseteq queue.rows
      /\ q.rows \cup q.expired = queue.rows \cup queue.expired
  BY PrunedFits, OpenQueue
<1>2. /\ Save(q) /\ UNCHANGED <<moment, trip, stored, live, taken, seen, dropped>>
      /\ app.answer = "receipt" => app.upload \in stored
      /\ \/ next = {} /\ app' = app /\ wire' = wire
         \/ \E f \in next : /\ app' = [app EXCEPT !.upload = f, !.answer = "none"]
                            /\ wire' = wire \cup {f}
  BY OpenQueue DEF Upload, ReceiptHolds
<1>3. app.at = "open"
  BY OpenQueue DEF Upload
<1>4. /\ queue.rows \subseteq Saved /\ q.rows \in SUBSET Fixes
      /\ seen \in SUBSET Fixes /\ dropped \in SUBSET Fixes /\ app \in AppType
  BY <1>1, OpenQueue DEF QueueType
<1>5. next \subseteq q.rows
  OBVIOUS
<1> HIDE DEF q, next
<1>6. CASE next = {} /\ app' = app /\ wire' = wire
  BY <1>1, <1>2, <1>3, <1>4, <1>6, SavesKeepPositions DEF ReceiptHolds
<1>7. ASSUME NEW f \in next, app' = [app EXCEPT !.upload = f, !.answer = "none"],
             wire' = wire \cup {f}
      PROVE  PositionsInv'
  <2>1. f \in Saved /\ f \in Fixes
    BY <1>1, <1>4, <1>5
  <2>2. app' \in AppType /\ app'.at = "open" /\ app'.answer = "none"
    BY <1>3, <1>4, <1>7, <2>1 DEF AppType
  <2>3. QED
    BY <1>1, <1>2, <1>3, <1>4, <1>7, <2>1, <2>2, SavesKeepPositions
<1>8. QED
  BY <1>2, <1>6, <1>7

(* A fix leaves the queue on a receipt, which is true, or when its loss is *)
(* shown.                                                                  *)
LEMMA HandlingKeepsPositions == PositionsInv /\ HandleAnswer => PositionsInv'
<1> SUFFICES ASSUME PositionsInv, HandleAnswer PROVE PositionsInv'
  OBVIOUS
<1> DEFINE f == app.upload
           q == CASE app.answer \in Settles -> Without(queue, {f})
                  [] app.answer = "capture_too_old" ->
                       [queue EXCEPT !.rejected = @ \cup ({f} \cap queue.rows)]
                  [] app.answer = "collection_session_expired" ->
                       [queue EXCEPT !.rejected = queue.rows]
                  [] OTHER -> queue
<1>1. /\ queue \in QueueType /\ Fits(queue) /\ queue.rows \subseteq Saved
      /\ app \in AppType /\ f \in Fixes /\ app.at = "open"
      /\ seen \in SUBSET Fixes /\ dropped \in SUBSET Fixes
  BY OpenQueue DEF HandleAnswer, AppType
<1>2. /\ Save(q) /\ UNCHANGED <<moment, trip, stored, live, taken, wire, dropped>>
      /\ app' = IF app.answer \in {"trip_not_active", "collection_session_expired"}
                  THEN Refused(app) ELSE Rests(app)
      /\ seen' = IF app.answer = "capture_before_start" THEN seen \cup {f} ELSE seen
  BY DEF HandleAnswer
<1>3. app' \in AppType /\ app'.at = "open" /\ app'.answer = "none"
  BY <1>1, <1>2 DEF Refused, Rests, Stopped, AppType, NoFix
<1>4. q \in QueueType /\ Fits(q) /\ q.rows \subseteq queue.rows
        /\ q.expired = queue.expired /\ (app.answer \notin Settles => q.rows = queue.rows)
        /\ queue.rows \ {f} \subseteq q.rows
  <2>1. CASE app.answer \in Settles
    <3>1. q = Without(queue, {f})
      <4>1. app.answer # "capture_too_old" /\ app.answer # "collection_session_expired"
        BY <2>1 DEF Settles
      <4>2. QED
        BY <2>1, <4>1, Zenon
    <3>2. QED
      BY <1>1, <2>1, <3>1, WithoutFits
  <2>2. CASE app.answer = "capture_too_old"
    <3>1. q = [queue EXCEPT !.rejected = @ \cup ({f} \cap queue.rows)]
      BY <2>2 DEF Settles
    <3>2. QED
      BY <1>1, <3>1, <2>2 DEF QueueType, Fits, Settles
  <2>3. CASE app.answer = "collection_session_expired"
    <3>1. q = [queue EXCEPT !.rejected = queue.rows]
      BY <2>3 DEF Settles
    <3>2. QED
      BY <1>1, <3>1, <2>3 DEF QueueType, Fits, Settles
  <2>4. CASE app.answer \notin Settles \cup {"capture_too_old", "collection_session_expired"}
    <3>1. q = queue
      BY <2>4 DEF Settles
    <3>2. QED
      BY <1>1, <3>1
  <2>5. QED
    BY <2>1, <2>2, <2>3, <2>4
<1>5. app.answer \in Settles => f \in stored \cup seen'
  BY <1>1, <1>2 DEF Settles, ReceiptHolds
<1> HIDE DEF q
<1>6. queue.rows \cup queue.expired \subseteq q.rows \cup q.expired \cup stored \cup seen' \cup dropped'
  BY <1>4, <1>5
<1>7. seen' \in SUBSET Fixes /\ seen \subseteq seen'
  BY <1>1, <1>2
<1>8. QED
  BY <1>1, <1>2, <1>3, <1>4, <1>6, <1>7, SavesKeepPositions

(* A new fix is saved before anything else knows of it.                    *)
LEMMA CaptureKeepsPositions ==
  ASSUME PositionsInv, NEW f \in Fixes, NEW at \in Nat, Capture(f, at)
  PROVE  PositionsInv'
<1> DEFINE q == [queue EXCEPT !.rows = @ \cup {f}]
<1>1. /\ queue \in QueueType /\ Fits(queue) /\ queue.rows \subseteq Saved /\ app.at = "open"
      /\ queue = disk
  BY OpenQueue DEF Capture, OpenToWork
<1>2. /\ queue' = q /\ disk' = q /\ taken' = [taken EXCEPT ![f] = at] /\ taken[f] = Untaken
      /\ UNCHANGED <<moment, trip, stored, live, app, wire, seen, dropped>>
      /\ Cardinality(queue.rows) < Capacity
  BY DEF Capture, Save
<1>3. q \in QueueType /\ q.rows = queue.rows \cup {f} /\ q.rejected = queue.rejected
        /\ q.expired = queue.expired
  BY <1>1 DEF QueueType
<1>4. Fits(q)
  <2>0. queue.rows \in SUBSET Fixes /\ q.rows \in SUBSET Fixes
    BY <1>1, <1>3 DEF QueueType
  <2>1. IsFiniteSet(queue.rows) /\ Cardinality(queue.rows) \in Nat /\ Cardinality(q.rows) \in Nat
    BY <2>0, SetsFit
  <2>2. Cardinality(q.rows) =
          IF f \in queue.rows THEN Cardinality(queue.rows) ELSE Cardinality(queue.rows) + 1
    BY <1>3, <2>1, FS_AddElement, Zenon
  <2>3. QED
    BY <1>1, <1>2, <1>3, <2>1, <2>2, PositionsAssumption DEF Fits
<1> HIDE DEF q
<1>5. taken \in [Fixes -> Int]
  BY OpenQueue
<1>6. Saved' = Saved \cup {f} /\ f \notin Saved
  BY <1>2, <1>5 DEF Saved, Untaken
<1>7. PositionsTyped' /\ QueuesFit'
  BY <1>2, <1>3, <1>4, <1>5 DEF PositionsTyped, QueuesFit, Fits
<1>8. OpenToWork' /\ ReceiptHolds' /\ WholeWhileBinding'
  BY <1>1, <1>2 DEF OpenToWork, ReceiptHolds, WholeWhileBinding
<1>9. OnlyCaptured'
  BY <1>1, <1>2, <1>3, <1>6 DEF OnlyCaptured
<1>10. NothingSlips'
  BY <1>1, <1>2, <1>3, <1>6 DEF NothingSlips
<1>11. LiveIsNewest'
  <2>1. /\ stored \subseteq Fixes /\ f \notin stored
        /\ stored # {} => live \in stored /\ (\A g \in stored : taken[g] <= taken[live])
    BY <1>6 DEF OnlyCaptured, PositionsTyped, LiveIsNewest
  <2>2. \A g \in stored : taken'[g] = taken[g]
    BY <1>2, <1>5, <2>1
  <2>3. QED
    BY <1>2, <2>1, <2>2 DEF LiveIsNewest
<1>12. QED
  BY <1>7, <1>8, <1>9, <1>10, <1>11

(* A kill loses the memory: the storage is whole, or the count is what is  *)
(* lost.                                                                   *)
LEMMA KillKeepsPositions == PositionsInv /\ Kill => PositionsInv'
<1> SUFFICES ASSUME PositionsInv, Kill PROVE PositionsInv'
  OBVIOUS
<1>1. /\ Empty \in QueueType /\ Fits(Empty) /\ Empty.rows = {} /\ Empty.expired = {}
  BY FS_EmptySet, PositionsAssumption DEF Empty, QueueType, Fits
<1>2. /\ Closed \in AppType /\ Closed.at = "closed" /\ Closed.answer = "none"
      /\ ~Closed.sharing /\ Closed.upload = NoFix /\ Closed.ending = "no"
  BY DEF Closed, AppType, NoFix
<1>3. /\ app' = Closed /\ queue' = Empty /\ Saved' = Saved
      /\ UNCHANGED <<moment, trip, stored, live, taken, disk, wire, seen>>
      /\ dropped' = IF app.at = "binding" /\ disk = Empty THEN dropped \cup queue.expired
                    ELSE dropped
  BY DEF Kill, Saved
<1>4. PositionsTyped' /\ QueuesFit'
  <2>1. dropped' \in SUBSET Fixes
    BY <1>3, OpenQueue DEF QueueType
  <2>2. QED
    BY <1>1, <1>2, <1>3, <2>1 DEF PositionsTyped, QueuesFit, Fits
<1>5. OpenToWork' /\ OnlyCaptured' /\ ReceiptHolds' /\ WholeWhileBinding'
  BY <1>1, <1>2, <1>3 DEF OpenToWork, OnlyCaptured, ReceiptHolds, WholeWhileBinding
<1>6. NothingSlips'
  <2>1. CASE app.at = "binding" /\ disk = Empty
    <3>1. Saved \subseteq Elsewhere \cup queue.expired
      BY <1>1, <2>1 DEF WholeWhileBinding, Holds
    <3>2. QED
      BY <1>1, <1>3, <2>1, <3>1 DEF NothingSlips, Elsewhere
  <2>2. CASE app.at = "binding" /\ disk # Empty
    BY <1>3, <2>2 DEF NothingSlips, Elsewhere, WholeWhileBinding, Holds
  <2>3. CASE app.at # "binding"
    BY <1>3, <2>3 DEF NothingSlips
  <2>4. QED
    BY <2>1, <2>2, <2>3
<1>7. LiveIsNewest'
  BY <1>3 DEF LiveIsNewest
<1>8. QED
  BY <1>4, <1>5, <1>6, <1>7

(* Binding reads the storage and clears it when nothing is left to send.   *)
LEMMA BindKeepsPositions == PositionsInv /\ Bind => PositionsInv'
<1> SUFFICES ASSUME PositionsInv, Bind PROVE PositionsInv'
  OBVIOUS
<1> DEFINE q == Pruned(disk)
           now == [Closed EXCEPT !.at = "binding"]
<1>1. /\ Empty \in QueueType /\ Fits(Empty) /\ Empty.rows = {}
  BY FS_EmptySet, PositionsAssumption DEF Empty, QueueType, Fits
<1>2. /\ now \in AppType /\ now.at = "binding" /\ now.answer = "none"
      /\ ~now.sharing /\ now.upload = NoFix /\ now.ending = "no"
  BY DEF Closed, AppType, NoFix
<1>3. /\ q \in QueueType /\ Fits(q) /\ q.rows \subseteq disk.rows
      /\ q.rows \cup q.expired = disk.rows \cup disk.expired
  BY PrunedFits, OpenQueue
<1>4. /\ app.at = "closed" /\ app' = now /\ queue' = q /\ Saved' = Saved
      /\ disk' = IF q.rows = {} THEN Empty ELSE disk
      /\ UNCHANGED <<moment, trip, stored, live, taken, wire, seen, dropped>>
  BY DEF Bind, Saved
<1> HIDE DEF q, now
<1>5. PositionsTyped' /\ QueuesFit'
  BY <1>1, <1>2, <1>3, <1>4 DEF PositionsTyped, QueuesFit, Fits
<1>6. OpenToWork' /\ OnlyCaptured' /\ ReceiptHolds'
  BY <1>1, <1>2, <1>3, <1>4 DEF OpenToWork, OnlyCaptured, ReceiptHolds
<1>7. Saved \subseteq Elsewhere \cup disk.rows \cup disk.expired
  BY <1>4 DEF NothingSlips, Elsewhere
<1>8. WholeWhileBinding'
  BY <1>3, <1>4, <1>7 DEF WholeWhileBinding, Holds, Elsewhere
<1>9. NothingSlips' /\ LiveIsNewest'
  BY <1>2, <1>4 DEF NothingSlips, LiveIsNewest
<1>10. QED
  BY <1>5, <1>6, <1>8, <1>9

(* The count is written back, and memory and storage agree again.          *)
LEMMA BindSavesKeepsPositions == PositionsInv /\ BindSaves => PositionsInv'
<1> SUFFICES ASSUME PositionsInv, BindSaves PROVE PositionsInv'
  OBVIOUS
<1>1. OpenApp \in AppType /\ OpenApp.at = "open" /\ OpenApp.answer = "none"
  BY DEF OpenApp, Closed, AppType, NoFix
<1>2. /\ app.at = "binding" /\ app' = OpenApp /\ queue' = queue /\ disk' = queue /\ Saved' = Saved
      /\ UNCHANGED <<moment, trip, stored, live, taken, wire, seen, dropped>>
  BY DEF BindSaves, Save, Saved
<1>3. PositionsTyped' /\ QueuesFit'
  BY <1>1, <1>2 DEF PositionsTyped, QueuesFit, Fits
<1>4. OpenToWork' /\ OnlyCaptured' /\ ReceiptHolds' /\ WholeWhileBinding'
  BY <1>1, <1>2 DEF OpenToWork, OnlyCaptured, ReceiptHolds, WholeWhileBinding
<1>5. NothingSlips' /\ LiveIsNewest'
  BY <1>2 DEF NothingSlips, LiveIsNewest, WholeWhileBinding, Holds, Elsewhere
<1>6. QED
  BY <1>3, <1>4, <1>5

-----------------------------------------------------------------------------
(* The server stores a fix and moves the marker when it is newer; the      *)
(* answer that says so is true.                                            *)
LEMMA ReceivingKeepsPositions ==
  ASSUME PositionsInv, NEW f \in Fixes, Receive(f) \/ Lose(f)
  PROVE  PositionsInv'
<1>1. /\ f \in wire /\ wire' = wire \ {f} /\ Saved' = Saved /\ f \in Saved
      /\ UNCHANGED <<moment, trip, taken, queue, disk, seen, dropped>>
  BY DEF Receive, Lose, Saved, OnlyCaptured, Completing, Fixes
<1>2. \/ stored' = stored /\ live' = live
      \/ stored' = stored \cup {f} /\ live' = IF Newer(f) THEN f ELSE live
  BY DEF Receive, Lose
<1>3. /\ app' \in AppType /\ app'.at = app.at /\ app'.sharing = app.sharing
      /\ app'.upload = app.upload /\ app'.ending = app.ending
      /\ app'.answer = "receipt" =>
            app.answer = "receipt" \/ (app.upload = f /\ f \in stored')
  <2>0. app \in AppType
    BY OpenQueue
  <2>1. CASE Lose(f)
    BY <2>0, <2>1 DEF Lose, Answered, AppType
  <2>2. CASE Receive(f)
    <3>1. PICK answer \in {Verdict(f), "failed"} : Answered(f, answer)
      BY <2>2 DEF Receive
    <3>2. answer = "receipt" => f \in stored'
      BY <2>2, <3>1 DEF Receive
    <3>3. answer \in {"failed", "receipt", "trip_not_active", "collection_session_expired",
                     "capture_before_start", "capture_too_old"}
      BY <3>1 DEF Verdict
    <3>4. QED
      BY <2>0, <3>1, <3>2, <3>3 DEF Answered, AppType
  <2>3. QED
    BY <2>1, <2>2
<1>4. stored \subseteq stored' /\ stored' \subseteq stored \cup {f}
  BY <1>2
<1>5. PositionsTyped' /\ QueuesFit'
  BY <1>1, <1>2, <1>3 DEF PositionsTyped, QueuesFit, Fits
<1>6. OpenToWork' /\ ReceiptHolds'
  BY <1>1, <1>3, <1>4 DEF OpenToWork, ReceiptHolds
<1>7. OnlyCaptured'
  BY <1>1, <1>2 DEF OnlyCaptured
<1>8. WholeWhileBinding' /\ NothingSlips'
  BY <1>1, <1>3, <1>4 DEF WholeWhileBinding, NothingSlips, Holds, Elsewhere
<1>9. LiveIsNewest'
  <2>1. /\ taken \in [Fixes -> Int] /\ stored \in SUBSET Fixes /\ NoFix \notin Fixes
    BY DEF PositionsTyped, NoFix, Fixes
  <2>2. CASE stored' = stored /\ live' = live
    BY <1>1, <2>2 DEF LiveIsNewest
  <2>3. CASE stored' = stored \cup {f} /\ live' = f /\ Newer(f)
    BY <1>1, <2>1, <2>3 DEF LiveIsNewest, Newer, OnlyCaptured
  <2>4. CASE stored' = stored \cup {f} /\ live' = live /\ ~Newer(f)
    BY <1>1, <2>1, <2>4 DEF LiveIsNewest, Newer, OnlyCaptured
  <2>5. QED
    BY <1>2, <2>2, <2>3, <2>4
<1>10. QED
  BY <1>5, <1>6, <1>7, <1>8, <1>9

(* Every step of TripPositions keeps the invariant.                        *)
LEMMA PositionsStep == PositionsInv /\ [PositionsNext]_positionVars => PositionsInv'
<1> SUFFICES ASSUME PositionsInv, [PositionsNext]_positionVars PROVE PositionsInv'
  OBVIOUS
<1>1. CASE UNCHANGED positionVars
  <2>1. Saved' = Saved
    BY <1>1 DEF positionVars, Saved
  <2>2. QED
    BY <1>1, <2>1 DEF positionVars, PositionsTyped, QueuesFit, Fits, OpenToWork, OnlyCaptured,
                      ReceiptHolds, WholeWhileBinding, Holds, Elsewhere, LiveIsNewest, NothingSlips
<1>2. ASSUME NEW f \in Fixes,
             Receive(f) \/ Lose(f) \/ \E at \in {moment - 1, moment} \cap Nat : Capture(f, at)
      PROVE  PositionsInv'
  <2>1. ASSUME NEW at \in Nat, Capture(f, at) PROVE PositionsInv'
    BY <2>1, CaptureKeepsPositions
  <2>2. QED
    BY <1>2, <2>1, ReceivingKeepsPositions
<1>3. QED
  BY <1>1, <1>2, MomentKeepsPositions, DriverStepsKeepPositions, ReviewKeepsPositions,
     KillKeepsPositions, BindKeepsPositions, BindSavesKeepsPositions, SignOutKeepsPositions,
     UploadKeepsPositions, HandlingKeepsPositions DEF PositionsNext

(* A step that asks to end the trip finds nothing on the phone that the    *)
(* server does not have.                                                   *)
LEMMA AskingHasAll ==
  PositionsInv /\ [PositionsNext]_positionVars =>
    [app.ending # "asked" /\ app'.ending = "asked"
       => Saved \subseteq stored \cup seen \cup dropped]_positionVars
<1> SUFFICES ASSUME PositionsInv, PositionsNext, app.ending # "asked", app'.ending = "asked"
             PROVE  Saved \subseteq stored \cup seen \cup dropped
  OBVIOUS
<1>0. app \in AppType
  BY OpenQueue
<1>1. CASE AskCompletion
  <2>1. app.at = "open" /\ queue = disk
    BY <1>1, OpenQueue DEF AskCompletion, OpenToWork
  <2>2. QED
    BY <1>1, <2>1 DEF AskCompletion, Flushed, NothingSlips
<1>2. CASE MomentPasses \/ StartTrip \/ Review
  BY <1>2 DEF MomentPasses, StartTrip, Review
<1>3. CASE Share \/ Retry
  BY <1>0, <1>3 DEF Share, Retry, Stopped, AppType
<1>9. CASE Kill \/ Bind \/ BindSaves \/ DriverSignsOut
  BY <1>9 DEF Kill, Bind, BindSaves, DriverSignsOut, Closed, OpenApp
<1>4. CASE Upload
  BY <1>0, <1>4 DEF Upload, AppType
<1>5. CASE TimeOut \/ HandleAnswer
  BY <1>0, <1>5 DEF TimeOut, HandleAnswer, Refused, Rests, Stopped, AppType
<1>6. CASE BeginFlush \/ GiveUpEnding \/ CompleteTrip
  BY <1>0, <1>6 DEF BeginFlush, GiveUpEnding, CompleteTrip, Stopped, AppType
<1>7. ASSUME NEW f \in Fixes,
             Receive(f) \/ Lose(f) \/ \E at \in {moment - 1, moment} \cap Nat : Capture(f, at)
      PROVE  FALSE
  BY <1>0, <1>7 DEF Receive, Lose, Capture, Answered, AppType
<1>8. QED
  BY <1>1, <1>2, <1>3, <1>4, <1>5, <1>6, <1>7, <1>9 DEF PositionsNext

(* PositionsSafe (position_publisher.dart, position_queue.dart, gps.ts),   *)
(* for any capacity of the queue, age and number of fixes: what the driver *)
(* captured is with the server, or its loss was shown, before the trip is  *)
(* asked to end; riders see the newest fix the server has.                 *)
THEOREM NoFixIsLost == PositionsSpec => PositionsSafe
<1>1. PositionsInv => PositionsTypeOK /\ LiveIsNewest /\ NothingSlips
  BY DEF PositionsTyped, QueuesFit, Fits, PositionsTypeOK, AppType
<1>2. PositionsSpec => []PositionsInv
  BY PositionsInitInv, PositionsStep, PTL DEF PositionsSpec
<1>3. QED
  BY <1>1, <1>2, AskingHasAll, PTL DEF PositionsSpec, PositionsSafe, EvidenceKept
=============================================================================
