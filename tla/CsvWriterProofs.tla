-------------------------- MODULE CsvWriterProofs --------------------------
(***************************************************************************)
(* Safety of CsvWriter for every value of its constants: each send status  *)
(* is passed on once (twice if it was dumped), none is forgotten, and a    *)
(* scan of the flusher leaves nothing behind that was too old.  The second *)
(* part shows that it implements Reporting.                                *)
(***************************************************************************)
EXTENDS CsvWriter, TLAPS

\* Each task stays within its own stages; the two that hold the lock across
\* steps exclude each other.
StageInv ==
    /\ pc["block"] \in {"run", "send", "done"}
    /\ pc["flush"] \in {"run", "lock", "scan", "done"}
    /\ pc["track"] \in {"run", "dump", "done"}
    /\ ~(pc["flush"] = "scan" /\ pc["track"] = "dump")

\* A row with a status is that of a send the tracker has filed, and a send
\* passed on by the block task or the flusher has left the map.
GoneInv ==
    \A i \in DOMAIN rows :
        rows[i].status =>
            /\ rows[i].id \in 1 .. tracked
            /\ rows[i].by # "dump" => rows[i].id \notin pending

\* Rows of a dump exist only once the tracker has begun one, and during the
\* dump only below its position.
DumpInv ==
    \A i \in DOMAIN rows :
        rows[i].by = "dump" =>
            /\ pc["track"] # "run"
            /\ pc["track"] = "dump" => rows[i].id < dumpAt

\* The send whose status the block task holds is on file, has left the map,
\* and no row but one of a dump has told it.
HandInv ==
    \A id \in Joined :
        /\ id \in 1 .. tracked /\ id \notin pending
        /\ \A i \in DOMAIN rows :
             rows[i].status /\ rows[i].id = id => rows[i].by = "dump"

\* The dump has not skipped an entry.
DumpedInv ==
    pc["track"] = "dump" /\ pc["write"] = "run" =>
        \A id \in pending :
            id < dumpAt => \E i \in Reports(id) : rows[i].by = "dump"

\* Ids are in the order of the send times.
OrderInv ==
    /\ \A i, j \in DOMAIN sent : i <= j => sent[i] <= sent[j]
    /\ \A i \in DOMAIN sent : sent[i] <= now

IInv == /\ TypeOK /\ StageInv /\ GoneInv /\ HandInv /\ DumpInv /\ StatusOnce
        /\ NoStatusLost /\ DumpedInv /\ OrderInv

-----------------------------------------------------------------------------
\* A send on the internal channel appends the row, or nothing at all.
LEMMA EmitAppends ==
    ASSUME rows \in Seq(Row), NEW row \in Row, Emit(row)
    PROVE  /\ rows' \in Seq(Row)
           /\ Len(rows') \in Nat /\ Len(rows) <= Len(rows')
           /\ DOMAIN rows \subseteq DOMAIN rows'
           /\ \A i \in DOMAIN rows : rows'[i] = rows[i]
           /\ \A i \in DOMAIN rows' :
                i \notin DOMAIN rows => i = Len(rows) + 1 /\ rows'[i] = row
           /\ pc["write"] = "run" =>
                Len(rows') = Len(rows) + 1 /\ rows'[Len(rows) + 1] = row
<1>1. CASE pc["write"] = "run"
  <2>1. rows' = Append(rows, row)  BY <1>1 DEF Emit
  <2> QED  BY <2>1
<1>2. CASE pc["write"] # "run"
  <2>1. rows' = rows  BY <1>2 DEF Emit
  <2> QED  BY <2>1, <1>2
<1> QED  BY <1>1, <1>2

\* The record the block task looks up next carries an id, or none.
LEMMA BlockId ==
    ASSUME TypeOK, drained < recvd
    PROVE  blockRecs[drained + 1] \in 0 .. MaxTxs
<1> DEFINE S == 0 .. MaxTxs
<1>1. blockRecs \in Seq(S)  BY DEF TypeOK
<1>2. recvd \in 0 .. Len(blockRecs) /\ drained \in 0 .. recvd
  BY DEF TypeOK
<1> HIDE DEF S
<1>3. Len(blockRecs) \in Nat  BY <1>1
<1>4. drained + 1 \in 1 .. Len(blockRecs)  BY <1>2, <1>3
<1>5. blockRecs[drained + 1] \in S  BY <1>1, <1>4
<1> QED  BY <1>5 DEF S

\* So does the row the block task holds.
LEMMA HandRow ==
    ASSUME TypeOK, pc["block"] = "send"
    PROVE  InHand \in Row /\ InHand.id = blockRecs[drained + 1]
           /\ InHand.by = "block" /\ InHand.status = found
<1>1. blockRecs[drained + 1] \in Nat
  <2>1. drained < recvd  BY DEF TypeOK
  <2> QED  BY <2>1, BlockId, BoundAssumption
<1> QED  BY <1>1 DEF InHand, Row, TypeOK

\* New records of the channel do not change the row the task holds.
LEMMA SameHand ==
    ASSUME TypeOK, UNCHANGED <<drained, found, pc["block"]>>,
           \/ blockRecs' = blockRecs
           \/ \E id : blockRecs' = Append(blockRecs, id)
    PROVE  /\ Joined' = Joined
           /\ pc["block"] = "send" => InHand' = InHand
<1>1. CASE blockRecs' = blockRecs  BY <1>1 DEF Joined, InHand
<1>2. ASSUME NEW id, blockRecs' = Append(blockRecs, id)
      PROVE  /\ Joined' = Joined
             /\ pc["block"] = "send" => InHand' = InHand
  <2>1. CASE pc["block"] # "send"  BY <2>1 DEF Joined
  <2>2. CASE pc["block"] = "send"
    <3>1. /\ blockRecs \in Seq(0 .. MaxTxs)
          /\ drained + 1 \in 1 .. Len(blockRecs)
      BY <2>2 DEF TypeOK
    <3>2. blockRecs'[drained + 1] = blockRecs[drained + 1]
      BY <1>2, <3>1
    <3> QED  BY <3>2 DEF Joined, InHand
  <2> QED  BY <2>1, <2>2
<1> QED  BY <1>1, <1>2

\* The type invariant holds in the empty state ...
LEMMA TypeInit == Init => TypeOK
<1> USE DEF TypeOK, Tasks, Stages
<1> SUFFICES ASSUME Init  PROVE TypeOK
  OBVIOUS
<1>1. pc \in [Tasks -> Stages]  BY DEF Init
<1>2. rows \in Seq(Row) /\ taken \in 0 .. Len(rows) /\ file \subseteq 1 .. taken
  BY DEF Init
<1>3. /\ sent \in Seq(Nat) /\ tracked \in 0 .. Len(sent)
      /\ blockRecs \in Seq(0 .. MaxTxs) /\ recvd \in 0 .. Len(blockRecs)
      /\ drained \in 0 .. recvd /\ pending \subseteq 1 .. tracked
  BY DEF Init
<1>5. found \in BOOLEAN /\ pc["block"] = "run"  BY DEF Init
<1>4. /\ now \in Nat /\ flushDue \in Nat /\ flushNow \in Nat /\ dumpAt \in Nat
      /\ {sentOpen, blockOpen, faulty, cancelled} \subseteq BOOLEAN
  BY DEF Init
<1> QED  BY <1>1, <1>2, <1>3, <1>4, <1>5

\* ... and every step of a task or of the environment keeps it.
LEMMA TypeStep == TypeOK /\ [Next]_vars => TypeOK'
<1> USE DEF TypeOK, Tasks, Stages
<1> SUFFICES ASSUME TypeOK, [Next]_vars  PROVE TypeOK'
  OBVIOUS
<1> USE DEF envVars, mapVars, timeVars, fileVars
<1>1. CASE UNCHANGED vars
  BY <1>1 DEF vars
<1>2. CASE Environment
  <2>1. CASE Tick  BY <2>1 DEF Tick
  <2>2. CASE SendRecord  BY <2>2 DEF SendRecord
  <2>3. CASE CloseSent  BY <2>3 DEF CloseSent
  <2>4. CASE CloseBlock  BY <2>4 DEF CloseBlock
  <2>5. CASE Cancel  BY <2>5 DEF Cancel
  <2>6. ASSUME NEW id \in 0 .. MaxTxs, LandRecord(id)  PROVE TypeOK'
    BY <2>6, BoundAssumption DEF LandRecord
  <2> QED  BY <1>2, <2>1, <2>2, <2>3, <2>4, <2>5, <2>6 DEF Environment
<1>3. CASE Block
  <2>1. CASE BlockRecv  BY <2>1, BatchAssumption DEF BlockRecv
  <2>2. CASE BlockLook
    <3> DEFINE id == blockRecs[drained + 1]
    <3>1. /\ found' = (id \in pending) /\ pending' = pending \ {id}
          /\ drained < recvd /\ Goto("block", "send")
          /\ UNCHANGED <<now, envVars, tracked, recvd, drained, timeVars, dumpAt,
                         rows, fileVars>>
      BY <2>2 DEF BlockLook
    <3>2. found' \in BOOLEAN  BY <3>1
    <3>3. pending \ {id} \subseteq 1 .. tracked  OBVIOUS
    <3> HIDE DEF id
    <3> QED  BY <3>1, <3>2, <3>3 DEF Goto
  <2>3. CASE BlockSend
    <3>1. /\ Emit(InHand) /\ drained' = drained + 1 /\ found' = FALSE
          /\ pc["block"] = "send" /\ Goto("block", "run")
          /\ UNCHANGED <<now, envVars, tracked, recvd, pending, timeVars, dumpAt,
                         fileVars>>
      BY <2>3 DEF BlockSend
    <3>2. InHand \in Row  BY <3>1, HandRow
    <3>3. rows' \in Seq(Row) /\ Len(rows) <= Len(rows') /\ Len(rows') \in Nat
      BY <3>1, <3>2, EmitAppends
    <3>4. pc'["block"] = "run" /\ pc' \in [Tasks -> Stages]  BY <3>1 DEF Goto
    <3>5. drained' \in 0 .. recvd'  BY <3>1
    <3>6. /\ taken' \in 0 .. Len(rows') /\ file' \subseteq 1 .. taken'
      BY <3>1, <3>3
    <3> QED  BY <3>1, <3>3, <3>4, <3>5, <3>6
  <2>4. CASE BlockStop  BY <2>4 DEF BlockStop, Goto
  <2> QED  BY <1>3, <2>1, <2>2, <2>3, <2>4 DEF Block
<1>4. CASE Flusher
  <2>1. CASE FlushTick  BY <2>1, MaxTxAgeAssumption DEF FlushTick, Goto
  <2>2. CASE FlushLock  BY <2>2 DEF FlushLock, Goto
  <2>3. CASE FlushRow
    <3>1. PICK id \in pending :
            /\ pending' = pending \ {id}
            /\ Emit([id |-> id, by |-> "flush", status |-> TRUE])
      BY <2>3 DEF FlushRow
    <3>2. [id |-> id, by |-> "flush", status |-> TRUE] \in Row  BY DEF Row
    <3>3. rows' \in Seq(Row) /\ Len(rows) <= Len(rows') /\ Len(rows') \in Nat
      BY <3>1, <3>2, EmitAppends
    <3> QED  BY <2>3, <3>1, <3>3 DEF FlushRow
  <2>4. CASE FlushEnd  BY <2>4 DEF FlushEnd, Goto
  <2>5. CASE FlushStop  BY <2>5 DEF FlushStop, Goto
  <2> QED  BY <1>4, <2>1, <2>2, <2>3, <2>4, <2>5 DEF Flusher
<1>5. CASE Tracker
  <2>1. CASE TrackRecv  BY <2>1, BatchAssumption DEF TrackRecv
  <2>2. CASE TrackStop  BY <2>2 DEF TrackStop, Goto
  <2>3. CASE TrackCancel  BY <2>3 DEF TrackCancel, Goto
  <2>4. CASE DumpRow
    <3>1. PICK id \in pending :
            /\ Emit([id |-> id, by |-> "dump", status |-> TRUE])
            /\ dumpAt' = id + 1
      BY <2>4 DEF DumpRow
    <3>2. [id |-> id, by |-> "dump", status |-> TRUE] \in Row  BY DEF Row
    <3>3. rows' \in Seq(Row) /\ Len(rows) <= Len(rows') /\ Len(rows') \in Nat
      BY <3>1, <3>2, EmitAppends
    <3> QED  BY <2>4, <3>1, <3>3 DEF DumpRow
  <2>5. CASE DumpEnd  BY <2>5 DEF DumpEnd, Goto
  <2> QED  BY <1>5, <2>1, <2>2, <2>3, <2>4, <2>5 DEF Tracker
<1>6. CASE Writer
  <2>1. CASE WriteBatch  BY <2>1, BatchAssumption DEF WriteBatch, TakeRows
  <2>2. CASE WriteFail  BY <2>2, BatchAssumption DEF WriteFail, TakeRows, Goto
  <2>3. CASE WriteStop  BY <2>3 DEF WriteStop, Goto
  <2> QED  BY <1>6, <2>1, <2>2, <2>3 DEF Writer
<1>7. CASE Finished
  BY <1>7 DEF Finished, vars
<1>8. CASE OpenFails
  BY <1>8 DEF OpenFails
<1> QED  BY <1>1, <1>2, <1>3, <1>4, <1>5, <1>6, <1>7, <1>8 DEF Next

\* Every variable keeps its type, and the cursors of the four channels stay
\* within what was sent (code: csv_writer.rs, run_csv_writer).
THEOREM TypeCorrect == Spec => []TypeOK
<1> QED  BY TypeInit, TypeStep, PTL DEF Spec

-----------------------------------------------------------------------------
\* The parts of the invariant that relate the rows to the map.
RowInv == /\ GoneInv /\ HandInv /\ DumpInv /\ StatusOnce
          /\ NoStatusLost /\ DumpedInv

\* The lock is held across steps by one task at a time.
LEMMA StageStep == TypeOK /\ StageInv /\ [Next]_vars => StageInv'
<1> SUFFICES ASSUME TypeOK, StageInv, [Next]_vars  PROVE StageInv'
  OBVIOUS
<1> USE DEF StageInv, TypeOK, Tasks, Goto, LockFree
<1>1. CASE UNCHANGED pc  BY <1>1
<1>2. CASE BlockStop  BY <1>2 DEF BlockStop
<1>3. CASE FlushTick  BY <1>3 DEF FlushTick
<1>4. CASE FlushLock  BY <1>4 DEF FlushLock
<1>5. CASE FlushEnd  BY <1>5 DEF FlushEnd
<1>6. CASE FlushStop  BY <1>6 DEF FlushStop
<1>7. CASE TrackStop  BY <1>7 DEF TrackStop
<1>8. CASE TrackCancel  BY <1>8 DEF TrackCancel
<1>9. CASE DumpEnd  BY <1>9 DEF DumpEnd
<1>10. CASE WriteFail  BY <1>10 DEF WriteFail
<1>11. CASE WriteStop  BY <1>11 DEF WriteStop
<1>12. CASE Environment
  BY <1>12, <1>1 DEF Environment, Tick, SendRecord, CloseSent, LandRecord,
                     CloseBlock, Cancel
<1>13. CASE BlockRecv  BY <1>13, <1>1 DEF BlockRecv
<1>14. CASE FlushRow  BY <1>14, <1>1 DEF FlushRow
<1>15. CASE TrackRecv \/ DumpRow  BY <1>15, <1>1 DEF TrackRecv, DumpRow
<1>16. CASE WriteBatch  BY <1>16, <1>1 DEF WriteBatch
<1>17. CASE Finished \/ UNCHANGED vars  BY <1>17, <1>1 DEF Finished, vars
<1>18. CASE OpenFails  BY <1>18 DEF OpenFails
<1>19. CASE BlockLook \/ BlockSend  BY <1>19 DEF BlockLook, BlockSend
<1> HIDE DEF StageInv, TypeOK, Tasks, Goto, LockFree
<1> QED
  BY <1>2, <1>3, <1>4, <1>5, <1>6, <1>7, <1>8, <1>9, <1>10, <1>11, <1>12,
     <1>13, <1>14, <1>15, <1>16, <1>17, <1>18, <1>19
  DEF Next, Block, Flusher, Tracker, Writer

\* The clock and the send times grow together.
LEMMA OrderStep == TypeOK /\ OrderInv /\ [Next]_vars => OrderInv'
<1> SUFFICES ASSUME TypeOK, OrderInv, [Next]_vars  PROVE OrderInv'
  OBVIOUS
<1> USE DEF OrderInv, TypeOK
<1>1. CASE UNCHANGED <<now, sent>>  BY <1>1
<1>2. CASE Tick
  <2>1. now' = now + 1 /\ sent' = sent  BY <1>2 DEF Tick, envVars
  <2>2. \A i \in DOMAIN sent : sent[i] \in Nat  OBVIOUS
  <2> QED  BY <2>1, <2>2
<1>3. CASE SendRecord
  <2>1. sent' = Append(sent, now) /\ now' = now  BY <1>3 DEF SendRecord
  <2>2. /\ DOMAIN sent = 1 .. Len(sent) /\ DOMAIN sent' = 1 .. Len(sent) + 1
        /\ \A i \in 1 .. Len(sent) : sent'[i] = sent[i]
        /\ sent'[Len(sent) + 1] = now
        /\ Len(sent) \in Nat /\ \A i \in DOMAIN sent : sent[i] \in Nat
        /\ now \in Nat
    BY <2>1
  <2>3. /\ \A i, j \in DOMAIN sent : i <= j => sent[i] <= sent[j]
        /\ \A i \in DOMAIN sent : sent[i] <= now
    OBVIOUS
  <2> HIDE DEF TypeOK, OrderInv
  <2>4. \A i \in DOMAIN sent' : sent'[i] <= now
    <3> SUFFICES ASSUME NEW i \in DOMAIN sent'  PROVE sent'[i] <= now
      OBVIOUS
    <3>1. CASE i \in DOMAIN sent  BY <3>1, <2>2, <2>3
    <3>2. CASE i = Len(sent) + 1  BY <3>2, <2>2, <2>3
    <3> QED  BY <3>1, <3>2, <2>2, <2>3
  <2>5. ASSUME NEW i \in DOMAIN sent', NEW j \in DOMAIN sent', i <= j
        PROVE  sent'[i] <= sent'[j]
    <3>1. CASE j \in DOMAIN sent  BY <3>1, <2>2, <2>3, <2>5
    <3>2. CASE j = Len(sent) + 1  BY <3>2, <2>2, <2>3, <2>4
    <3> QED  BY <3>1, <3>2, <2>2, <2>3
  <2> QED  BY <2>1, <2>4, <2>5 DEF OrderInv
<1>4. CASE CloseSent \/ CloseBlock \/ Cancel
  BY <1>4, <1>1 DEF CloseSent, CloseBlock, Cancel
<1>5. ASSUME NEW id \in 0 .. MaxTxs, LandRecord(id)  PROVE OrderInv'
  BY <1>5, <1>1 DEF LandRecord
<1>6. CASE Environment
  BY <1>6, <1>2, <1>3, <1>4, <1>5 DEF Environment
<1>7. CASE Block
  BY <1>7, <1>1 DEF Block, BlockRecv, BlockLook, BlockSend, BlockStop, envVars
<1>8. CASE Flusher
  BY <1>8, <1>1 DEF Flusher, FlushTick, FlushLock, FlushRow, FlushEnd,
                    FlushStop, envVars
<1>9. CASE Tracker
  BY <1>9, <1>1 DEF Tracker, TrackRecv, TrackStop, TrackCancel, DumpRow,
                    DumpEnd, envVars
<1>10. CASE Writer
  BY <1>10, <1>1 DEF Writer, WriteBatch, WriteFail, WriteStop, TakeRows, envVars
<1>11. CASE Finished \/ UNCHANGED vars
  BY <1>11, <1>1 DEF Finished, vars, envVars
<1>12. CASE OpenFails  BY <1>12, <1>1 DEF OpenFails, envVars
<1> QED  BY <1>6, <1>7, <1>8, <1>9, <1>10, <1>11, <1>12 DEF Next

-----------------------------------------------------------------------------
\* A step that leaves the rows, the map and the dump's position alone, and
\* of the tracker at most ends it, keeps the row invariants.
LEMMA QuietStep ==
    ASSUME RowInv, UNCHANGED <<rows, pending, tracked, dumpAt, Joined>>,
           \/ pc'["track"] = pc["track"]
           \/ pc'["track"] = "done",
           pc'["write"] = "run" => pc["write"] = "run"
    PROVE  RowInv'
<1> USE DEF RowInv, Reports
<1>1. GoneInv' /\ HandInv'  BY DEF GoneInv, HandInv
<1>2. DumpInv'  BY DEF DumpInv
<1>3. StatusOnce'  BY DEF StatusOnce
<1>4. NoStatusLost'  BY DEF NoStatusLost
<1>5. DumpedInv'  BY DEF DumpedInv
<1> QED  BY <1>1, <1>2, <1>3, <1>4, <1>5

\* Passing on a row takes nothing from the reports of any transaction.
LEMMA EmitReports ==
    ASSUME rows \in Seq(Row), NEW row \in Row, Emit(row), pc["write"] = "run"
    PROVE  /\ \A id : Reports(id) \subseteq Reports(id)'
           /\ row.status => Len(rows) + 1 \in Reports(row.id)'
           /\ rows'[Len(rows) + 1] = row
           /\ \A i \in DOMAIN rows : rows'[i] = rows[i]
<1>1. rows' \in Seq(Row) /\ Len(rows') = Len(rows) + 1
  BY EmitAppends
<1>2. /\ \A i \in 1 .. Len(rows) : rows'[i] = rows[i]
      /\ rows'[Len(rows) + 1] = row
  BY EmitAppends
<1> QED  BY <1>1, <1>2 DEF Reports

\* The block task takes the status of a row out of the map.
LEMMA BlockLookStep ==
    ASSUME TypeOK, StageInv, RowInv, BlockLook
    PROVE  RowInv'
<1> DEFINE id == blockRecs[drained + 1]
<1>1. /\ found' = (id \in pending) /\ pending' = pending \ {id}
      /\ UNCHANGED <<blockRecs, drained, tracked, dumpAt, rows>>
      /\ pc["block"] = "run" /\ pc'["block"] = "send"
      /\ pc'["write"] = pc["write"] /\ pc'["track"] = pc["track"]
      /\ pending \subseteq 1 .. tracked
  BY DEF BlockLook, Goto, TypeOK, Tasks, envVars
<1>2. Joined' = IF id \in pending THEN {id} ELSE {}  BY <1>1 DEF Joined
<1>3. Joined = {}  BY <1>1 DEF Joined
<1> HIDE DEF id
<1>4. GoneInv'  BY <1>1 DEF RowInv, GoneInv
<1>5. HandInv'
  <2> SUFFICES ASSUME id \in pending
               PROVE  /\ id \in 1 .. tracked
                      /\ \A i \in DOMAIN rows :
                           rows[i].status /\ rows[i].id = id
                             => rows[i].by = "dump"
    BY <1>1, <1>2 DEF HandInv
  <2> QED  BY <1>1 DEF RowInv, GoneInv
<1>6. DumpInv' /\ StatusOnce'  BY <1>1 DEF RowInv, DumpInv, StatusOnce
<1>7. NoStatusLost'
  <2> SUFFICES ASSUME pc["write"] = "run", NEW o \in 1 .. tracked,
                      o \notin pending', o \notin Joined'
               PROVE  Reports(o) # {}
    BY <1>1 DEF NoStatusLost, Reports
  <2>1. o \notin pending  BY <1>1, <1>2
  <2> QED  BY <2>1, <1>3 DEF RowInv, NoStatusLost
<1>8. DumpedInv'  BY <1>1 DEF RowInv, DumpedInv, Reports
<1> QED  BY <1>4, <1>5, <1>6, <1>7, <1>8 DEF RowInv

\* It passes the row on, with the status if it holds one.
LEMMA BlockSendStep ==
    ASSUME TypeOK, StageInv, RowInv, BlockSend
    PROVE  RowInv'
<1> DEFINE id == blockRecs[drained + 1]
           row == InHand
<1>1. /\ row \in Row /\ rows \in Seq(Row) /\ Len(rows) \in Nat
      /\ row.id = id /\ row.by = "block" /\ row.status = found
      /\ found \in BOOLEAN
  BY HandRow DEF BlockSend, TypeOK
<1>2. /\ Emit(row) /\ UNCHANGED <<tracked, dumpAt, pending>>
      /\ pc["block"] = "send" /\ pc'["block"] = "run"
      /\ pc'["write"] = pc["write"] /\ pc'["track"] = pc["track"]
  BY DEF BlockSend, Goto, TypeOK, Tasks
<1>3. /\ Joined = IF found THEN {id} ELSE {}
      /\ Joined' = {}
  BY <1>2 DEF Joined
<1> HIDE DEF row, id
<1>4. /\ rows' \in Seq(Row) /\ Len(rows') \in Nat /\ Len(rows) <= Len(rows')
      /\ \A i \in DOMAIN rows : rows'[i] = rows[i]
      /\ \A i \in DOMAIN rows' :
           i \notin DOMAIN rows => i = Len(rows) + 1 /\ rows'[i] = row
  BY <1>1, <1>2, EmitAppends
<1>5. found =>
        /\ id \in 1 .. tracked /\ id \notin pending
        /\ \A i \in DOMAIN rows :
             rows[i].status /\ rows[i].id = id => rows[i].by = "dump"
  BY <1>3 DEF RowInv, HandInv
<1>6. GoneInv'  BY <1>1, <1>2, <1>4, <1>5 DEF RowInv, GoneInv
<1>7. HandInv'  BY <1>3 DEF HandInv
<1>8. DumpInv'  BY <1>1, <1>2, <1>4 DEF RowInv, DumpInv
<1>9. StatusOnce'  BY <1>1, <1>4, <1>5 DEF RowInv, StatusOnce
<1>10. ASSUME pc["write"] = "run", NEW o
       PROVE  /\ Reports(o) \subseteq Reports(o)'
              /\ found /\ o = id => Reports(o)' # {}
              /\ \A i \in Reports(o) : rows'[i] = rows[i]
  BY <1>1, <1>2, <1>10, EmitReports DEF Reports
<1>11. NoStatusLost'
  <2> SUFFICES ASSUME pc["write"] = "run", NEW o \in 1 .. tracked, o \notin pending
               PROVE  Reports(o)' # {}
    BY <1>2 DEF NoStatusLost
  <2>1. CASE o \in Joined  BY <2>1, <1>3, <1>10
  <2>2. CASE o \notin Joined  BY <2>2, <1>10 DEF RowInv, NoStatusLost
  <2> QED  BY <2>1, <2>2
<1>12. DumpedInv'
  <2> SUFFICES ASSUME pc["track"] = "dump", pc["write"] = "run",
                      NEW o \in pending, o < dumpAt
               PROVE  \E i \in Reports(o)' : rows'[i].by = "dump"
    BY <1>2 DEF DumpedInv
  <2>1. PICK i \in Reports(o) : rows[i].by = "dump"
    BY DEF RowInv, DumpedInv
  <2> QED  BY <2>1, <1>10
<1> QED  BY <1>6, <1>7, <1>8, <1>9, <1>11, <1>12 DEF RowInv

\* The flusher passes on the oldest entry.
LEMMA FlushRowStep ==
    ASSUME TypeOK, StageInv, RowInv, FlushRow
    PROVE  RowInv'
<1>1. PICK id \in pending :
        /\ pending' = pending \ {id}
        /\ Emit([id |-> id, by |-> "flush", status |-> TRUE])
  BY DEF FlushRow
<1> DEFINE row == [id |-> id, by |-> "flush", status |-> TRUE]
<1>2. /\ row \in Row /\ rows \in Seq(Row) /\ Len(rows) \in Nat
      /\ row.id = id /\ row.by = "flush" /\ row.status
      /\ Emit(row) /\ id \in 1 .. tracked
  BY <1>1 DEF TypeOK, Row
<1>3. /\ UNCHANGED <<tracked, dumpAt, pc>> /\ pc["track"] # "dump"
      /\ pc["write"] = "run"
  BY DEF FlushRow, StageInv
<1>10. Joined' = Joined
  BY SameHand DEF FlushRow, envVars
<1> HIDE DEF row
<1>4. /\ \A i \in DOMAIN rows : rows'[i] = rows[i]
      /\ \A i \in DOMAIN rows' :
           i \notin DOMAIN rows => i = Len(rows) + 1 /\ rows'[i] = row
  BY <1>2, EmitAppends
<1>5. GoneInv'  BY <1>1, <1>2, <1>3, <1>4 DEF RowInv, GoneInv
<1>11. HandInv'
  BY <1>1, <1>2, <1>3, <1>4, <1>10 DEF RowInv, HandInv
<1>6. DumpInv'  BY <1>2, <1>3, <1>4 DEF RowInv, DumpInv
<1>7. StatusOnce'
  BY <1>1, <1>2, <1>3, <1>4 DEF RowInv, StatusOnce, GoneInv
<1>8. NoStatusLost'
  <2> SUFFICES ASSUME NEW o \in 1 .. tracked, o \notin pending',
                      o \notin Joined
               PROVE  Reports(o)' # {}
    BY <1>3, <1>10 DEF NoStatusLost
  <2>1. CASE o = id  BY <2>1, <1>2, <1>3, EmitReports
  <2>2. CASE o \notin pending
    BY <2>2, <1>2, <1>3, EmitReports DEF RowInv, NoStatusLost
  <2> QED  BY <2>1, <2>2, <1>1
<1>9. DumpedInv'  BY <1>3 DEF DumpedInv
<1> QED  BY <1>5, <1>11, <1>6, <1>7, <1>8, <1>9 DEF RowInv

\* The dump passes on an entry and keeps it.
LEMMA DumpRowStep ==
    ASSUME TypeOK, StageInv, RowInv, DumpRow
    PROVE  RowInv'
<1>1. PICK id \in pending :
        /\ FirstFrom(dumpAt, id)
        /\ Emit([id |-> id, by |-> "dump", status |-> TRUE])
        /\ dumpAt' = id + 1
  BY DEF DumpRow
<1> DEFINE row == [id |-> id, by |-> "dump", status |-> TRUE]
<1>2. /\ row \in Row /\ rows \in Seq(Row) /\ Len(rows) \in Nat
      /\ row.id = id /\ row.by = "dump" /\ row.status
      /\ Emit(row) /\ id \in 1 .. tracked /\ dumpAt \in Nat
      /\ pending \subseteq Nat
      /\ \A i \in DOMAIN rows : rows[i].id \in Nat
  <2>1. row \in Row /\ rows \in Seq(Row) /\ Len(rows) \in Nat
    BY <1>1 DEF TypeOK, Row
  <2>2. \A i \in DOMAIN rows : rows[i].id \in Nat
    <3>1. \A i \in DOMAIN rows : rows[i] \in Row  BY <2>1
    <3> QED  BY <3>1 DEF Row
  <2>3. id \in 1 .. tracked /\ dumpAt \in Nat /\ pending \subseteq Nat
    BY DEF TypeOK
  <2> QED  BY <1>1, <2>1, <2>2, <2>3
<1>3. /\ UNCHANGED <<tracked, pending, pc>> /\ pc["track"] = "dump"
  BY DEF DumpRow, mapVars
<1>11. Joined' = Joined
  BY SameHand DEF DumpRow, mapVars, envVars
<1> HIDE DEF row
<1>4. /\ \A i \in DOMAIN rows : rows'[i] = rows[i]
      /\ \A i \in DOMAIN rows' :
           i \notin DOMAIN rows => i = Len(rows) + 1 /\ rows'[i] = row
  BY <1>2, EmitAppends
<1>5. GoneInv'  BY <1>2, <1>3, <1>4 DEF RowInv, GoneInv
<1>12. HandInv'
  BY <1>2, <1>3, <1>4, <1>11 DEF RowInv, HandInv
<1>6. DumpInv'
  BY <1>1, <1>2, <1>3, <1>4 DEF RowInv, DumpInv, FirstFrom
<1>7. ASSUME NEW i \in DOMAIN rows, rows[i].id = id  PROVE rows[i].by # "dump"
  BY <1>1, <1>2, <1>3, <1>7 DEF RowInv, DumpInv, FirstFrom
<1>8. StatusOnce'
  BY <1>2, <1>4, <1>7 DEF RowInv, StatusOnce
<1>9. NoStatusLost'
  <2> SUFFICES ASSUME pc["write"] = "run", NEW o \in 1 .. tracked, o \notin pending,
                      o \notin Joined
               PROVE  Reports(o)' # {}
    BY <1>3, <1>11 DEF NoStatusLost
  <2> QED  BY <1>2, EmitReports DEF RowInv, NoStatusLost
<1>10. DumpedInv'
  <2> SUFFICES ASSUME pc["write"] = "run", NEW o \in pending, o < id + 1
               PROVE  \E i \in Reports(o)' : rows'[i].by = "dump"
    BY <1>1, <1>3 DEF DumpedInv
  <2>1. CASE o = id  BY <2>1, <1>2, EmitReports
  <2>2. CASE o # id
    <3>1. o < dumpAt  BY <2>2, <1>1, <1>2 DEF FirstFrom
    <3>2. PICK i \in Reports(o) : rows[i].by = "dump"
      BY <3>1, <1>3 DEF RowInv, DumpedInv
    <3>3. i \in DOMAIN rows  BY DEF Reports
    <3> QED  BY <3>2, <3>3, <1>2, EmitReports
  <2> QED  BY <2>1, <2>2
<1> QED  BY <1>5, <1>12, <1>6, <1>8, <1>9, <1>10 DEF RowInv

\* The tracker files a batch: the ids are new, so no row has them yet.
LEMMA TrackRecvStep ==
    ASSUME TypeOK, StageInv, RowInv, TrackRecv
    PROVE  RowInv'
<1>1. PICK n \in 1 .. ReadAtOnce :
        /\ tracked' = tracked + n
        /\ pending' = pending \cup (tracked + 1 .. tracked + n)
  BY DEF TrackRecv
<1>2. /\ UNCHANGED <<dumpAt, rows, pc>> /\ pc["track"] = "run"
      /\ tracked \in Nat /\ n \in Nat
  BY <1>1, BatchAssumption DEF TrackRecv, TypeOK
<1>8. Joined' = Joined
  BY SameHand DEF TrackRecv, envVars
<1> USE DEF RowInv, Reports
<1>3. GoneInv'  BY <1>1, <1>2 DEF GoneInv
<1>9. HandInv'  BY <1>1, <1>2, <1>8 DEF HandInv
<1>4. DumpInv'  BY <1>2 DEF DumpInv
<1>5. StatusOnce'  BY <1>2 DEF StatusOnce
<1>6. NoStatusLost'
  <2> SUFFICES ASSUME pc["write"] = "run", NEW id \in 1 .. tracked',
                      id \notin pending', id \notin Joined
               PROVE  Reports(id) # {}
    BY <1>2, <1>8 DEF NoStatusLost
  <2>1. id \in 1 .. tracked /\ id \notin pending  BY <1>1, <1>2
  <2> QED  BY <2>1 DEF NoStatusLost
<1>7. DumpedInv'  BY <1>2 DEF DumpedInv
<1> QED  BY <1>3, <1>9, <1>4, <1>5, <1>6, <1>7

\* The dump begins: no row of a dump exists yet.
LEMMA TrackCancelStep ==
    ASSUME TypeOK, StageInv, RowInv, TrackCancel
    PROVE  RowInv'
<1>1. /\ UNCHANGED <<rows, pending, tracked>> /\ pc["track"] = "run"
      /\ dumpAt' = 1 /\ pc'["track"] = "dump" /\ pc'["write"] = pc["write"]
      /\ pending \subseteq 1 .. tracked /\ tracked \in Nat
  BY DEF TrackCancel, Goto, TypeOK, Tasks, mapVars
<1>7. Joined' = Joined
  BY SameHand DEF TrackCancel, Goto, TypeOK, Tasks, mapVars, envVars
<1> USE DEF RowInv, Reports
<1>2. GoneInv' /\ HandInv'  BY <1>1, <1>7 DEF GoneInv, HandInv
<1>3. DumpInv'  BY <1>1 DEF DumpInv
<1>4. StatusOnce'  BY <1>1 DEF StatusOnce
<1>5. NoStatusLost'  BY <1>1, <1>7 DEF NoStatusLost
<1>6. DumpedInv'  BY <1>1 DEF DumpedInv
<1> QED  BY <1>2, <1>3, <1>4, <1>5, <1>6

\* Every step keeps the row invariants.
LEMMA RowStep ==
    TypeOK /\ StageInv /\ RowInv /\ [Next]_vars => RowInv'
<1> SUFFICES ASSUME TypeOK, StageInv, RowInv, [Next]_vars  PROVE RowInv'
  OBVIOUS
<1> DEFINE Same == /\ UNCHANGED <<rows, pending, tracked, dumpAt, Joined>>
                   /\ pc'["track"] = pc["track"] \/ pc'["track"] = "done"
                   /\ pc'["write"] = "run" => pc["write"] = "run"
<1>1. Same => RowInv'  BY QuietStep
<1>9. ASSUME UNCHANGED <<drained, found, pc["block"]>>,
             \/ blockRecs' = blockRecs
             \/ \E id : blockRecs' = Append(blockRecs, id)
      PROVE  Joined' = Joined
  BY <1>9, SameHand
<1>2. CASE Environment
  <2>1. Joined' = Joined
    BY <1>2, <1>9 DEF Environment, Tick, SendRecord, CloseSent, LandRecord,
                      CloseBlock, Cancel, mapVars, envVars
  <2>2. Same
    BY <1>2, <2>1 DEF Environment, Tick, SendRecord, CloseSent, LandRecord,
                      CloseBlock, Cancel, mapVars
  <2> QED  BY <2>2, <1>1
<1>3. CASE Block
  <2>1. CASE BlockRecv \/ BlockStop
    <3>1. pc["block"] = "run" /\ pc'["block"] \in {"run", "done"}
      BY <2>1 DEF BlockRecv, BlockStop, Goto, TypeOK, Tasks
    <3>2. Joined' = Joined  BY <3>1 DEF Joined
    <3>3. Same
      BY <2>1, <3>2 DEF BlockRecv, BlockStop, Goto, TypeOK, Tasks, mapVars
    <3> QED  BY <3>3, <1>1
  <2> QED  BY <1>3, <2>1, BlockLookStep, BlockSendStep DEF Block
<1>4. CASE Flusher
  <2>1. CASE FlushTick \/ FlushLock \/ FlushEnd \/ FlushStop
    <3>1. Joined' = Joined
      BY <2>1, <1>9 DEF FlushTick, FlushLock, FlushEnd, FlushStop, Goto,
                        TypeOK, Tasks, mapVars, envVars
    <3>2. Same
      BY <2>1, <3>1 DEF FlushTick, FlushLock, FlushEnd, FlushStop, Goto,
                        TypeOK, Tasks, mapVars
    <3> QED  BY <3>2, <1>1
  <2> QED  BY <1>4, <2>1, FlushRowStep DEF Flusher
<1>5. CASE Tracker
  <2>1. CASE TrackStop \/ DumpEnd
    <3>1. Joined' = Joined
      BY <2>1, <1>9 DEF TrackStop, DumpEnd, Goto, TypeOK, Tasks, mapVars, envVars
    <3>2. Same
      BY <2>1, <3>1 DEF TrackStop, DumpEnd, Goto, TypeOK, Tasks, mapVars
    <3> QED  BY <3>2, <1>1
  <2> QED
    BY <1>5, <2>1, TrackRecvStep, TrackCancelStep, DumpRowStep DEF Tracker
<1>6. CASE Writer
  <2>1. Joined' = Joined
    BY <1>6, <1>9 DEF Writer, WriteBatch, WriteFail, WriteStop, TakeRows,
                      Goto, TypeOK, Tasks, mapVars, envVars
  <2>2. Same
    BY <1>6, <2>1 DEF Writer, WriteBatch, WriteFail, WriteStop, TakeRows,
                      Goto, TypeOK, Tasks, mapVars
  <2> QED  BY <2>2, <1>1
<1>7. CASE Finished \/ UNCHANGED vars
  <2>1. Joined' = Joined
    BY <1>7, <1>9 DEF Finished, vars, mapVars, envVars
  <2>2. Same  BY <1>7, <2>1 DEF Finished, vars, mapVars
  <2> QED  BY <2>2, <1>1
<1>8. CASE OpenFails
  <2>1. pc["block"] = "run" /\ pc'["block"] = "done"
    BY <1>8 DEF OpenFails, Tasks
  <2>2. Joined' = Joined  BY <2>1 DEF Joined
  <2>3. Same  BY <1>8, <2>2 DEF OpenFails, Tasks, mapVars
  <2> QED  BY <2>3, <1>1
<1> QED  BY <1>2, <1>3, <1>4, <1>5, <1>6, <1>7, <1>8 DEF Next

\* The inductive invariant, for every value of the constants.
THEOREM Invariance == Spec => []IInv
<1>1. Init => IInv
  <2> SUFFICES ASSUME Init  PROVE IInv
    OBVIOUS
  <2>1. TypeOK  BY TypeInit
  <2>2. StageInv  BY DEF Init, StageInv, Tasks
  <2>3. RowInv
    BY DEF Init, RowInv, GoneInv, HandInv, Joined, DumpInv, StatusOnce,
           NoStatusLost, DumpedInv, Tasks
  <2>4. OrderInv  BY DEF Init, OrderInv
  <2> QED  BY <2>1, <2>2, <2>3, <2>4 DEF IInv, RowInv
<1>2. IInv /\ [Next]_vars => IInv'
  BY TypeStep, StageStep, RowStep, OrderStep DEF IInv, RowInv
<1> QED  BY <1>1, <1>2, PTL DEF Spec

-----------------------------------------------------------------------------
\* The status of a send is passed on once by the block task or the flusher,
\* and once more at most by the dump (csv_writer.rs:161-172, 192-208, 236-246).
THEOREM StatusOnceCorrect == Spec => []StatusOnce
<1> QED  BY Invariance, PTL DEF IInv

\* While the writer lives, a filed send is in the map, in the hands of the
\* block task, or was passed on (csv_writer.rs:161-171, 192-208, 233-236).
THEOREM NoStatusLostCorrect == Spec => []NoStatusLost
<1> QED  BY Invariance, PTL DEF IInv

\* The early exit of the flusher's scan is right (csv_writer.rs:201-203).
THEOREM ScanCompleteCorrect == Spec => ScanComplete
<1> DEFINE Done == FlushEnd /\ pc["write"] = "run"
                     => \A id \in pending' : ~TooOld(id)
<1>1. IInv => Done
  <2> SUFFICES ASSUME IInv, FlushEnd, pc["write"] = "run", NEW id \in pending'
               PROVE  ~TooOld(id)
    OBVIOUS
  <2>1. pending' = pending  BY DEF FlushEnd, mapVars
  <2>2. PICK first \in pending : FirstFrom(1, first) /\ ~TooOld(first)
    BY <2>1 DEF FlushEnd
  <2>3. /\ pending \subseteq 1 .. Len(sent) /\ DOMAIN sent = 1 .. Len(sent)
        /\ flushNow \in Nat /\ \A i \in DOMAIN sent : sent[i] \in Nat
    BY DEF IInv, TypeOK
  <2>4. first <= id  BY <2>1, <2>2, <2>3 DEF FirstFrom
  <2>5. sent[first] <= sent[id]  BY <2>1, <2>3, <2>4 DEF IInv, OrderInv
  <2> QED  BY <2>1, <2>2, <2>3, <2>5, MaxTxAgeAssumption DEF TooOld
<1>2. IInv => [Done]_vars  BY <1>1
<1> QED  BY <1>2, Invariance, PTL DEF ScanComplete

\* A dump that ends has passed on the whole map (csv_writer.rs:237-244).
THEOREM DumpCompleteCorrect == Spec => DumpComplete
<1> DEFINE Done == DumpEnd /\ pc["write"] = "run"
                     => \A id \in pending :
                          \E i \in Reports(id) : rows[i].by = "dump"
<1>1. IInv => Done  BY DEF DumpEnd, IInv, DumpedInv
<1>2. IInv => [Done]_vars  BY <1>1
<1> QED  BY <1>2, Invariance, PTL DEF DumpComplete

-----------------------------------------------------------------------------
\* Without an I/O error the file holds what the writer has taken, and the
\* writer leaves only after its senders and with nothing left to take.
FileInv ==
    ~faulty =>
        /\ file = 1 .. taken
        /\ pc["write"] # "run" =>
              taken = Len(rows) /\ \A t \in Tasks \ {"write"} : pc[t] = "done"

\* A task that has ended stays so, and only the three senders and the writer
\* move the rows.
LEMMA FileStep == TypeOK /\ FileInv /\ [Next]_vars => FileInv'
<1> SUFFICES ASSUME TypeOK, FileInv, [Next]_vars  PROVE FileInv'
  OBVIOUS
<1> USE DEF FileInv
<1>1. ASSUME UNCHANGED <<fileVars, rows, pc>>  PROVE FileInv'
  BY <1>1 DEF fileVars
<1>2. ASSUME UNCHANGED fileVars, pc["write"] = "run", pc'["write"] = "run"
      PROVE  FileInv'
  BY <1>2 DEF fileVars
<1>3. ASSUME UNCHANGED <<fileVars, rows>>, NEW t \in Tasks \ {"write"},
             NEW stage, Goto(t, stage), pc[t] # "done"
      PROVE  FileInv'
  BY <1>3 DEF fileVars, Goto, TypeOK, Tasks
<1>4. ASSUME NEW t \in Tasks \ {"write"}, pc[t] # "done",
             UNCHANGED <<fileVars, pc>>
      PROVE  FileInv'
  <2>1. CASE faulty  BY <2>1, <1>4 DEF fileVars
  <2>2. CASE ~faulty  BY <2>2, <1>4, <1>2, Zenon DEF TypeOK, Tasks
  <2> QED  BY <2>1, <2>2
<1>5. CASE Environment
  BY <1>5, <1>1 DEF Environment, Tick, SendRecord, CloseSent, LandRecord,
                    CloseBlock, Cancel
<1>6. CASE Block
  <2>1. CASE BlockRecv  BY <2>1, <1>1 DEF BlockRecv
  <2>2. CASE BlockLook  BY <2>2, <1>3 DEF BlockLook, Tasks
  <2>3. CASE BlockSend
    <3>1. pc["block"] = "send" /\ Goto("block", "run") /\ UNCHANGED fileVars
      BY <2>3 DEF BlockSend
    <3>2. pc["block"] # "done" /\ pc'["write"] = pc["write"]
      BY <3>1 DEF Goto, TypeOK, Tasks
    <3>3. CASE faulty  BY <3>3, <3>1 DEF fileVars
    <3>4. CASE ~faulty
      <4>1. pc["write"] = "run"  BY <3>2, <3>4 DEF Tasks
      <4> QED  BY <4>1, <3>1, <3>2, <1>2
    <3> QED  BY <3>3, <3>4
  <2>4. CASE BlockStop  BY <2>4, <1>3 DEF BlockStop, Tasks
  <2> QED  BY <1>6, <2>1, <2>2, <2>3, <2>4 DEF Block
<1>7. CASE Flusher
  <2>1. CASE FlushTick  BY <2>1, <1>3 DEF FlushTick, Tasks
  <2>2. CASE FlushLock  BY <2>2, <1>3 DEF FlushLock, Tasks
  <2>3. CASE FlushRow
    <3>1. pc["flush"] # "done" /\ UNCHANGED <<fileVars, pc>>
      BY <2>3 DEF FlushRow
    <3> QED  BY <3>1, <1>4 DEF Tasks
  <2>4. CASE FlushEnd  BY <2>4, <1>3 DEF FlushEnd, Tasks
  <2>5. CASE FlushStop  BY <2>5, <1>3 DEF FlushStop, Tasks
  <2> QED  BY <1>7, <2>1, <2>2, <2>3, <2>4, <2>5 DEF Flusher
<1>8. CASE Tracker
  <2>1. CASE TrackRecv  BY <2>1, <1>1 DEF TrackRecv
  <2>2. CASE TrackStop  BY <2>2, <1>3 DEF TrackStop, Tasks
  <2>3. CASE TrackCancel  BY <2>3, <1>3 DEF TrackCancel, Tasks
  <2>4. CASE DumpRow
    <3>1. pc["track"] # "done" /\ UNCHANGED <<fileVars, pc>>
      BY <2>4 DEF DumpRow
    <3> QED  BY <3>1, <1>4 DEF Tasks
  <2>5. CASE DumpEnd  BY <2>5, <1>3 DEF DumpEnd, Tasks
  <2> QED  BY <1>8, <2>1, <2>2, <2>3, <2>4, <2>5 DEF Tracker
<1>9. CASE Writer
  <2>1. ASSUME NEW n \in 1 .. ReadAtOnceCsv, NEW lost, TakeRows(n, lost)
        PROVE  pc["write"] = "run" /\ (~faulty' => file' = 1 .. taken')
    <3>1. /\ pc["write"] = "run" /\ taken' = taken + n
          /\ file' = file \cup ((taken + 1 .. taken + n) \ lost)
          /\ taken \in Nat /\ n \in Nat
      BY <2>1, BatchAssumption DEF TakeRows, TypeOK
    <3>2. ~faulty' => ~faulty /\ lost = {}  BY <2>1, Zenon DEF TakeRows
    <3>3. ~faulty' => file' = (1 .. taken) \cup (taken + 1 .. taken + n)
      BY <3>1, <3>2
    <3> QED  BY <3>1, <3>3
  <2>2. CASE WriteBatch  BY <2>1, <2>2 DEF WriteBatch
  <2>3. CASE WriteFail
    <3>1. PICK n \in 1 .. ReadAtOnceCsv : TakeRows(n, taken + 1 .. taken + n)
      BY <2>3 DEF WriteFail
    <3>2. taken + 1 \in taken + 1 .. taken + n  BY BatchAssumption DEF TypeOK
    <3>3. faulty'  BY <3>1, <3>2 DEF TakeRows
    <3> QED  BY <3>3
  <2>4. CASE WriteStop
    BY <2>4 DEF WriteStop, fileVars, Goto, TypeOK, Tasks
  <2> QED  BY <1>9, <2>2, <2>3, <2>4 DEF Writer
<1>10. CASE Finished \/ UNCHANGED vars  BY <1>10, <1>1 DEF Finished, vars
<1>11. CASE OpenFails  BY <1>11 DEF OpenFails
<1> QED  BY <1>5, <1>6, <1>7, <1>8, <1>9, <1>10, <1>11 DEF Next

\* run_csv_writer returns with every row in the file, unless writing failed
\* (csv_writer.rs:251-275).
THEOREM FileCompleteCorrect == Spec => []FileComplete
<1>1. Init => FileInv  BY DEF Init, FileInv, Tasks
<1>2. TypeOK /\ FileInv => FileComplete
  <2> SUFFICES ASSUME TypeOK, FileInv, AllDone, ~faulty
               PROVE  file = DOMAIN rows
    BY DEF FileComplete
  <2>1. pc["write"] = "done"  BY DEF AllDone, Tasks
  <2> QED  BY <2>1 DEF FileInv, TypeOK
<1> QED  BY <1>1, <1>2, FileStep, TypeCorrect, PTL DEF Spec

-----------------------------------------------------------------------------
(* CsvWriter implements Reporting, for every value of the constants: the   *)
(* initial states map to initial states, and every step of a task or of    *)
(* the environment maps to one step of the ledger or to none.              *)

\* The map is what the ledger calls waiting.
MapInv == pc["write"] = "run" => pending = Ledger!Waiting

\* The flusher's time is not ahead of the clock.
FlushNowInv == flushNow <= now

\* A new row that is not dumped tells its own send, and no row stops telling.
LEMMA EmitTells ==
    ASSUME rows \in Seq(Row), NEW row \in Row, Emit(row), pc["write"] = "run",
           NEW id
    PROVE  Ledger!Told(id)' <=>
             \/ Ledger!Told(id)
             \/ row.status /\ row.id = id /\ row.by # "dump"
<1>1. /\ \A i \in DOMAIN rows : i \in DOMAIN rows' /\ rows'[i] = rows[i]
      /\ Len(rows) + 1 \in DOMAIN rows' /\ rows'[Len(rows) + 1] = row
      /\ \A i \in DOMAIN rows' :
           i \in DOMAIN rows \/ rows'[i] = row
  <2>1. rows' = Append(rows, row)  BY DEF Emit
  <2> QED  BY <2>1
<1> QED  BY <1>1 DEF Ledger!Told

\* What the row in hand will tell is the send whose status was taken.
LEMMA SoonIsJoined ==
    pc["write"] = "run" => \A id : Ledger!ToldSoon(id) <=> id \in Joined
<1> SUFFICES ASSUME pc["write"] = "run", NEW id
             PROVE  Ledger!ToldSoon(id) <=> id \in Joined
  OBVIOUS
<1>1. InHand.id = blockRecs[drained + 1] /\ InHand.status = found
  BY DEF InHand
<1>2. CASE pc["block"] = "send"
  <2>1. Held = {InHand}  BY <1>2 DEF Held
  <2>2. Ledger!ToldSoon(id) <=> InHand.status /\ InHand.id = id
    BY <2>1 DEF Ledger!ToldSoon
  <2> QED  BY <2>2, <1>1, <1>2 DEF Joined
<1>3. CASE pc["block"] # "send"  BY <1>3 DEF Held, Joined, Ledger!ToldSoon
<1> QED  BY <1>2, <1>3

\* The map stays what waits, whichever task writes to it.
LEMMA MapStep == IInv /\ MapInv /\ [Next]_vars => MapInv'
<1> SUFFICES ASSUME IInv, MapInv, [Next]_vars, pc'["write"] = "run"
             PROVE  pending' = Ledger!Waiting'
  BY DEF MapInv
<1> USE DEF MapInv
<1>1. TypeOK  BY DEF IInv
<1>14. /\ pc["write"] = "run" =>
           Ledger!Waiting = {id \in 1 .. tracked : ~Ledger!Told(id) /\ id \notin Joined}
       /\ Ledger!Waiting' =
            {id \in 1 .. tracked' : ~Ledger!Told(id)' /\ id \notin Joined'}
  <2>1. (pc["write"] = "run" =>
          \A id : Ledger!ToldSoon(id) <=> id \in Joined)'
    BY SoonIsJoined, PTL
  <2> QED  BY <2>1, SoonIsJoined DEF Ledger!Waiting
<1>15. \A id : UNCHANGED rows => (Ledger!Told(id)' <=> Ledger!Told(id))
  BY DEF Ledger!Told
<1>16. ASSUME UNCHANGED <<drained, found, pc["block"]>>,
              \/ blockRecs' = blockRecs
              \/ \E id : blockRecs' = Append(blockRecs, id)
       PROVE  Joined' = Joined
  BY <1>16, <1>1, SameHand
<1>2. ASSUME UNCHANGED <<rows, pending, tracked, Joined>>, pc["write"] = "run"
      PROVE  pending' = Ledger!Waiting'
  BY <1>2, <1>14, <1>15
<1>3. CASE BlockLook
  <2> DEFINE id == blockRecs[drained + 1]
  <2>1. /\ found' = (id \in pending) /\ pending' = pending \ {id}
        /\ UNCHANGED <<blockRecs, drained, tracked, rows>>
        /\ pc["block"] = "run" /\ pc'["block"] = "send" /\ pc["write"] = "run"
    BY <1>1, <1>3 DEF BlockLook, Goto, TypeOK, Tasks, envVars
  <2>2. Joined = {} /\ Joined' = IF id \in pending THEN {id} ELSE {}
    BY <2>1 DEF Joined
  <2> HIDE DEF id
  <2> QED  BY <2>1, <2>2, <1>14, <1>15
<1>17. CASE BlockSend
  <2> DEFINE id == blockRecs[drained + 1]
             row == InHand
  <2>1. /\ row \in Row /\ rows \in Seq(Row) /\ found \in BOOLEAN
        /\ row.id = id /\ row.by = "block" /\ row.status = found
    BY <1>1, <1>17, HandRow DEF BlockSend, TypeOK
  <2>2. /\ Emit(row) /\ UNCHANGED <<tracked, pending>>
        /\ pc["block"] = "send" /\ pc'["block"] = "run" /\ pc["write"] = "run"
    BY <1>1, <1>17 DEF BlockSend, Goto, TypeOK, Tasks
  <2>3. Joined = (IF found THEN {id} ELSE {}) /\ Joined' = {}
    BY <2>2 DEF Joined
  <2> HIDE DEF row, id
  <2>4. \A o : Ledger!Told(o)' <=> (Ledger!Told(o) \/ o \in Joined)
    BY <2>1, <2>2, <2>3, EmitTells
  <2> QED  BY <2>2, <2>3, <2>4, <1>14
<1>4. CASE FlushRow
  <2>1. PICK id \in pending :
          /\ pending' = pending \ {id}
          /\ Emit([id |-> id, by |-> "flush", status |-> TRUE])
    BY <1>4 DEF FlushRow
  <2> DEFINE row == [id |-> id, by |-> "flush", status |-> TRUE]
  <2>2. /\ row \in Row /\ rows \in Seq(Row) /\ Emit(row)
        /\ row.id = id /\ row.by = "flush" /\ row.status
        /\ tracked' = tracked /\ pc["write"] = "run"
    BY <1>1, <1>4, <2>1 DEF TypeOK, Row, FlushRow
  <2> HIDE DEF row
  <2>3. \A o : Ledger!Told(o)' <=> (Ledger!Told(o) \/ o = id)
    BY <2>2, EmitTells
  <2>4. Joined' = Joined  BY <1>4, <1>16 DEF FlushRow, envVars
  <2> QED  BY <2>1, <2>2, <2>3, <2>4, <1>14
<1>5. CASE DumpRow
  <2>1. PICK id \in pending : Emit([id |-> id, by |-> "dump", status |-> TRUE])
    BY <1>5 DEF DumpRow
  <2> DEFINE row == [id |-> id, by |-> "dump", status |-> TRUE]
  <2>2. /\ row \in Row /\ rows \in Seq(Row) /\ Emit(row) /\ row.by = "dump"
        /\ UNCHANGED <<tracked, pending>> /\ pc["write"] = "run"
    BY <1>1, <1>5, <2>1 DEF TypeOK, Row, DumpRow, mapVars
  <2> HIDE DEF row
  <2>3. \A o : Ledger!Told(o)' <=> Ledger!Told(o)
    BY <2>2, EmitTells
  <2>4. Joined' = Joined  BY <1>5, <1>16 DEF DumpRow, envVars, mapVars
  <2> QED  BY <2>2, <2>3, <2>4, <1>14
<1>6. CASE TrackRecv
  <2>1. PICK n \in 1 .. ReadAtOnce :
          /\ tracked' = tracked + n
          /\ pending' = pending \cup (tracked + 1 .. tracked + n)
    BY <1>6 DEF TrackRecv
  <2>2. /\ rows' = rows /\ pc["write"] = "run" /\ tracked \in Nat /\ n \in Nat
    BY <1>1, <1>6, BatchAssumption DEF TrackRecv, TypeOK
  <2>3. \A id \in tracked + 1 .. tracked + n : ~Ledger!Told(id)
    BY <2>2 DEF IInv, GoneInv, Ledger!Told
  <2>4. Joined' = Joined  BY <1>6, <1>16 DEF TrackRecv, envVars
  <2>5. \A id \in tracked + 1 .. tracked + n : id \notin Joined
    BY <2>2 DEF IInv, HandInv
  <2>6. \A id : Ledger!Told(id)' <=> Ledger!Told(id)  BY <2>2, <1>15
  <2> QED  BY <2>1, <2>2, <2>3, <2>4, <2>5, <2>6, <1>14
<1>7. CASE Environment
  <2>1. Joined' = Joined
    BY <1>7, <1>16 DEF Environment, Tick, SendRecord, CloseSent, LandRecord,
                       CloseBlock, Cancel, mapVars, envVars
  <2> QED
    BY <1>7, <2>1, <1>2 DEF Environment, Tick, SendRecord, CloseSent, LandRecord,
                            CloseBlock, Cancel, mapVars
<1>8. CASE BlockRecv \/ BlockStop
  <2>1. /\ pc["block"] = "run" /\ pc'["block"] \in {"run", "done"}
        /\ UNCHANGED <<rows, pending, tracked, pc["write"]>>
    BY <1>8, <1>1 DEF BlockRecv, BlockStop, Goto, mapVars, TypeOK, Tasks
  <2>2. Joined' = Joined  BY <2>1 DEF Joined
  <2> QED  BY <2>1, <2>2, <1>2
<1>9. CASE TrackStop \/ TrackCancel \/ DumpEnd
  <2>1. /\ UNCHANGED <<blockRecs, drained, found, pc["block"], pc["write"]>>
        /\ UNCHANGED <<rows, pending, tracked>>
    BY <1>9, <1>1 DEF TrackStop, TrackCancel, DumpEnd, Goto, mapVars, envVars,
                      TypeOK, Tasks
  <2> QED  BY <2>1, <1>2, <1>16
<1>10. CASE FlushTick \/ FlushLock \/ FlushEnd \/ FlushStop
  <2>1. /\ UNCHANGED <<blockRecs, drained, found, pc["block"], pc["write"]>>
        /\ UNCHANGED <<rows, pending, tracked>>
    BY <1>10, <1>1 DEF FlushTick, FlushLock, FlushEnd, FlushStop, Goto, mapVars,
                       envVars, TypeOK, Tasks
  <2> QED  BY <2>1, <1>2, <1>16
<1>11. CASE Writer
  <2>1. /\ UNCHANGED <<blockRecs, drained, found, pc["block"]>>
        /\ UNCHANGED <<rows, pending, tracked>> /\ pc["write"] = "run"
    BY <1>11, <1>1 DEF Writer, WriteBatch, WriteFail, WriteStop, TakeRows, Goto,
                       mapVars, envVars, TypeOK, Tasks
  <2> QED  BY <2>1, <1>2, <1>16
<1>12. CASE Finished \/ UNCHANGED vars
  <2>1. /\ UNCHANGED <<blockRecs, drained, found, pc>>
        /\ UNCHANGED <<rows, pending, tracked>>
    BY <1>12 DEF Finished, vars, mapVars, envVars
  <2> QED  BY <2>1, <1>2, <1>16
<1>13. CASE OpenFails  BY <1>13 DEF OpenFails, Tasks
<1> QED
  BY <1>3, <1>4, <1>5, <1>6, <1>7, <1>8, <1>9, <1>10, <1>11, <1>12, <1>13,
     <1>17
  DEF Next, Block, Flusher, Tracker

\* No step puts the time the flusher compares with ahead of the clock.
LEMMA FlushNowStep == TypeOK /\ FlushNowInv /\ [Next]_vars => FlushNowInv'
<1> SUFFICES ASSUME TypeOK, FlushNowInv, [Next]_vars  PROVE FlushNowInv'
  OBVIOUS
<1> USE DEF FlushNowInv
<1>1. CASE UNCHANGED <<now, flushNow>>  BY <1>1
<1>2. CASE Tick  BY <1>2 DEF Tick, timeVars, TypeOK
<1>3. CASE FlushTick  BY <1>3 DEF FlushTick, TypeOK
<1>4. CASE Environment
  BY <1>4, <1>1, <1>2 DEF Environment, SendRecord, CloseSent, LandRecord,
                          CloseBlock, Cancel, timeVars
<1>5. CASE Block
  BY <1>5, <1>1 DEF Block, BlockRecv, BlockLook, BlockSend, BlockStop, timeVars
<1>6. CASE Flusher
  BY <1>6, <1>1, <1>3 DEF Flusher, FlushLock, FlushRow, FlushEnd, FlushStop,
                          timeVars
<1>7. CASE Tracker
  BY <1>7, <1>1 DEF Tracker, TrackRecv, TrackStop, TrackCancel, DumpRow,
                    DumpEnd, timeVars
<1>8. CASE Writer
  BY <1>8, <1>1 DEF Writer, WriteBatch, WriteFail, WriteStop, TakeRows, timeVars
<1>9. CASE Finished \/ UNCHANGED vars \/ OpenFails
  BY <1>9, <1>1 DEF Finished, vars, OpenFails, timeVars
<1> QED  BY <1>4, <1>5, <1>6, <1>7, <1>8, <1>9 DEF Next

-----------------------------------------------------------------------------
\* What a step leaves alone in the ledger.
Quiet == UNCHANGED <<now, sent, tracked, rows, Held, cancelled, pc["write"],
                     pc["track"]>>

\* The inductive invariant of CsvWriter and what the mapping adds to it.
RInv == IInv /\ MapInv /\ FlushNowInv

\* The row in hand is the same as long as block task and writer are where
\* they were.
LEMMA SameHeld ==
    ASSUME TypeOK, UNCHANGED <<drained, found, pc["block"], pc["write"]>>,
           \/ blockRecs' = blockRecs
           \/ \E id : blockRecs' = Append(blockRecs, id)
    PROVE  Held' = Held
<1>1. pc["block"] = "send" => InHand' = InHand  BY SameHand
<1> QED  BY <1>1 DEF Held

\* A step that the ledger does not see is a stutter of it.
LEMMA QuietStutter == ASSUME Quiet  PROVE UNCHANGED Ledger!vars
<1>1. Phase' = Phase  BY DEF Quiet, Phase
<1>2. (pc["write"] # "run")' = (pc["write"] # "run")  BY DEF Quiet
<1> QED  BY <1>1, <1>2 DEF Quiet, Ledger!vars

\* The environment's steps are those of the ledger's.
LEMMA EnvironmentMaps ==
    ASSUME RInv, Environment  PROVE [Ledger!Next]_Ledger!vars
<1>1. ASSUME UNCHANGED pc  PROVE UNCHANGED <<Phase, pc["write"] # "run">>
  BY <1>1 DEF Phase
<1>7. Held' = Held
  <2>1. /\ UNCHANGED <<drained, found, pc>>
        /\ blockRecs' = blockRecs \/ \E id : blockRecs' = Append(blockRecs, id)
    BY DEF Environment, Tick, SendRecord, CloseSent, LandRecord, CloseBlock,
           Cancel, mapVars, envVars
  <2> QED  BY <2>1, SameHeld DEF RInv, IInv
<1>2. CASE Tick
  <2>1. Ledger!Tick  BY <1>2, <1>1, <1>7 DEF Tick, Ledger!Tick, envVars, mapVars
  <2> QED  BY <2>1 DEF Ledger!Next
<1>3. CASE SendRecord
  <2>1. Phase # "over"  BY <1>3 DEF SendRecord, Phase
  <2>2. Ledger!Send  BY <1>3, <1>1, <1>7, <2>1 DEF SendRecord, Ledger!Send, mapVars
  <2> QED  BY <2>2 DEF Ledger!Next
<1>4. CASE Cancel
  <2>1. Ledger!Cancel  BY <1>4, <1>1, <1>7 DEF Cancel, Ledger!Cancel, mapVars
  <2> QED  BY <2>1 DEF Ledger!Next
<1>5. CASE CloseSent \/ CloseBlock
  <2>1. Quiet  BY <1>5, <1>7 DEF CloseSent, CloseBlock, Quiet, mapVars
  <2> QED  BY <2>1, QuietStutter
<1>6. ASSUME NEW id \in 0 .. MaxTxs, LandRecord(id)  PROVE UNCHANGED Ledger!vars
  <2>1. Quiet  BY <1>6, <1>7 DEF LandRecord, Quiet, mapVars
  <2> QED  BY <2>1, QuietStutter
<1> QED  BY <1>2, <1>3, <1>4, <1>5, <1>6 DEF Environment

\* The block task looks up a row, which gets a status just when its send
\* waits, and lands it later.
LEMMA BlockMaps ==
    ASSUME RInv, Block  PROVE [Ledger!Next]_Ledger!vars
<1>1. CASE BlockRecv \/ BlockStop
  <2>1. pc["block"] = "run" /\ pc'["block"] \in {"run", "done"}
    BY <1>1 DEF BlockRecv, BlockStop, Goto, RInv, IInv, TypeOK, Tasks
  <2>2. Held' = Held  BY <2>1 DEF Held
  <2>3. Quiet
    BY <1>1, <2>2 DEF BlockRecv, BlockStop, Goto, Quiet, envVars, mapVars, RInv,
                      IInv, TypeOK, Tasks
  <2> QED  BY <2>3, QuietStutter
<1>2. CASE BlockLook
  <2> DEFINE id == blockRecs[drained + 1]
  <2>1. id \in 0 .. MaxTxs  BY <1>2, BlockId DEF BlockLook, RInv, IInv
  <2>2. /\ found' = (id \in pending) /\ (id # 0 => pc["track"] # "dump")
        /\ pc["block"] = "run" /\ pc'["block"] = "send"
        /\ UNCHANGED <<now, sent, cancelled, tracked, rows, blockRecs, drained>>
        /\ UNCHANGED <<pc["write"], pc["track"]>>
    BY <1>2 DEF BlockLook, LockFree, NoId, Goto, envVars, RInv, IInv, TypeOK, Tasks
  <2>3. Held = {}  BY <2>2 DEF Held
  <2>4. InHand' = [id |-> id, by |-> "block", status |-> id \in pending]
    BY <2>2 DEF InHand
  <2>5. UNCHANGED <<Phase, pc["write"] # "run">>  BY <2>2 DEF Phase
  <2> HIDE DEF id
  <2>6. CASE pc["write"] # "run"
    <3>1. Quiet  BY <2>2, <2>3, <2>6 DEF Quiet, Held
    <3> QED  BY <3>1, QuietStutter
  <2>7. CASE pc["write"] = "run"
    <3>1. Held' = {[id |-> id, by |-> "block", status |-> id \in Ledger!Waiting]}
      BY <2>2, <2>4, <2>7 DEF Held, RInv, MapInv
    <3>2. Phase = "dumping" => id = 0  BY <2>2 DEF Phase
    <3>3. Ledger!Look(id)
      BY <2>2, <2>3, <2>5, <2>7, <3>1, <3>2 DEF Ledger!Look
    <3> QED  BY <2>1, <3>3 DEF Ledger!Next
  <2> QED  BY <2>6, <2>7
<1>3. CASE BlockSend
  <2>1. /\ Emit(InHand) /\ pc["block"] = "send" /\ pc'["block"] = "run"
        /\ UNCHANGED <<now, sent, cancelled, tracked>>
        /\ UNCHANGED <<pc["write"], pc["track"]>>
    BY <1>3 DEF BlockSend, Goto, envVars, RInv, IInv, TypeOK, Tasks
  <2>2. Held' = {} /\ UNCHANGED <<Phase, pc["write"] # "run">>
    BY <2>1 DEF Held, Phase
  <2>3. CASE pc["write"] # "run"
    <3>1. Quiet  BY <2>1, <2>2, <2>3 DEF Quiet, Held, Emit
    <3> QED  BY <3>1, QuietStutter
  <2>4. CASE pc["write"] = "run"
    <3>1. Held = {InHand}  BY <2>1, <2>4 DEF Held
    <3>2. Ledger!Put(InHand)  BY <2>1, <2>4 DEF Emit, Ledger!Put
    <3>3. Ledger!Land  BY <2>1, <2>2, <3>1, <3>2 DEF Ledger!Land
    <3> QED  BY <3>3 DEF Ledger!Next
  <2> QED  BY <2>3, <2>4
<1> QED  BY <1>1, <1>2, <1>3 DEF Block

\* The flusher gives up the oldest send that waits, if it is too old.
LEMMA FlusherMaps ==
    ASSUME RInv, Flusher  PROVE [Ledger!Next]_Ledger!vars
<1>3. Held' = Held
  <2>1. UNCHANGED <<drained, found, pc["block"], pc["write"], blockRecs>>
    BY DEF Flusher, FlushTick, FlushLock, FlushRow, FlushEnd, FlushStop, Goto,
           envVars, mapVars, RInv, IInv, TypeOK, Tasks
  <2> QED  BY <2>1, SameHeld DEF RInv, IInv
<1>1. CASE FlushTick \/ FlushLock \/ FlushEnd \/ FlushStop
  <2>1. Quiet
    BY <1>1, <1>3 DEF FlushTick, FlushLock, FlushEnd, FlushStop, Goto, Quiet,
                      envVars, mapVars, RInv, IInv, TypeOK, Tasks
  <2> QED  BY <2>1, QuietStutter
<1>2. CASE FlushRow
  <2>1. PICK id \in pending :
          /\ FirstFrom(1, id) /\ TooOld(id)
          /\ Emit([id |-> id, by |-> "flush", status |-> TRUE])
    BY <1>2 DEF FlushRow
  <2>2. /\ pc["write"] = "run" /\ pc["track"] # "dump"
        /\ UNCHANGED <<now, sent, cancelled, tracked, pc>>
    BY <1>2 DEF FlushRow, envVars, RInv, IInv, StageInv
  <2>3. pending = Ledger!Waiting  BY <2>2 DEF RInv, MapInv
  <2>4. /\ now \in Nat /\ flushNow \in Nat /\ flushNow <= now
        /\ pending \subseteq 1 .. Len(sent) /\ sent \in Seq(Nat)
    BY DEF RInv, IInv, TypeOK, FlushNowInv
  <2>5. now > sent[id] + MaxTxAge
    <3>1. sent[id] \in Nat  BY <2>4
    <3>2. flushNow > sent[id] + MaxTxAge  BY <2>1 DEF TooOld
    <3> QED  BY <2>4, <3>1, <3>2, MaxTxAgeAssumption
  <2>6. \A o \in Ledger!Waiting : id <= o
    BY <2>1, <2>3, <2>4 DEF FirstFrom
  <2>7. Phase # "dumping" /\ UNCHANGED <<Phase, pc["write"] # "run">>
    BY <2>2 DEF Phase
  <2>8. Ledger!Put([id |-> id, by |-> "flush", status |-> TRUE])
    BY <2>1, <2>2 DEF Emit, Ledger!Put
  <2>9. Ledger!Expire(id)
    BY <1>3, <2>2, <2>3, <2>5, <2>6, <2>7, <2>8 DEF Ledger!Expire
  <2> QED  BY <2>3, <2>9 DEF Ledger!Next
<1> QED  BY <1>1, <1>2 DEF Flusher

\* The tracker files, leaves, or dumps what waits in the order of ids.
LEMMA TrackerMaps ==
    ASSUME RInv, Tracker  PROVE [Ledger!Next]_Ledger!vars
<1>6. Held' = Held
  <2>1. UNCHANGED <<drained, found, pc["block"], pc["write"], blockRecs>>
    BY DEF Tracker, TrackRecv, TrackStop, TrackCancel, DumpRow, DumpEnd, Goto,
           envVars, mapVars, RInv, IInv, TypeOK, Tasks
  <2> QED  BY <2>1, SameHeld DEF RInv, IInv
<1> USE DEF RInv, IInv
<1>1. CASE TrackRecv
  <2>1. PICK n \in 1 .. ReadAtOnce :
          tracked + n <= Len(sent) /\ tracked' = tracked + n
    BY <1>1 DEF TrackRecv
  <2>2. tracked' \in tracked + 1 .. Len(sent)
    BY <2>1, BatchAssumption DEF TypeOK
  <2>3. pc["track"] = "run" /\ UNCHANGED <<now, sent, rows, cancelled, pc>>
    BY <1>1 DEF TrackRecv, envVars
  <2>4. Phase = "filing" /\ UNCHANGED <<Phase, pc["write"] # "run">>
    BY <2>3 DEF Phase
  <2>5. Ledger!File  BY <1>6, <2>2, <2>3, <2>4 DEF Ledger!File
  <2> QED  BY <2>5 DEF Ledger!Next
<1>2. CASE TrackStop
  <2>1. /\ pc["track"] = "run" /\ pc'["track"] = "done"
        /\ pc'["write"] = pc["write"]
        /\ tracked = Len(sent) /\ UNCHANGED <<now, sent, tracked, rows, cancelled>>
    BY <1>2 DEF TrackStop, Goto, envVars, mapVars, TypeOK, Tasks
  <2>2. Phase = "filing" /\ Phase' = "over" /\ UNCHANGED (pc["write"] # "run")
    BY <2>1 DEF Phase
  <2>3. Ledger!Leave  BY <1>6, <2>1, <2>2 DEF Ledger!Leave
  <2> QED  BY <2>3 DEF Ledger!Next
<1>3. CASE TrackCancel
  <2>1. /\ pc["track"] = "run" /\ pc'["track"] = "dump"
        /\ pc'["write"] = pc["write"]
        /\ cancelled /\ UNCHANGED <<now, sent, tracked, rows, cancelled>>
    BY <1>3 DEF TrackCancel, Goto, envVars, mapVars, TypeOK, Tasks
  <2>2. Phase = "filing" /\ Phase' = "dumping" /\ UNCHANGED (pc["write"] # "run")
    BY <2>1 DEF Phase
  <2>3. Ledger!BeginDump  BY <1>6, <2>1, <2>2 DEF Ledger!BeginDump
  <2> QED  BY <2>3 DEF Ledger!Next
<1>4. CASE DumpRow
  <2>1. PICK id \in pending :
          /\ FirstFrom(dumpAt, id)
          /\ Emit([id |-> id, by |-> "dump", status |-> TRUE])
    BY <1>4 DEF DumpRow
  <2>2. pc["track"] = "dump" /\ UNCHANGED <<now, sent, tracked, cancelled, pc>>
    BY <1>4 DEF DumpRow, envVars, mapVars
  <2>3. Phase = "dumping" /\ UNCHANGED <<Phase, pc["write"] # "run">>
    BY <2>2 DEF Phase
  <2>4. CASE pc["write"] # "run"
    <3>1. Quiet  BY <1>6, <2>1, <2>2, <2>4 DEF Emit, Quiet
    <3> QED  BY <3>1, QuietStutter
  <2>5. CASE pc["write"] = "run"
    <3>1. pending = Ledger!Waiting  BY <2>5 DEF MapInv
    <3>2. pending \subseteq Nat /\ dumpAt \in Nat  BY DEF TypeOK
    <3>3. ~Ledger!Dumped(id)
      BY <2>1, <2>2, <3>2 DEF Ledger!Dumped, DumpInv, FirstFrom
    <3>4. \A o \in Ledger!Waiting : o < id => Ledger!Dumped(o)
      <4> SUFFICES ASSUME NEW o \in pending, o < id  PROVE Ledger!Dumped(o)
        BY <3>1
      <4>1. o < dumpAt  BY <2>1, <3>2 DEF FirstFrom
      <4> QED
        BY <4>1, <2>2, <2>5 DEF DumpedInv, Reports, Ledger!Dumped
    <3>5. Ledger!Put([id |-> id, by |-> "dump", status |-> TRUE])
      BY <2>1, <2>5 DEF Emit, Ledger!Put
    <3>6. Ledger!Dump(id)
      BY <1>6, <2>2, <2>3, <2>5, <3>1, <3>3, <3>4, <3>5 DEF Ledger!Dump
    <3> QED  BY <3>1, <3>6 DEF Ledger!Next
  <2> QED  BY <2>4, <2>5
<1>5. CASE DumpEnd
  <2>1. /\ pc["track"] = "dump" /\ pc'["track"] = "done"
        /\ pc'["write"] = pc["write"] /\ \A id \in pending : id < dumpAt
        /\ UNCHANGED <<now, sent, tracked, rows, cancelled>>
    BY <1>5 DEF DumpEnd, Goto, envVars, mapVars, TypeOK, Tasks
  <2>2. Phase = "dumping" /\ Phase' = "over" /\ UNCHANGED (pc["write"] # "run")
    BY <2>1 DEF Phase
  <2>3. pc["write"] # "run" \/ \A id \in Ledger!Waiting : Ledger!Dumped(id)
    BY <2>1 DEF MapInv, DumpedInv, Reports, Ledger!Dumped
  <2>4. Ledger!EndDump  BY <1>6, <2>1, <2>2, <2>3 DEF Ledger!EndDump
  <2> QED  BY <2>4 DEF Ledger!Next
<1> QED  BY <1>1, <1>2, <1>3, <1>4, <1>5 DEF Tracker

\* The writer breaks, or is not seen; so does a file that cannot be opened.
LEMMA WriterMaps ==
    ASSUME RInv, Writer \/ OpenFails  PROVE [Ledger!Next]_Ledger!vars
<1> USE DEF RInv, IInv
<1>1. CASE WriteBatch
  <2>1. Held' = Held
    BY <1>1, SameHeld DEF WriteBatch, TakeRows, envVars, mapVars
  <2>2. Quiet  BY <1>1, <2>1 DEF WriteBatch, TakeRows, Quiet, envVars, mapVars
  <2> QED  BY <2>2, QuietStutter
<1>2. CASE WriteFail \/ WriteStop
  <2>1. /\ pc'["write"] = "done" /\ pc'["track"] = pc["track"]
        /\ UNCHANGED <<now, sent, tracked, rows, cancelled>>
    BY <1>2 DEF WriteFail, WriteStop, TakeRows, Goto, envVars, mapVars, TypeOK,
                Tasks
  <2>2. Phase' = Phase /\ (pc["write"] # "run")' = TRUE /\ Held' = {}
    BY <2>1 DEF Phase, Held
  <2>3. Ledger!Break  BY <2>1, <2>2 DEF Ledger!Break
  <2> QED  BY <2>3 DEF Ledger!Next
<1>3. CASE OpenFails
  <2>1. /\ pc'["write"] = "done" /\ pc'["track"] = "done" /\ tracked = 0
        /\ UNCHANGED <<now, sent, tracked, rows, cancelled>>
    BY <1>3 DEF OpenFails, envVars, mapVars, Tasks
  <2>2. Phase' = "over" /\ (pc["write"] # "run")' = TRUE /\ Held' = {}
    BY <2>1 DEF Phase, Held
  <2>3. Ledger!Break  BY <2>1, <2>2 DEF Ledger!Break
  <2> QED  BY <2>3 DEF Ledger!Next
<1> QED  BY <1>1, <1>2, <1>3 DEF Writer

\* Every step of the four tasks, and of what surrounds them, is a step of the
\* ledger or none (csv_writer.rs, run_csv_writer).
THEOREM ImplementsReporting == Spec => ReportingSpec
<1>1. Init => Ledger!Init
  <2> SUFFICES ASSUME Init  PROVE Ledger!Init
    OBVIOUS
  <2>1. pc["track"] = "run" /\ pc["write"] = "run"  BY DEF Init, Tasks
  <2>2. Phase = "filing" /\ Held = {}  BY <2>1 DEF Init, Phase, Held, Tasks
  <2> QED  BY <2>1, <2>2 DEF Init, Ledger!Init
<1>2. Init => MapInv /\ FlushNowInv
  BY DEF Init, MapInv, FlushNowInv, Ledger!Waiting
<1>3. RInv /\ [Next]_vars => (MapInv /\ FlushNowInv)'
  BY MapStep, FlushNowStep DEF RInv, IInv
<1>4. RInv /\ [Next]_vars => [Ledger!Next]_Ledger!vars
  <2> SUFFICES ASSUME RInv, [Next]_vars  PROVE [Ledger!Next]_Ledger!vars
    OBVIOUS
  <2>1. CASE Finished \/ UNCHANGED vars
    <3>1. Held' = Held
      BY <2>1, SameHeld DEF Finished, vars, envVars, mapVars, RInv, IInv
    <3>2. Quiet  BY <2>1, <3>1 DEF Finished, vars, Quiet, envVars, mapVars
    <3> QED  BY <3>2, QuietStutter
  <2> QED
    BY <2>1, EnvironmentMaps, BlockMaps, FlusherMaps, TrackerMaps, WriterMaps
    DEF Next
<1> QED
  BY <1>1, <1>2, <1>3, <1>4, Invariance, PTL
  DEF Spec, RInv, ReportingSpec, Ledger!Spec
=============================================================================
