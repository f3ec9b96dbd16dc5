----------------------------- MODULE QuotaProofs -----------------------------
(* The bound on what the uploads of a note store together: a sum over the  *)
(* rows of the note and the uploads that have passed their check of the    *)
(* total, which the pool of connections limits.                            *)
EXTENDS AttachmentsProofs, SumLemmas

Sizes == [r \in Requests |-> SizeOf(r)]

(* The sum that get_total_attachments_size asks for is a Total.            *)
LEMMA BytesAreTotal ==
    ASSUME NEW S \in SUBSET Requests, IsFiniteSet(S)
    PROVE  BytesOf(S) = Total(Sizes, S)
<1> DEFINE Summed(g) ==
             g = [s \in SUBSET S |-> IF s = {} THEN 0 ELSE SizeOf(Pick(s)) + g[s \ {Pick(s)}]]
<1>1. ASSUME NEW g PROVE Summed(g) <=> IsSum(g, Sizes, S)
  <2>1. \A s \in SUBSET S : s # {} => SizeOf(Pick(s)) = Sizes[Pick(s)]
    BY PickIn DEF Sizes
  <2>2. [s \in SUBSET S |-> IF s = {} THEN 0 ELSE SizeOf(Pick(s)) + g[s \ {Pick(s)}]]
          = [s \in SUBSET S |-> IF s = {} THEN 0 ELSE Sizes[Pick(s)] + g[s \ {Pick(s)}]]
    BY <2>1
  <2> QED BY <2>2 DEF IsSum
<1> DEFINE iter == CHOOSE g : Summed(g)
<1>2. Summed(iter)
  BY <1>1, SumExists
<1>3. BytesOf(S) = iter[S]
  BY DEF BytesOf, MapThenSumSet, MapThenFoldSet, Pick
<1>4. iter[S] = Total(Sizes, S)
  <2> HIDE DEF iter, Summed
  <2>1. IsSum(iter, Sizes, S)
    BY <1>1, <1>2
  <2> QED BY <2>1, TotalIs
<1> QED BY <1>3, <1>4

LEMMA ProductGrows == \A i, j, m \in Nat : i =< j => i * m =< j * m
<1> SUFFICES ASSUME NEW i \in Nat, NEW j \in Nat, NEW m \in Nat, i =< j
             PROVE  i * m =< j * m
  OBVIOUS
<1>1. PICK d \in Nat : j = i + d
  <2>1. j - i \in Nat /\ j = i + (j - i)
    OBVIOUS
  <2> QED BY <2>1
<1>2. (i + d) * m = i * m + d * m /\ i * m \in Nat /\ d * m \in Nat
  OBVIOUS
<1> QED BY <1>1, <1>2

-----------------------------------------------------------------------------
Holders == {r \in Requests : pc[r] \in Holding}

(* No more connections are out than the pool has.                          *)
PoolKept == IsFiniteSet(Holders) /\ Cardinality(Holders) =< PoolLimit

(* Uploads whose check of the total is behind them and whose row is not    *)
(* written; with the rows, they are what the note's total may come to.     *)
Pending(n) == {r \in Requests : pc[r] \in {"put", "insert"} /\ NoteOf(r) = n}
Taken(n)   == RowsOf(n) \cup Pending(n)

(* A file that has passed the check of its size fits it for good.          *)
UploadsFit ==
    \A r \in Requests :
        pc[r] \in {"quota", "put", "insert"} \/ r \in attachments =>
            call[r] \in UploadCall /\ SizeOf(r) =< MaxFile

(* What a note stores, and what is on its way to it, stays within bounds.  *)
TakenBounded ==
    \A n \in Notes : Total(Sizes, Taken(n)) =< MaxTotal + (PoolLimit - 1) * MaxFile

QuotaInv == /\ IsFiniteSet(attachments)
            /\ PoolKept
            /\ UploadsFit
            /\ TakenBounded

LEMMA SizesNat ==
    ASSUME UploadsFit
    PROVE  \A r \in Requests :
              pc[r] \in {"quota", "put", "insert"} \/ r \in attachments =>
                  Sizes[r] \in Nat /\ Sizes[r] =< MaxFile
  BY AttachmentsAssumption DEF UploadsFit, Sizes, SizeOf, UploadCall

LEMMA TakenFinite ==
    ASSUME TypeOK, IsFiniteSet(attachments), PoolKept, NEW n
    PROVE  /\ IsFiniteSet(RowsOf(n)) /\ RowsOf(n) \in SUBSET Requests
           /\ IsFiniteSet(Pending(n)) /\ Pending(n) \in SUBSET Requests
           /\ IsFiniteSet(Taken(n)) /\ Taken(n) \in SUBSET Requests
<1>1. RowsOf(n) \in SUBSET attachments /\ Pending(n) \in SUBSET Holders
  BY DEF RowsOf, Pending, Holders, Holding
<1>2. IsFiniteSet(RowsOf(n)) /\ IsFiniteSet(Pending(n))
  BY <1>1, FS_Subset DEF PoolKept
<1>3. IsFiniteSet(Taken(n))
  BY <1>2, FS_Union DEF Taken
<1> QED BY <1>1, <1>2, <1>3 DEF Taken, TypeOK, Holders

-----------------------------------------------------------------------------
Moved(r) == Arrive(r) \/ Step(r) \/ Fault(r)

(* What a request may do to what the bound depends on: connections, the    *)
(* stages between the check and the row, and the rows.                     *)
QuotaMove(r) ==
    /\ \A q \in Requests \ {r} : pc'[q] = pc[q] /\ call'[q] = call[q]
    /\ pc[r] # "idle" => call'[r] = call[r]
    /\ pc[r] = "idle" => pc'[r] = "note"
    /\ pc'[r] \in Holding => pc[r] \in Holding \/ ConnectionFree(Holding)
    /\ pc'[r] \in {"put", "insert"} =>
          pc[r] \in {"put", "insert"} \/ AcceptQuota(r)
    /\ pc'[r] = "quota" => AcceptFile(r)
    /\ \/ attachments' \subseteq attachments
       \/ pc[r] = "insert" /\ attachments' = attachments \cup {r}

LEMMA QuotaMoves ==
    ASSUME TypeInv, NEW r \in Requests, Moved(r)
    PROVE  QuotaMove(r)
<1> USE DEF QuotaMove, TypeInv, TypeOK, At, stores, Goto, Respond, Holding
<1>1. CASE Arrive(r)
  BY <1>1 DEF Arrive, Enter
<1>2. CASE NoteFound(r)
  <2>1. NextStage[call[r].op] \in {"file", "row", "drop_note"}
    BY <1>2, CallOps DEF NoteFound, CallsMade
  <2> QED BY <1>2, <2>1 DEF NoteFound
<1>3. CASE NoteNotFound(r) \/ DropNote(r)
  BY <1>3 DEF NoteNotFound, DropNote, DropNoteWrite
<1>4. CASE RejectFile(r) \/ AcceptFile(r) \/ RejectQuota(r) \/ AcceptQuota(r)
  BY <1>4 DEF RejectFile, AcceptFile, RejectQuota, AcceptQuota
<1>5. CASE PutObject(r) \/ InsertRow(r) \/ InsertRejected(r)
  BY <1>5 DEF PutObject, PutWrite, InsertRow, InsertWrite, InsertRejected
<1>6. CASE RefreshRow(r) \/ RefreshMissing(r) \/ UndoPut(r)
  BY <1>6 DEF RefreshRow, RefreshMissing, UndoPut, UndoWrite, Undoing
<1>7. CASE Access(r)
  BY <1>7 DEF Access, RowNotFound, RowFound, DropRow, DropWrite, RemoveObject,
     RemoveWrite, StreamObject, StreamMissing
<1>8. CASE Fault(r)
  <2> USE DEF PutWrite, InsertWrite, UndoWrite, Undoing, DropWrite, RemoveWrite,
          DropNoteWrite, Write
  <2>1. CASE StorageFails(r) \/ QueryFails(r)
    BY <2>1 DEF StorageFails, QueryFails
  <2>2. CASE CommitFails(r) \/ FailsAfterCommit(r) \/ RefreshTimesOut(r)
    BY <2>2 DEF CommitFails, FailsAfterCommit, RefreshTimesOut
  <2>3. CASE Vanish(r)
    BY <2>3 DEF Vanish, InFlight
  <2> QED BY <1>8, <2>1, <2>2, <2>3 DEF Fault
<1> QED BY <1>1, <1>2, <1>3, <1>4, <1>5, <1>6, <1>7, <1>8 DEF Moved, Step, Upload

(* A connection is taken only when one is free.                            *)
LEMMA PoolStep ==
    ASSUME TypeInv, PoolKept, NEW r \in Requests, QuotaMove(r)
    PROVE  PoolKept'
<1>1. Holders' \subseteq Holders \cup {r}
  BY DEF QuotaMove, Holders
<1>2. Cardinality(Holders) < PoolLimit \/ Holders' \subseteq Holders
  BY DEF QuotaMove, Holders, ConnectionFree
<1>3. IsFiniteSet(Holders') /\ Cardinality(Holders') =< PoolLimit
  BY <1>1, <1>2, PoolAssumption, LimitKept DEF PoolKept
<1> QED BY <1>3 DEF PoolKept

LEMMA FitsStep ==
    ASSUME TypeInv, StageOfCall, RowsInserted, UploadsFit,
           NEW r \in Requests, QuotaMove(r)
    PROVE  UploadsFit'
<1> SUFFICES ASSUME NEW q \in Requests,
                    pc'[q] \in {"quota", "put", "insert"} \/ q \in attachments'
             PROVE  call'[q] \in UploadCall /\ call'[q].file.size =< MaxFile
  BY DEF UploadsFit, SizeOf
<1>1. ASSUME call'[q] = call[q],
             pc[q] \in {"quota", "put", "insert"} \/ q \in attachments
      PROVE  call'[q] \in UploadCall /\ call'[q].file.size =< MaxFile
  BY <1>1 DEF UploadsFit, SizeOf
<1>2. CASE q # r
  BY <1>1, <1>2 DEF QuotaMove
<1>3. CASE q = r /\ AcceptFile(r)
  <2>1. pc[r] = "file" /\ call'[r] = call[r]
    BY <1>3 DEF AcceptFile, At, Goto
  <2>2. call[r] \in UploadCall
    BY <2>1, CallOps DEF TypeInv, CallsMade, StageOfCall, Calls, UploadCall,
       AttachmentCall, NoteCall
  <2> QED BY <1>3, <2>1, <2>2 DEF AcceptFile
<1>4. CASE q = r /\ ~AcceptFile(r)
  <2>1. pc[r] \in {"quota", "put", "insert"} \/ r \in attachments
    BY <1>4 DEF QuotaMove, AcceptQuota, At
  <2>2. pc[r] # "idle"
    BY <2>1 DEF RowsInserted, Inserted
  <2> QED BY <1>1, <1>4, <2>1, <2>2 DEF QuotaMove
<1> QED BY <1>2, <1>3, <1>4

(* Apart from the check itself, nothing adds to what a note may come to.   *)
LEMMA TakenShrinks ==
    ASSUME TypeInv, RowsInserted, NEW r \in Requests, QuotaMove(r), NEW n
    PROVE  /\ Taken(n)' \subseteq Taken(n) \cup {r}
           /\ \A q \in Taken(n)' : call'[q] = call[q]
           /\ r \in Taken(n)' => r \in Taken(n) \/ (AcceptQuota(r) /\ NoteOf(r) = n)
<1> USE DEF Taken, RowsOf, Pending, NoteOf, QuotaMove, RowsInserted, Inserted
<1>1. \A q \in Requests : q \in attachments => pc[q] # "idle"
  BY DEF TypeInv, TypeOK
<1>2. \A q \in Taken(n)' : q \in Requests /\ call'[q] = call[q]
  BY <1>1 DEF TypeInv, TypeOK
<1>3. Taken(n)' \subseteq Taken(n) \cup {r}
  BY <1>2
<1>4. r \in Taken(n)' => r \in Taken(n) \/ (AcceptQuota(r) /\ NoteOf(r) = n)
  BY <1>2
<1> QED BY <1>2, <1>3, <1>4

(* Who passes the check adds one file to at most PoolLimit - 1 others that *)
(* have passed it: each of them holds a connection, as the checker does.   *)
LEMMA CheckBounds ==
    ASSUME TypeInv, StoreInv, IsFiniteSet(attachments), PoolKept, UploadsFit,
           NEW r \in Requests, AcceptQuota(r)
    PROVE  LET n == NoteOf(r)
           IN  Total(Sizes, Taken(n) \cup {r})
                  =< MaxTotal + (PoolLimit - 1) * MaxFile
<1> DEFINE n == NoteOf(r)
           A == RowsOf(n) \cup {r}
           B == Pending(n)
<1>1. pc[r] = "quota" /\ FitsQuota(r)
  BY DEF AcceptQuota, At
<1>2. r \notin attachments /\ r \notin B
  BY <1>1 DEF StoreInv, RowsInserted, Inserted, Pending
<1>3. /\ IsFiniteSet(RowsOf(n)) /\ RowsOf(n) \in SUBSET Requests
      /\ IsFiniteSet(B) /\ B \in SUBSET Requests
  BY TakenFinite DEF TypeInv
<1>4. IsFiniteSet(A)
  BY <1>3, FS_AddElement
<1>5. \A x \in A \cup B : Sizes[x] \in Nat /\ Sizes[x] =< MaxFile
  BY <1>1, <1>3, SizesNat DEF RowsOf, Pending
<1>6. Total(Sizes, A) =< MaxTotal
  <2>1. Total(Sizes, A) = Sizes[r] + Total(Sizes, A \ {r})
    BY <1>4, <1>5, TotalSplit
  <2>2. A \ {r} = RowsOf(n)
    BY <1>2 DEF RowsOf
  <2>3. UsedBytes(n) = Total(Sizes, RowsOf(n))
    BY <1>3, BytesAreTotal DEF UsedBytes
  <2>4. Sizes[r] = call[r].file.size
    BY DEF Sizes, SizeOf
  <2>5. Total(Sizes, RowsOf(n)) + Sizes[r] =< MaxTotal
    BY <1>1, <2>3, <2>4 DEF FitsQuota, NoteOf
  <2>6. Total(Sizes, RowsOf(n)) \in Nat /\ Sizes[r] \in Nat
    BY <1>3, <1>5, TotalNat
  <2>7. \A i, j \in Nat : i + j = j + i
    OBVIOUS
  <2> QED BY ONLY <2>1, <2>2, <2>5, <2>6, <2>7
<1>7. Cardinality(B) \in Nat /\ Cardinality(B) + 1 =< PoolLimit
  <2>1. IsFiniteSet(B \cup {r}) /\ Cardinality(B \cup {r}) = Cardinality(B) + 1
    BY <1>2, <1>3, FS_AddElement
  <2>2. B \cup {r} \in SUBSET Holders
    BY <1>1 DEF Pending, Holders, Holding
  <2>3. Cardinality(B \cup {r}) =< Cardinality(Holders)
    BY <2>2, FS_Subset DEF PoolKept
  <2>4. Cardinality(B) \in Nat /\ Cardinality(Holders) \in Nat
    BY <1>3, FS_CardinalityType DEF PoolKept
  <2> QED BY <2>1, <2>3, <2>4, PoolAssumption DEF PoolKept
<1>8. Cardinality(B) * MaxFile =< (PoolLimit - 1) * MaxFile
  BY <1>7, ProductGrows, PoolAssumption, AttachmentsAssumption
<1>9. Total(Sizes, A \cup B) =< Total(Sizes, A) + Cardinality(B) * MaxFile
  BY <1>3, <1>4, <1>5, TotalAdds, AttachmentsAssumption
<1>10. A \cup B = Taken(n) \cup {r}
  BY DEF Taken
<1>11. IsFiniteSet(A \cup B) /\ Total(Sizes, A \cup B) \in Nat /\ Total(Sizes, A) \in Nat
  BY <1>3, <1>4, <1>5, FS_Union, TotalNat
<1>12. Cardinality(B) * MaxFile \in Nat /\ (PoolLimit - 1) * MaxFile \in Nat
  BY <1>7, PoolAssumption, AttachmentsAssumption
<1>13. \A i, j, k, l, m \in Nat : i =< j + k /\ j =< l /\ k =< m => i =< l + m
  OBVIOUS
<1>14. MaxTotal \in Nat
  BY AttachmentsAssumption
<1>15. Total(Sizes, A \cup B) =< MaxTotal + (PoolLimit - 1) * MaxFile
  BY ONLY <1>6, <1>8, <1>9, <1>11, <1>12, <1>13, <1>14
<1> QED BY <1>10, <1>15

LEMMA TakenStep ==
    ASSUME TypeInv, StoreInv, IsFiniteSet(attachments), PoolKept, UploadsFit,
           TakenBounded, NEW r \in Requests, QuotaMove(r)
    PROVE  TakenBounded'
<1> SUFFICES ASSUME NEW n \in Notes
             PROVE  Total(Sizes', Taken(n)') =< MaxTotal + (PoolLimit - 1) * MaxFile
  BY DEF TakenBounded
<1> DEFINE Limit == MaxTotal + (PoolLimit - 1) * MaxFile
<1>1. /\ Taken(n)' \subseteq Taken(n) \cup {r}
      /\ \A q \in Taken(n)' : call'[q] = call[q]
      /\ r \in Taken(n)' => r \in Taken(n) \/ (AcceptQuota(r) /\ NoteOf(r) = n)
  BY TakenShrinks DEF StoreInv
<1>2. IsFiniteSet(Taken(n)) /\ Taken(n) \in SUBSET Requests
  BY TakenFinite DEF TypeInv
<1>3. Limit \in Nat
  <2>1. (PoolLimit - 1) * MaxFile \in Nat
    BY PoolAssumption, AttachmentsAssumption
  <2> QED BY <2>1, AttachmentsAssumption
<1>4. \A q \in Taken(n) : Sizes[q] \in Nat
  BY <1>2, SizesNat DEF Taken, RowsOf, Pending
<1>5. ASSUME NEW S \in SUBSET Requests, IsFiniteSet(S), Taken(n)' \subseteq S,
             \A q \in S : Sizes[q] \in Nat, Total(Sizes, S) =< Limit
      PROVE  Total(Sizes', Taken(n)') =< Limit
  <2>1. IsFiniteSet(Taken(n)')
    BY <1>5, FS_Subset
  <2>2. Total(Sizes', Taken(n)') = Total(Sizes, Taken(n)')
    <3>1. \A q \in Taken(n)' : Sizes'[q] = Sizes[q]
      BY <1>1, <1>5 DEF Sizes, SizeOf
    <3> QED BY <2>1, <3>1, TotalSame
  <2>3. Total(Sizes, Taken(n)') =< Total(Sizes, S)
    BY <1>5, TotalGrows
  <2>4. Total(Sizes, Taken(n)') \in Nat /\ Total(Sizes, S) \in Nat
    BY <1>5, <2>1, TotalNat
  <2> HIDE DEF Limit
  <2> QED BY <1>3, <1>5, <2>2, <2>3, <2>4
<1>6. CASE Taken(n)' \subseteq Taken(n)
  <2>1. Total(Sizes, Taken(n)) =< Limit
    BY DEF TakenBounded
  <2> HIDE DEF Limit
  <2>2. Total(Sizes', Taken(n)') =< Limit
    BY <1>2, <1>4, <1>5, <1>6, <2>1
  <2> QED BY <2>2 DEF Limit
<1>7. CASE AcceptQuota(r) /\ NoteOf(r) = n
  <2>1. Total(Sizes, Taken(n) \cup {r}) =< Limit
    BY <1>7, CheckBounds
  <2>2. IsFiniteSet(Taken(n) \cup {r}) /\ Taken(n) \cup {r} \in SUBSET Requests
    BY <1>2, FS_AddElement
  <2>3. Sizes[r] \in Nat
    BY <1>7, SizesNat DEF AcceptQuota, At
  <2> HIDE DEF Limit
  <2>4. Total(Sizes', Taken(n)') =< Limit
    BY <1>1, <1>4, <1>5, <2>1, <2>2, <2>3
  <2> QED BY <2>4 DEF Limit
<1> QED BY <1>1, <1>6, <1>7

LEMMA QuotaInit == Init => QuotaInv
<1> SUFFICES ASSUME Init PROVE QuotaInv
  OBVIOUS
<1> USE DEF Init, SessionsInit
<1>1. Holders = {} /\ attachments = {}
  BY DEF Holders, Holding
<1>2. PoolKept
  <2>1. IsFiniteSet(Holders) /\ Cardinality(Holders) = 0
    BY <1>1, FS_EmptySet
  <2> QED BY <2>1, PoolAssumption DEF PoolKept
<1>3. UploadsFit
  BY DEF UploadsFit
<1>4. TakenBounded
  <2>1. ASSUME NEW n \in Notes
        PROVE  Total(Sizes, Taken(n)) =< MaxTotal + (PoolLimit - 1) * MaxFile
    <3>1. Taken(n) = {}
      BY DEF Taken, RowsOf, Pending
    <3>2. Total(Sizes, Taken(n)) = 0
      BY <3>1, FS_EmptySet, TotalPick
    <3>3. (PoolLimit - 1) * MaxFile \in Nat
      BY PoolAssumption, AttachmentsAssumption
    <3> QED BY <3>2, <3>3, AttachmentsAssumption
  <2> QED BY <2>1 DEF TakenBounded
<1> QED BY <1>1, <1>2, <1>3, <1>4, FS_EmptySet DEF QuotaInv

LEMMA QuotaStep ==
    StoreInv /\ AccessInv /\ QuotaInv /\ [Next]_vars => QuotaInv'
<1> SUFFICES ASSUME StoreInv, AccessInv, QuotaInv, [Next]_vars PROVE QuotaInv'
  OBVIOUS
<1>1. CASE UNCHANGED vars
  BY <1>1 DEF vars, QuotaInv, PoolKept, Holders, UploadsFit, SizeOf, TakenBounded,
     Taken, RowsOf, Pending, NoteOf, Sizes
<1>2. ASSUME NEW r \in Requests, Moved(r) PROVE QuotaInv'
  <2>1. QuotaMove(r)
    BY <1>2, QuotaMoves DEF StoreInv
  <2>2. IsFiniteSet(attachments')
    <3>1. attachments' \subseteq attachments \cup {r}
      BY <2>1 DEF QuotaMove
    <3>2. IsFiniteSet(attachments \cup {r})
      BY FS_AddElement DEF QuotaInv
    <3> QED BY <3>1, <3>2, FS_Subset
  <2>3. PoolKept'
    BY <2>1, PoolStep DEF StoreInv, QuotaInv
  <2>4. UploadsFit'
    BY <2>1, FitsStep DEF StoreInv, AccessInv, QuotaInv
  <2>5. TakenBounded'
    BY <2>1, TakenStep DEF StoreInv, QuotaInv
  <2> QED BY <2>2, <2>3, <2>4, <2>5 DEF QuotaInv
<1> QED BY <1>1, <1>2 DEF Next, Moved

(* Whatever fails, a note exceeds its limit by at most PoolLimit - 1 files *)
(* of the largest size: the check of the total and the insert are two      *)
(* statements, but who is between them holds a connection.                 *)
THEOREM OvershootIsBounded == Spec => []OvershootBounded
<1>1. StoreInv /\ QuotaInv => OvershootBounded
  <2> SUFFICES ASSUME StoreInv, QuotaInv, NEW n \in Notes
               PROVE  UsedBytes(n) =< MaxTotal + (PoolLimit - 1) * MaxFile
    BY DEF OvershootBounded
  <2> DEFINE Limit == MaxTotal + (PoolLimit - 1) * MaxFile
  <2>1. /\ IsFiniteSet(RowsOf(n)) /\ RowsOf(n) \in SUBSET Requests
        /\ IsFiniteSet(Taken(n)) /\ Taken(n) \in SUBSET Requests
    BY TakenFinite DEF StoreInv, TypeInv, QuotaInv
  <2>2. UsedBytes(n) = Total(Sizes, RowsOf(n))
    BY <2>1, BytesAreTotal DEF UsedBytes
  <2>3. \A q \in Taken(n) : Sizes[q] \in Nat
    BY <2>1, SizesNat DEF Taken, RowsOf, Pending, QuotaInv
  <2>4. RowsOf(n) \in SUBSET Taken(n)
    BY DEF Taken
  <2>5. Total(Sizes, RowsOf(n)) =< Total(Sizes, Taken(n))
    BY <2>1, <2>3, <2>4, TotalGrows
  <2>6. Total(Sizes, RowsOf(n)) \in Nat /\ Total(Sizes, Taken(n)) \in Nat
    BY <2>1, <2>3, <2>4, TotalNat
  <2>7. Total(Sizes, Taken(n)) =< Limit
    BY DEF QuotaInv, TakenBounded
  <2>8. Limit \in Nat
    <3>1. (PoolLimit - 1) * MaxFile \in Nat
      BY PoolAssumption, AttachmentsAssumption
    <3> QED BY <3>1, AttachmentsAssumption
  <2> HIDE DEF Limit
  <2>9. UsedBytes(n) =< Limit
    BY <2>2, <2>5, <2>6, <2>7, <2>8
  <2> QED BY <2>9 DEF Limit
<1> QED BY StoreInit, StoreStep, AccessInit, AccessStep, QuotaInit, QuotaStep, <1>1,
        PTL DEF Spec
=============================================================================
