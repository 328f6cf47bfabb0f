------------------------- MODULE ShareLifecycleProofs -------------------------
(***************************************************************************)
(* The safety of ShareLifecycle for any files, batches, limits, requests   *)
(* and faults: the parts of IInv are preserved one after the other, the    *)
(* properties follow from IInv, and every step of the detailed system is a *)
(* step of ShareLink or leaves it alone.                                   *)
(***************************************************************************)
EXTENDS ShareLifecycle, FiniteSetTheorems, TLAPS

(* What a download asks for is a share. *)
LEMMA LinkType ==
  \A d \in Readers : LinkWanted(d) \in Shares /\ Shares \subseteq Things
BY ShareAssumption DEF LinkWanted, LinkOf, Shares, Singles, Things

(* Every step keeps every variable in its type. *)
LEMMA TypeStep ==
  TypeOK /\ [Next]_vars => TypeOK'
<1> SUFFICES ASSUME TypeOK, [Next]_vars PROVE TypeOK'
  OBVIOUS
<1> USE DEF TypeOK, Rows, UploadPhases, ReadPhases, SweepPhases, May, links, reading,
     sweeping
<1>1. ASSUME NEW b \in Batches, CreateBatch(b) PROVE TypeOK'
  BY <1>1, ShareAssumption, LinkType DEF CreateBatch, SetRows, Things
<1>2. ASSUME NEW f \in Files, Begin(f) PROVE TypeOK'
  BY <1>2, ShareAssumption, LinkType DEF Begin, BatchOpen
<1>3. ASSUME NEW f \in Files, WriteBlob(f) PROVE TypeOK'
  BY <1>3, ShareAssumption, LinkType DEF WriteBlob
<1>4. ASSUME NEW f \in Files, Insert(f) PROVE TypeOK'
  BY <1>4, ShareAssumption, LinkType DEF Insert, SetRows, Things, Insertable
<1>5. ASSUME NEW f \in Files, InsertFails(f) PROVE TypeOK'
  BY <1>5, ShareAssumption, LinkType DEF InsertFails, Insertable
<1>6. ASSUME NEW f \in Files, RemoveOwn(f) PROVE TypeOK'
  BY <1>6, ShareAssumption, LinkType DEF RemoveOwn
<1>7. ASSUME NEW d \in Readers, Load(d) PROVE TypeOK'
  BY <1>7, ShareAssumption, LinkType DEF Load, Things, Procs, Singles
<1>8. ASSUME NEW d \in Readers, FindMember(d) PROVE TypeOK'
  BY <1>8, ShareAssumption, LinkType DEF FindMember
<1>9. ASSUME NEW d \in Readers, Consume(d) PROVE TypeOK'
  BY <1>9, ShareAssumption, LinkType DEF Consume, Countable, Things, Procs, Singles
<1>10. ASSUME NEW d \in Readers, Open(d) PROVE TypeOK'
  BY <1>10, ShareAssumption, LinkType DEF Open, Things, Procs, Singles
<1>11. ASSUME NEW d \in Readers, Finish(d) PROVE TypeOK'
  BY <1>11, ShareAssumption, LinkType DEF Finish
<1>12. ASSUME NEW d \in Readers, Archive(d) PROVE TypeOK'
  BY <1>12, ShareAssumption, LinkType DEF Archive, SetRows, Things, Procs, Singles
<1>13. ASSUME NEW d \in Readers, ArchiveMembers(d) PROVE TypeOK'
  BY <1>13, ShareAssumption, LinkType DEF ArchiveMembers, SetRows, Things, LiveMembers,
       Members, Procs, Singles
<1>14. ASSUME NEW d \in Readers, EndRead(d) PROVE TypeOK'
  BY <1>14, ShareAssumption, LinkType DEF EndRead
<1>15. ASSUME NEW o \in Owners, NEW S \in SUBSET Files, Delete(o, S) PROVE TypeOK'
  BY <1>15, ShareAssumption, LinkType DEF Delete, SetRows, Things, Stored, Procs, Singles
<1>16. ASSUME NEW p \in Procs, NEW f \in Files, Unlink(p, f) PROVE TypeOK'
  BY <1>16, ShareAssumption, LinkType DEF Unlink
<1>17. ASSUME SweepFiles PROVE TypeOK'
  BY <1>17, ShareAssumption, LinkType DEF SweepFiles, SetRows, Things, Sweeping
<1>18. ASSUME PurgeFiles PROVE TypeOK'
  BY <1>18, ShareAssumption, LinkType DEF PurgeFiles, SetRows, Things, Sweeping, Collect
<1>19. ASSUME SweepBatches PROVE TypeOK'
  BY <1>19, ShareAssumption, LinkType DEF SweepBatches, SetRows, Things, Sweeping
<1>20. ASSUME NEW b \in Batches, SweepMembers(b) PROVE TypeOK'
  BY <1>20, ShareAssumption, LinkType DEF SweepMembers, SetRows, Things, Sweeping,
       Collect, LiveMembers, Members
<1>21. ASSUME PurgeBatches PROVE TypeOK'
  BY <1>21, ShareAssumption, LinkType DEF PurgeBatches, SetRows, Things, Sweeping, Stored
<1>22. ASSUME SweepFails PROVE TypeOK'
  BY <1>22, ShareAssumption, LinkType DEF SweepFails
<1>23. ASSUME NEW t \in Things, Expire(t) PROVE TypeOK'
  BY <1>23, ShareAssumption, LinkType DEF Expire, Things, Procs, Singles
<1>24. ASSUME NEW t \in Things, Age(t) PROVE TypeOK'
  BY <1>24, ShareAssumption, LinkType DEF Age
<1>25. ASSUME Crash PROVE TypeOK'
  BY <1>25, ShareAssumption, LinkType DEF Crash
<1>26. ASSUME UNCHANGED vars PROVE TypeOK'
  BY <1>26 DEF vars
<1> QED
  BY <1>1, <1>2, <1>3, <1>4, <1>5, <1>6, <1>7, <1>8, <1>9, <1>10, <1>11, <1>12, <1>13,
     <1>14, <1>15, <1>16, <1>17, <1>18, <1>19, <1>20, <1>21, <1>22, <1>23, <1>24, <1>25, <1>26
     DEF Next, Upload, Download, Sweep

(* A row appears only when its upload inserts it. *)
LEMMA RowStep ==
  TypeOK /\ RowInv /\ [Next]_vars => RowInv'
<1> SUFFICES ASSUME TypeOK, RowInv, [Next]_vars PROVE RowInv'
  OBVIOUS
<1> USE DEF TypeOK, RowInv, UploadPhases, Things, links, reading, sweeping
<1>1. ASSUME NEW b \in Batches, CreateBatch(b) PROVE RowInv'
  BY <1>1, ShareAssumption DEF CreateBatch, SetRows, Things
<1>2. ASSUME NEW f \in Files, Begin(f) PROVE RowInv'
  BY <1>2, ShareAssumption DEF Begin, BatchOpen
<1>3. ASSUME NEW f \in Files, WriteBlob(f) PROVE RowInv'
  BY <1>3, ShareAssumption DEF WriteBlob
<1>4. ASSUME NEW f \in Files, Insert(f) PROVE RowInv'
  BY <1>4, ShareAssumption DEF Insert, SetRows, Things, Insertable
<1>5. ASSUME NEW f \in Files, InsertFails(f) PROVE RowInv'
  BY <1>5, ShareAssumption DEF InsertFails, Insertable
<1>6. ASSUME NEW f \in Files, RemoveOwn(f) PROVE RowInv'
  BY <1>6, ShareAssumption DEF RemoveOwn
<1>7. ASSUME NEW d \in Readers, Load(d) PROVE RowInv'
  BY <1>7, ShareAssumption DEF Load
<1>8. ASSUME NEW d \in Readers, FindMember(d) PROVE RowInv'
  BY <1>8, ShareAssumption DEF FindMember
<1>9. ASSUME NEW d \in Readers, Consume(d) PROVE RowInv'
  BY <1>9, ShareAssumption DEF Consume, Countable
<1>10. ASSUME NEW d \in Readers, Open(d) PROVE RowInv'
  BY <1>10, ShareAssumption DEF Open
<1>11. ASSUME NEW d \in Readers, Finish(d) PROVE RowInv'
  BY <1>11, ShareAssumption DEF Finish
<1>12. ASSUME NEW d \in Readers, Archive(d) PROVE RowInv'
  BY <1>12, ShareAssumption DEF Archive, SetRows, Things
<1>13. ASSUME NEW d \in Readers, ArchiveMembers(d) PROVE RowInv'
  BY <1>13, ShareAssumption DEF ArchiveMembers, SetRows, Things, LiveMembers, Members
<1>14. ASSUME NEW d \in Readers, EndRead(d) PROVE RowInv'
  BY <1>14, ShareAssumption DEF EndRead
<1>15. ASSUME NEW o \in Owners, NEW S \in SUBSET Files, Delete(o, S) PROVE RowInv'
  BY <1>15, ShareAssumption DEF Delete, SetRows, Things, Stored
<1>16. ASSUME NEW p \in Procs, NEW f \in Files, Unlink(p, f) PROVE RowInv'
  BY <1>16, ShareAssumption DEF Unlink
<1>17. ASSUME SweepFiles PROVE RowInv'
  BY <1>17, ShareAssumption DEF SweepFiles, SetRows, Things, Sweeping
<1>18. ASSUME PurgeFiles PROVE RowInv'
  BY <1>18, ShareAssumption DEF PurgeFiles, SetRows, Things, Sweeping, Collect
<1>19. ASSUME SweepBatches PROVE RowInv'
  BY <1>19, ShareAssumption DEF SweepBatches, SetRows, Things, Sweeping
<1>20. ASSUME NEW b \in Batches, SweepMembers(b) PROVE RowInv'
  BY <1>20, ShareAssumption DEF SweepMembers, SetRows, Things, Sweeping, Collect,
       LiveMembers, Members
<1>21. ASSUME PurgeBatches PROVE RowInv'
  BY <1>21, ShareAssumption DEF PurgeBatches, SetRows, Things, Sweeping, Stored
<1>22. ASSUME SweepFails PROVE RowInv'
  BY <1>22, ShareAssumption DEF SweepFails
<1>23. ASSUME NEW t \in Things, Expire(t) PROVE RowInv'
  BY <1>23, ShareAssumption DEF Expire
<1>24. ASSUME NEW t \in Things, Age(t) PROVE RowInv'
  BY <1>24, ShareAssumption DEF Age
<1>25. ASSUME Crash PROVE RowInv'
  BY <1>25, ShareAssumption DEF Crash
<1>26. ASSUME UNCHANGED vars PROVE RowInv'
  BY <1>26 DEF vars
<1> QED
  BY <1>1, <1>2, <1>3, <1>4, <1>5, <1>6, <1>7, <1>8, <1>9, <1>10, <1>11, <1>12, <1>13,
     <1>14, <1>15, <1>16, <1>17, <1>18, <1>19, <1>20, <1>21, <1>22, <1>23, <1>24, <1>25, <1>26
     DEF Next, Upload, Download, Sweep

(* The count loaded stays a lower bound. *)
LEMMA SlotStep ==
  TypeOK /\ RowInv /\ SlotInv /\ [Next]_vars => SlotInv'
<1> SUFFICES ASSUME TypeOK, RowInv, SlotInv, [Next]_vars PROVE SlotInv'
  OBVIOUS
<1> USE DEF TypeOK, SlotInv, ReadPhases, Rows, Things, Spent, Limited, links, reading,
     sweeping
<1>1. ASSUME NEW b \in Batches, CreateBatch(b) PROVE SlotInv'
  BY <1>1, ShareAssumption, LinkType DEF CreateBatch, SetRows, Things
<1>2. ASSUME NEW f \in Files, Begin(f) PROVE SlotInv'
  BY <1>2, ShareAssumption, LinkType DEF Begin, BatchOpen
<1>3. ASSUME NEW f \in Files, WriteBlob(f) PROVE SlotInv'
  BY <1>3, ShareAssumption, LinkType DEF WriteBlob
<1>4. ASSUME NEW f \in Files, Insert(f) PROVE SlotInv'
  BY <1>4, ShareAssumption, LinkType DEF Insert, SetRows, Things, Insertable, RowInv
<1>5. ASSUME NEW f \in Files, InsertFails(f) PROVE SlotInv'
  BY <1>5, ShareAssumption, LinkType DEF InsertFails, Insertable
<1>6. ASSUME NEW f \in Files, RemoveOwn(f) PROVE SlotInv'
  BY <1>6, ShareAssumption, LinkType DEF RemoveOwn
<1>7. ASSUME NEW d \in Readers, Load(d) PROVE SlotInv'
  BY <1>7, ShareAssumption, LinkType DEF Load
<1>8. ASSUME NEW d \in Readers, FindMember(d) PROVE SlotInv'
  BY <1>8, ShareAssumption, LinkType DEF FindMember
<1>9. ASSUME NEW d \in Readers, Consume(d) PROVE SlotInv'
  BY <1>9, ShareAssumption, LinkType DEF Consume, Countable
<1>10. ASSUME NEW d \in Readers, Open(d) PROVE SlotInv'
  BY <1>10, ShareAssumption, LinkType DEF Open
<1>11. ASSUME NEW d \in Readers, Finish(d) PROVE SlotInv'
  BY <1>11, ShareAssumption, LinkType DEF Finish
<1>12. ASSUME NEW d \in Readers, Archive(d) PROVE SlotInv'
  BY <1>12, ShareAssumption, LinkType DEF Archive, SetRows, Things
<1>13. ASSUME NEW d \in Readers, ArchiveMembers(d) PROVE SlotInv'
  BY <1>13, ShareAssumption, LinkType DEF ArchiveMembers, SetRows, Things, LiveMembers,
       Members
<1>14. ASSUME NEW d \in Readers, EndRead(d) PROVE SlotInv'
  BY <1>14, ShareAssumption, LinkType DEF EndRead
<1>15. ASSUME NEW o \in Owners, NEW S \in SUBSET Files, Delete(o, S) PROVE SlotInv'
  BY <1>15, ShareAssumption, LinkType DEF Delete, SetRows, Things, Stored
<1>16. ASSUME NEW p \in Procs, NEW f \in Files, Unlink(p, f) PROVE SlotInv'
  BY <1>16, ShareAssumption, LinkType DEF Unlink
<1>17. ASSUME SweepFiles PROVE SlotInv'
  BY <1>17, ShareAssumption, LinkType DEF SweepFiles, SetRows, Things, Sweeping
<1>18. ASSUME PurgeFiles PROVE SlotInv'
  BY <1>18, ShareAssumption, LinkType DEF PurgeFiles, SetRows, Things, Sweeping, Collect
<1>19. ASSUME SweepBatches PROVE SlotInv'
  BY <1>19, ShareAssumption, LinkType DEF SweepBatches, SetRows, Things, Sweeping
<1>20. ASSUME NEW b \in Batches, SweepMembers(b) PROVE SlotInv'
  BY <1>20, ShareAssumption, LinkType DEF SweepMembers, SetRows, Things, Sweeping,
       Collect, LiveMembers, Members
<1>21. ASSUME PurgeBatches PROVE SlotInv'
  BY <1>21, ShareAssumption, LinkType DEF PurgeBatches, SetRows, Things, Sweeping, Stored
<1>22. ASSUME SweepFails PROVE SlotInv'
  BY <1>22, ShareAssumption, LinkType DEF SweepFails
<1>23. ASSUME NEW t \in Things, Expire(t) PROVE SlotInv'
  BY <1>23, ShareAssumption, LinkType DEF Expire
<1>24. ASSUME NEW t \in Things, Age(t) PROVE SlotInv'
  BY <1>24, ShareAssumption, LinkType DEF Age
<1>25. ASSUME Crash PROVE SlotInv'
  BY <1>25, ShareAssumption, LinkType DEF Crash
<1>26. ASSUME UNCHANGED vars PROVE SlotInv'
  BY <1>26 DEF vars
<1> QED
  BY <1>1, <1>2, <1>3, <1>4, <1>5, <1>6, <1>7, <1>8, <1>9, <1>10, <1>11, <1>12, <1>13,
     <1>14, <1>15, <1>16, <1>17, <1>18, <1>19, <1>20, <1>21, <1>22, <1>23, <1>24, <1>25, <1>26
     DEF Next, Upload, Download, Sweep

(* A batch with members that have rows has one too. *)
LEMMA MemberStep ==
  TypeOK /\ RowInv /\ MemberInv /\ [Next]_vars => MemberInv'
<1> SUFFICES ASSUME TypeOK, RowInv, MemberInv, [Next]_vars PROVE MemberInv'
  OBVIOUS
<1> USE DEF TypeOK, RowInv, MemberInv, Rows, Things, Singles, UploadPhases, links,
     reading, sweeping
<1>1. ASSUME NEW b \in Batches, CreateBatch(b) PROVE MemberInv'
  BY <1>1, ShareAssumption DEF CreateBatch, SetRows, Things
<1>2. ASSUME NEW f \in Files, Begin(f) PROVE MemberInv'
  BY <1>2, ShareAssumption DEF Begin, BatchOpen
<1>3. ASSUME NEW f \in Files, WriteBlob(f) PROVE MemberInv'
  BY <1>3, ShareAssumption DEF WriteBlob
<1>4. ASSUME NEW f \in Files, Insert(f) PROVE MemberInv'
  BY <1>4, ShareAssumption DEF Insert, SetRows, Things, Insertable
<1>5. ASSUME NEW f \in Files, InsertFails(f) PROVE MemberInv'
  BY <1>5, ShareAssumption DEF InsertFails, Insertable
<1>6. ASSUME NEW f \in Files, RemoveOwn(f) PROVE MemberInv'
  BY <1>6, ShareAssumption DEF RemoveOwn
<1>7. ASSUME NEW d \in Readers, Load(d) PROVE MemberInv'
  BY <1>7, ShareAssumption DEF Load
<1>8. ASSUME NEW d \in Readers, FindMember(d) PROVE MemberInv'
  BY <1>8, ShareAssumption DEF FindMember
<1>9. ASSUME NEW d \in Readers, Consume(d) PROVE MemberInv'
  BY <1>9, ShareAssumption DEF Consume, Countable
<1>10. ASSUME NEW d \in Readers, Open(d) PROVE MemberInv'
  BY <1>10, ShareAssumption DEF Open
<1>11. ASSUME NEW d \in Readers, Finish(d) PROVE MemberInv'
  BY <1>11, ShareAssumption DEF Finish
<1>12. ASSUME NEW d \in Readers, Archive(d) PROVE MemberInv'
  BY <1>12, ShareAssumption DEF Archive, SetRows, Things
<1>13. ASSUME NEW d \in Readers, ArchiveMembers(d) PROVE MemberInv'
  BY <1>13, ShareAssumption DEF ArchiveMembers, SetRows, Things, LiveMembers, Members
<1>14. ASSUME NEW d \in Readers, EndRead(d) PROVE MemberInv'
  BY <1>14, ShareAssumption DEF EndRead
<1>15. ASSUME NEW o \in Owners, NEW S \in SUBSET Files, Delete(o, S) PROVE MemberInv'
  BY <1>15, ShareAssumption DEF Delete, SetRows, Things, Stored
<1>16. ASSUME NEW p \in Procs, NEW f \in Files, Unlink(p, f) PROVE MemberInv'
  BY <1>16, ShareAssumption DEF Unlink
<1>17. ASSUME SweepFiles PROVE MemberInv'
  BY <1>17, ShareAssumption DEF SweepFiles, SetRows, Things, Sweeping
<1>18. ASSUME PurgeFiles PROVE MemberInv'
  BY <1>18, ShareAssumption DEF PurgeFiles, SetRows, Things, Sweeping, Collect
<1>19. ASSUME SweepBatches PROVE MemberInv'
  BY <1>19, ShareAssumption DEF SweepBatches, SetRows, Things, Sweeping
<1>20. ASSUME NEW b \in Batches, SweepMembers(b) PROVE MemberInv'
  BY <1>20, ShareAssumption DEF SweepMembers, SetRows, Things, Sweeping, Collect,
       LiveMembers, Members
<1>21. ASSUME PurgeBatches PROVE MemberInv'
  BY <1>21, ShareAssumption DEF PurgeBatches, SetRows, Things, Sweeping, Stored
<1>22. ASSUME SweepFails PROVE MemberInv'
  BY <1>22, ShareAssumption DEF SweepFails
<1>23. ASSUME NEW t \in Things, Expire(t) PROVE MemberInv'
  BY <1>23, ShareAssumption DEF Expire
<1>24. ASSUME NEW t \in Things, Age(t) PROVE MemberInv'
  BY <1>24, ShareAssumption DEF Age
<1>25. ASSUME Crash PROVE MemberInv'
  BY <1>25, ShareAssumption DEF Crash
<1>26. ASSUME UNCHANGED vars PROVE MemberInv'
  BY <1>26 DEF vars
<1> QED
  BY <1>1, <1>2, <1>3, <1>4, <1>5, <1>6, <1>7, <1>8, <1>9, <1>10, <1>11, <1>12, <1>13,
     <1>14, <1>15, <1>16, <1>17, <1>18, <1>19, <1>20, <1>21, <1>22, <1>23, <1>24, <1>25, <1>26
     DEF Next, Upload, Download, Sweep

(* Nothing is archived before it is over. *)
LEMMA ArchivedStep ==
  TypeOK /\ RowInv /\ SlotInv /\ MemberInv /\ ArchivedIsOver /\ [Next]_vars => ArchivedIsOver'
<1> SUFFICES ASSUME TypeOK, RowInv, SlotInv, MemberInv, ArchivedIsOver, [Next]_vars
      PROVE ArchivedIsOver'
  OBVIOUS
<1> USE DEF TypeOK, ArchivedIsOver, MemberInv, Shares, Over, Spent, Limited, Rows, Things,
     Singles, UploadPhases, links, reading, sweeping
<1>1. ASSUME NEW b \in Batches, CreateBatch(b) PROVE ArchivedIsOver'
  BY <1>1, ShareAssumption, LinkType DEF CreateBatch, SetRows, Things
<1>2. ASSUME NEW f \in Files, Begin(f) PROVE ArchivedIsOver'
  BY <1>2, ShareAssumption, LinkType DEF Begin, BatchOpen
<1>3. ASSUME NEW f \in Files, WriteBlob(f) PROVE ArchivedIsOver'
  BY <1>3, ShareAssumption, LinkType DEF WriteBlob
<1>4. ASSUME NEW f \in Files, Insert(f) PROVE ArchivedIsOver'
  BY <1>4, ShareAssumption, LinkType DEF Insert, SetRows, Things, Insertable, RowInv
<1>5. ASSUME NEW f \in Files, InsertFails(f) PROVE ArchivedIsOver'
  BY <1>5, ShareAssumption, LinkType DEF InsertFails, Insertable
<1>6. ASSUME NEW f \in Files, RemoveOwn(f) PROVE ArchivedIsOver'
  BY <1>6, ShareAssumption, LinkType DEF RemoveOwn
<1>7. ASSUME NEW d \in Readers, Load(d) PROVE ArchivedIsOver'
  BY <1>7, ShareAssumption, LinkType DEF Load
<1>8. ASSUME NEW d \in Readers, FindMember(d) PROVE ArchivedIsOver'
  BY <1>8, ShareAssumption, LinkType DEF FindMember
<1>9. ASSUME NEW d \in Readers, Consume(d) PROVE ArchivedIsOver'
  BY <1>9, ShareAssumption, LinkType DEF Consume, Countable
<1>10. ASSUME NEW d \in Readers, Open(d) PROVE ArchivedIsOver'
  BY <1>10, ShareAssumption, LinkType DEF Open
<1>11. ASSUME NEW d \in Readers, Finish(d) PROVE ArchivedIsOver'
  BY <1>11, ShareAssumption, LinkType DEF Finish
<1>12. ASSUME NEW d \in Readers, Archive(d) PROVE ArchivedIsOver'
  BY <1>12, ShareAssumption, LinkType DEF Archive, SetRows, Things, SlotInv
<1>13. ASSUME NEW d \in Readers, ArchiveMembers(d) PROVE ArchivedIsOver'
  BY <1>13, ShareAssumption, LinkType DEF ArchiveMembers, SetRows, Things, LiveMembers,
       Members, SlotInv
<1>14. ASSUME NEW d \in Readers, EndRead(d) PROVE ArchivedIsOver'
  BY <1>14, ShareAssumption, LinkType DEF EndRead
<1>15. ASSUME NEW o \in Owners, NEW S \in SUBSET Files, Delete(o, S) PROVE ArchivedIsOver'
  BY <1>15, ShareAssumption, LinkType DEF Delete, SetRows, Things, Stored
<1>16. ASSUME NEW p \in Procs, NEW f \in Files, Unlink(p, f) PROVE ArchivedIsOver'
  BY <1>16, ShareAssumption, LinkType DEF Unlink
<1>17. ASSUME SweepFiles PROVE ArchivedIsOver'
  BY <1>17, ShareAssumption, LinkType DEF SweepFiles, SetRows, Things, Sweeping
<1>18. ASSUME PurgeFiles PROVE ArchivedIsOver'
  BY <1>18, ShareAssumption, LinkType DEF PurgeFiles, SetRows, Things, Sweeping, Collect
<1>19. ASSUME SweepBatches PROVE ArchivedIsOver'
  BY <1>19, ShareAssumption, LinkType DEF SweepBatches, SetRows, Things, Sweeping
<1>20. ASSUME NEW b \in Batches, SweepMembers(b) PROVE ArchivedIsOver'
  BY <1>20, ShareAssumption, LinkType DEF SweepMembers, SetRows, Things, Sweeping,
       Collect, LiveMembers, Members
<1>21. ASSUME PurgeBatches PROVE ArchivedIsOver'
  BY <1>21, ShareAssumption, LinkType DEF PurgeBatches, SetRows, Things, Sweeping, Stored
<1>22. ASSUME SweepFails PROVE ArchivedIsOver'
  BY <1>22, ShareAssumption, LinkType DEF SweepFails
<1>23. ASSUME NEW t \in Things, Expire(t) PROVE ArchivedIsOver'
  BY <1>23, ShareAssumption, LinkType DEF Expire
<1>24. ASSUME NEW t \in Things, Age(t) PROVE ArchivedIsOver'
  BY <1>24, ShareAssumption, LinkType DEF Age
<1>25. ASSUME Crash PROVE ArchivedIsOver'
  BY <1>25, ShareAssumption, LinkType DEF Crash
<1>26. ASSUME UNCHANGED vars PROVE ArchivedIsOver'
  BY <1>26 DEF vars
<1> QED
  BY <1>1, <1>2, <1>3, <1>4, <1>5, <1>6, <1>7, <1>8, <1>9, <1>10, <1>11, <1>12, <1>13,
     <1>14, <1>15, <1>16, <1>17, <1>18, <1>19, <1>20, <1>21, <1>22, <1>23, <1>24, <1>25, <1>26
     DEF Next, Upload, Download, Sweep

(* Only what is archived or gone is ever due to be unlinked. *)
LEMMA BlobStep ==
  TypeOK /\ RowInv /\ BlobInv /\ [Next]_vars => BlobInv'
<1> SUFFICES ASSUME TypeOK, RowInv, BlobInv, [Next]_vars PROVE BlobInv'
  OBVIOUS
<1> USE DEF TypeOK, RowInv, BlobInv, Shares, May, Rows, Things, Singles, UploadPhases,
     links, reading, sweeping
<1>1. ASSUME NEW b \in Batches, CreateBatch(b) PROVE BlobInv'
  BY <1>1, ShareAssumption, LinkType DEF CreateBatch, SetRows, Things
<1>2. ASSUME NEW f \in Files, Begin(f) PROVE BlobInv'
  BY <1>2, ShareAssumption, LinkType DEF Begin, BatchOpen
<1>3. ASSUME NEW f \in Files, WriteBlob(f) PROVE BlobInv'
  BY <1>3, ShareAssumption, LinkType DEF WriteBlob
<1>4. ASSUME NEW f \in Files, Insert(f) PROVE BlobInv'
  BY <1>4, ShareAssumption, LinkType DEF Insert, SetRows, Things, Insertable
<1>5. ASSUME NEW f \in Files, InsertFails(f) PROVE BlobInv'
  BY <1>5, ShareAssumption, LinkType DEF InsertFails, Insertable
<1>6. ASSUME NEW f \in Files, RemoveOwn(f) PROVE BlobInv'
  BY <1>6, ShareAssumption, LinkType DEF RemoveOwn
<1>7. ASSUME NEW d \in Readers, Load(d) PROVE BlobInv'
  BY <1>7, ShareAssumption, LinkType DEF Load
<1>8. ASSUME NEW d \in Readers, FindMember(d) PROVE BlobInv'
  BY <1>8, ShareAssumption, LinkType DEF FindMember
<1>9. ASSUME NEW d \in Readers, Consume(d) PROVE BlobInv'
  BY <1>9, ShareAssumption, LinkType DEF Consume, Countable
<1>10. ASSUME NEW d \in Readers, Open(d) PROVE BlobInv'
  BY <1>10, ShareAssumption, LinkType DEF Open
<1>11. ASSUME NEW d \in Readers, Finish(d) PROVE BlobInv'
  BY <1>11, ShareAssumption, LinkType DEF Finish
<1>12. ASSUME NEW d \in Readers, Archive(d) PROVE BlobInv'
  BY <1>12, ShareAssumption, LinkType DEF Archive, SetRows, Things
<1>13. ASSUME NEW d \in Readers, ArchiveMembers(d) PROVE BlobInv'
  BY <1>13, ShareAssumption, LinkType DEF ArchiveMembers, SetRows, Things, LiveMembers,
       Members
<1>14. ASSUME NEW d \in Readers, EndRead(d) PROVE BlobInv'
  BY <1>14, ShareAssumption, LinkType DEF EndRead
<1>15. ASSUME NEW o \in Owners, NEW S \in SUBSET Files, Delete(o, S) PROVE BlobInv'
  BY <1>15, ShareAssumption, LinkType DEF Delete, SetRows, Things, Stored
<1>16. ASSUME NEW p \in Procs, NEW f \in Files, Unlink(p, f) PROVE BlobInv'
  BY <1>16, ShareAssumption, LinkType DEF Unlink
<1>17. ASSUME SweepFiles PROVE BlobInv'
  BY <1>17, ShareAssumption, LinkType DEF SweepFiles, SetRows, Things, Sweeping
<1>18. ASSUME PurgeFiles PROVE BlobInv'
  BY <1>18, ShareAssumption, LinkType DEF PurgeFiles, SetRows, Things, Sweeping, Collect
<1>19. ASSUME SweepBatches PROVE BlobInv'
  BY <1>19, ShareAssumption, LinkType DEF SweepBatches, SetRows, Things, Sweeping
<1>20. ASSUME NEW b \in Batches, SweepMembers(b) PROVE BlobInv'
  BY <1>20, ShareAssumption, LinkType DEF SweepMembers, SetRows, Things, Sweeping,
       Collect, LiveMembers, Members
<1>21. ASSUME PurgeBatches PROVE BlobInv'
  BY <1>21, ShareAssumption, LinkType DEF PurgeBatches, SetRows, Things, Sweeping, Stored
<1>22. ASSUME SweepFails PROVE BlobInv'
  BY <1>22, ShareAssumption, LinkType DEF SweepFails
<1>23. ASSUME NEW t \in Things, Expire(t) PROVE BlobInv'
  BY <1>23, ShareAssumption, LinkType DEF Expire
<1>24. ASSUME NEW t \in Things, Age(t) PROVE BlobInv'
  BY <1>24, ShareAssumption, LinkType DEF Age
<1>25. ASSUME Crash PROVE BlobInv'
  BY <1>25, ShareAssumption, LinkType DEF Crash
<1>26. ASSUME UNCHANGED vars PROVE BlobInv'
  BY <1>26 DEF vars
<1> QED
  BY <1>1, <1>2, <1>3, <1>4, <1>5, <1>6, <1>7, <1>8, <1>9, <1>10, <1>11, <1>12, <1>13,
     <1>14, <1>15, <1>16, <1>17, <1>18, <1>19, <1>20, <1>21, <1>22, <1>23, <1>24, <1>25, <1>26
     DEF Next, Upload, Download, Sweep

(* Who has paid and not been served is a finite set of requests. *)
LEMMA PaidType ==
  \A l : IsFiniteSet(Paid(l)) /\ Cardinality(Paid(l)) \in Nat
<1> TAKE l
<1>1. Paid(l) \in SUBSET Readers
  BY DEF Paid
<1> QED
  BY <1>1, ShareAssumption, FS_Subset, FS_CardinalityType

(* A step that counts nothing, serves nothing and pays nothing. *)
LEMMA CountFrame ==
  ASSUME CountInv, UNCHANGED <<count, served>>,
         \A d \in Readers : at[d] = "paid" <=> at'[d] = "paid"
  PROVE  CountInv'
<1>1. \A l : Paid(l)' = Paid(l)
  BY DEF Paid, LinkWanted
<1> QED
  BY <1>1 DEF CountInv, Limited

(* Every slot is paid for before it is served, and none beyond the limit. *)
LEMMA CountStep ==
  TypeOK /\ CountInv /\ [Next]_vars => CountInv'
<1> SUFFICES ASSUME TypeOK, CountInv, [Next]_vars PROVE CountInv'
  OBVIOUS
<1> USE DEF TypeOK, ReadPhases, links, reading, sweeping
<1>1. ASSUME NEW b \in Batches, CreateBatch(b) PROVE CountInv'
  BY <1>1, CountFrame DEF CreateBatch, SetRows, Things
<1>2. ASSUME NEW f \in Files, Begin(f) PROVE CountInv'
  BY <1>2, CountFrame DEF Begin, BatchOpen
<1>3. ASSUME NEW f \in Files, WriteBlob(f) PROVE CountInv'
  BY <1>3, CountFrame DEF WriteBlob
<1>4. ASSUME NEW f \in Files, Insert(f) PROVE CountInv'
  BY <1>4, CountFrame DEF Insert, SetRows, Things, Insertable
<1>5. ASSUME NEW f \in Files, InsertFails(f) PROVE CountInv'
  BY <1>5, CountFrame DEF InsertFails, Insertable
<1>6. ASSUME NEW f \in Files, RemoveOwn(f) PROVE CountInv'
  BY <1>6, CountFrame DEF RemoveOwn
<1>7. ASSUME NEW d \in Readers, Load(d) PROVE CountInv'
  BY <1>7, CountFrame DEF Load
<1>8. ASSUME NEW d \in Readers, FindMember(d) PROVE CountInv'
  BY <1>8, CountFrame DEF FindMember
<1>9. ASSUME NEW d \in Readers, Consume(d) PROVE CountInv'
  <2> DEFINE l == LinkWanted(d)
  <2>1. l \in Shares /\ l \in Things /\ Shares \subseteq Things
    BY LinkType
  <2>2. CASE Countable(l) /\ at' = [at EXCEPT ![d] = "paid"]
    <3>1. count' = [count EXCEPT ![l] = @ + 1] /\ served' = served
      BY <1>9, <2>2, <2>1 DEF Consume
    <3>2. Paid(l)' = Paid(l) \cup {d} /\ d \notin Paid(l)
      BY <1>9, <2>2 DEF Consume, Paid, LinkWanted
    <3>3. Cardinality(Paid(l)') = Cardinality(Paid(l)) + 1
      BY <3>2, PaidType, FS_AddElement
    <3>4. \A m \in Shares : m # l => Paid(m)' = Paid(m)
      BY <1>9, <2>2 DEF Consume, Paid, LinkWanted
    <3>5. ASSUME NEW m \in Shares
          PROVE /\ served'[m] + Cardinality(Paid(m)') <= count'[m]
                /\ Limited(m) => count'[m] <= MaxDownloads[m]
      <4>1. Limited(l) => count[l] + 1 <= MaxDownloads[l]
        BY <2>2, <2>1, ShareAssumption DEF Countable, Over, Spent
      <4> QED
        BY <4>1, <3>1, <3>3, <3>4, <2>1, PaidType DEF CountInv
    <3> QED
      BY <3>5 DEF CountInv, Limited
  <2>3. CASE Countable(l) /\ at' = [at EXCEPT ![d] = "ended"]
    <3>1. count' = [count EXCEPT ![l] = @ + 1] /\ served' = served
      BY <1>9, <2>3, <2>1 DEF Consume
    <3>2. \A m : Paid(m)' = Paid(m)
      BY <1>9, <2>3 DEF Consume, Paid, LinkWanted
    <3>3. ASSUME NEW m \in Shares
          PROVE /\ served'[m] + Cardinality(Paid(m)) <= count'[m]
                /\ Limited(m) => count'[m] <= MaxDownloads[m]
      <4>1. Limited(l) => count[l] + 1 <= MaxDownloads[l]
        BY <2>3, <2>1, ShareAssumption DEF Countable, Over, Spent
      <4> QED
        BY <4>1, <3>1, <2>1, PaidType DEF CountInv
    <3> QED
      BY <3>3, <3>2 DEF CountInv, Limited
  <2>4. CASE ~Countable(l)
    BY <1>9, <2>4, CountFrame DEF Consume
  <2> QED
    BY <1>9, <2>2, <2>3, <2>4 DEF Consume
<1>10. ASSUME NEW d \in Readers, Open(d) PROVE CountInv'
  <2> DEFINE l == LinkWanted(d)
  <2>1. l \in Shares /\ l \in Things /\ Shares \subseteq Things
    BY LinkType
  <2>2. Paid(l)' = Paid(l) \ {d} /\ d \in Paid(l) /\ UNCHANGED count
    BY <1>10 DEF Open, Paid, LinkWanted
  <2>3. Cardinality(Paid(l)') = Cardinality(Paid(l)) - 1
    <3>1. IsFiniteSet(Paid(l))
      BY PaidType
    <3>2. Cardinality(Paid(l) \ {d}) = Cardinality(Paid(l)) - 1
      BY <3>1, <2>2, FS_RemoveElement
    <3> QED
      BY <3>2, <2>2
  <2>4. \A m \in Shares : m # l => Paid(m)' = Paid(m)
    BY <1>10 DEF Open, Paid, LinkWanted
  <2>5. served' = [served EXCEPT ![l] = @ + 1] \/ served' = served
    BY <1>10 DEF Open, LinkWanted
  <2>6. ASSUME NEW m \in Shares
        PROVE served'[m] + Cardinality(Paid(m)') <= count[m]
    <3>1. served[m] + Cardinality(Paid(m)) <= count[m] /\ Cardinality(Paid(m)) \in Nat
      BY PaidType DEF CountInv
    <3>2. CASE m = l
      BY <3>1, <3>2, <2>1, <2>3, <2>5
    <3>3. CASE m # l
      <4>1. served'[m] = served[m]
        BY <3>3, <2>1, <2>5
      <4> QED
        BY <3>1, <3>3, <4>1, <2>4
    <3> QED
      BY <3>2, <3>3
  <2> QED
    BY <2>6, <2>2 DEF CountInv, Limited
<1>11. ASSUME NEW d \in Readers, Finish(d) PROVE CountInv'
  BY <1>11, CountFrame DEF Finish
<1>12. ASSUME NEW d \in Readers, Archive(d) PROVE CountInv'
  BY <1>12, CountFrame DEF Archive, SetRows, Things
<1>13. ASSUME NEW d \in Readers, ArchiveMembers(d) PROVE CountInv'
  BY <1>13, CountFrame DEF ArchiveMembers, SetRows, Things, LiveMembers, Members
<1>14. ASSUME NEW d \in Readers, EndRead(d) PROVE CountInv'
  BY <1>14, CountFrame DEF EndRead
<1>15. ASSUME NEW o \in Owners, NEW S \in SUBSET Files, Delete(o, S) PROVE CountInv'
  BY <1>15, CountFrame DEF Delete, SetRows, Things, Stored
<1>16. ASSUME NEW p \in Procs, NEW f \in Files, Unlink(p, f) PROVE CountInv'
  BY <1>16, CountFrame DEF Unlink
<1>17. ASSUME SweepFiles PROVE CountInv'
  BY <1>17, CountFrame DEF SweepFiles, SetRows, Things, Sweeping
<1>18. ASSUME PurgeFiles PROVE CountInv'
  BY <1>18, CountFrame DEF PurgeFiles, SetRows, Things, Sweeping, Collect
<1>19. ASSUME SweepBatches PROVE CountInv'
  BY <1>19, CountFrame DEF SweepBatches, SetRows, Things, Sweeping
<1>20. ASSUME NEW b \in Batches, SweepMembers(b) PROVE CountInv'
  BY <1>20, CountFrame DEF SweepMembers, SetRows, Things, Sweeping, Collect, LiveMembers,
       Members
<1>21. ASSUME PurgeBatches PROVE CountInv'
  BY <1>21, CountFrame DEF PurgeBatches, SetRows, Things, Sweeping, Stored
<1>22. ASSUME SweepFails PROVE CountInv'
  BY <1>22, CountFrame DEF SweepFails
<1>23. ASSUME NEW t \in Things, Expire(t) PROVE CountInv'
  BY <1>23, CountFrame DEF Expire
<1>24. ASSUME NEW t \in Things, Age(t) PROVE CountInv'
  BY <1>24, CountFrame DEF Age
<1>25. ASSUME Crash PROVE CountInv'
  <2>1. \A l : Paid(l)' = {}
    BY <1>25 DEF Crash, Paid
  <2>2. \A l \in Shares : served[l] <= count[l]
    BY LinkType, PaidType DEF CountInv, Shares, Singles, Things
  <2>3. UNCHANGED <<count, served>>
    BY <1>25 DEF Crash
  <2>4. Shares \subseteq Things
    BY DEF Shares, Singles, Things
  <2> QED
    BY <2>1, <2>2, <2>3, <2>4, FS_EmptySet DEF CountInv, Limited
<1>26. ASSUME UNCHANGED vars PROVE CountInv'
  BY <1>26, CountFrame DEF vars
<1> QED
  BY <1>1, <1>2, <1>3, <1>4, <1>5, <1>6, <1>7, <1>8, <1>9, <1>10, <1>11, <1>12, <1>13,
     <1>14, <1>15, <1>16, <1>17, <1>18, <1>19, <1>20, <1>21, <1>22, <1>23, <1>24, <1>25, <1>26
     DEF Next, Upload, Download, Sweep

-----------------------------------------------------------------------------
(* The initial states satisfy every part of the invariant. *)
LEMMA InitInvariant == Init => IInv
<1> SUFFICES ASSUME Init PROVE IInv
  OBVIOUS
<1> USE DEF Init, Quiet
<1>1. TypeOK
  BY DEF TypeOK, Rows, UploadPhases, ReadPhases, SweepPhases
<1>2. RowInv /\ SlotInv /\ MemberInv
  BY ShareAssumption DEF RowInv, SlotInv, MemberInv, Things, Singles
<1>3. ArchivedIsOver /\ BlobInv
  BY DEF ArchivedIsOver, BlobInv, Things
<1>4. CountInv
  <2>1. \A l : Paid(l) = {}
    BY DEF Paid
  <2>2. Shares \subseteq Things
    BY DEF Shares, Singles, Things
  <2>3. \A l : Cardinality(Paid(l)) = 0
    BY <2>1, FS_EmptySet
  <2>4. \A l \in Shares : served[l] = 0 /\ count[l] = 0 /\ MaxDownloads[l] \in Nat
    BY <2>2, ShareAssumption
  <2> QED
    BY <2>3, <2>4 DEF CountInv, Limited
<1> QED
  BY <1>1, <1>2, <1>3, <1>4 DEF IInv

(* Every step preserves all of them together. *)
LEMMA NextInvariant == IInv /\ [Next]_vars => IInv'
BY TypeStep, RowStep, SlotStep, MemberStep, ArchivedStep, BlobStep, CountStep DEF IInv

(* The inductive invariant holds in every reachable state, whatever the files,
   batches, limits, requests and faults.                                     *)
THEOREM Invariant == Spec => []IInv
BY InitInvariant, NextInvariant, PTL DEF Spec

(* Every variable keeps its type. *)
THEOREM TypeCorrect == Spec => []TypeOK
<1>1. IInv => TypeOK
  BY DEF IInv
<1> QED
  BY <1>1, Invariant, PTL

(* consumeDownload and consumeBatchDownload hand out no slot beyond the limit,
   and a blob is opened only for a slot: no link streams more than its limit,
   however many requests race and whichever statements fail.                 *)
THEOREM LimitSafe == Spec => []ServedWithinLimit
<1>1. IInv => ServedWithinLimit
  <2> SUFFICES ASSUME IInv, NEW l \in Shares, Limited(l)
               PROVE served[l] <= MaxDownloads[l]
    BY DEF ServedWithinLimit
  <2>1. /\ served[l] \in Nat /\ count[l] \in Nat /\ MaxDownloads[l] \in Nat
        /\ Cardinality(Paid(l)) \in Nat
    BY ShareAssumption, PaidType DEF IInv, TypeOK, Shares, Singles, Things
  <2>2. served[l] + Cardinality(Paid(l)) <= count[l] /\ count[l] <= MaxDownloads[l]
    BY DEF IInv, CountInv
  <2> QED
    BY <2>1, <2>2
<1> QED
  BY <1>1, Invariant, PTL

(* archiveIfSpent and archiveBatchIfSpent decide by a count that is stale when
   they run, and still retire nothing before it is over.                     *)
THEOREM ArchivedSafe == Spec => []ArchivedIsOver
<1>1. IInv => ArchivedIsOver
  BY DEF IInv
<1> QED
  BY <1>1, Invariant, PTL

(* Blobs are written before their row and unlinked after it went: the row of a
   confirmed upload has its blob, whatever fails, is cut off or crashes.     *)
THEOREM BlobSafe == Spec => []LiveHasBlob
<1>1. IInv => LiveHasBlob
  BY DEF IInv, BlobInv, LiveHasBlob
<1> QED
  BY <1>1, Invariant, PTL

-----------------------------------------------------------------------------
(* The mapping to ShareLink starts where ShareLink starts. *)
LEMMA LinkInit == Init => Link!Init
BY DEF Init, Quiet, Link!Init, LinkState, Shares, Singles, Things

(* A step that leaves what a link promises alone. *)
LEMMA LinkFrame ==
  ASSUME UNCHANGED <<count, dead>>,
         \A l \in Shares : row'[l] = row[l] \/ {row[l], row'[l]} \subseteq {"archived", "gone"}
  PROVE  UNCHANGED Link!link
BY DEF Link!link, LinkState

(* Every step is a step of ShareLink or leaves it alone. *)
LEMMA LinkStep ==
  TypeOK /\ RowInv /\ SlotInv /\ ArchivedIsOver /\ [Next]_vars => [Link!Next]_(Link!link)
<1> SUFFICES ASSUME TypeOK, RowInv, SlotInv, ArchivedIsOver, [Next]_vars
             PROVE Link!Next \/ UNCHANGED Link!link
  OBVIOUS
<1> USE DEF TypeOK, Shares, Singles, Things, links, reading, sweeping
<1>1. ASSUME NEW b \in Batches, CreateBatch(b) PROVE Link!Next \/ UNCHANGED Link!link
  <2>1. Link!Publish(b)
    BY <1>1 DEF CreateBatch, SetRows, Link!Publish, LinkState
  <2> QED
    BY <2>1 DEF Link!Next
<1>2. ASSUME NEW f \in Files, Begin(f) PROVE Link!Next \/ UNCHANGED Link!link
  BY <1>2, LinkFrame DEF Begin
<1>3. ASSUME NEW f \in Files, WriteBlob(f) PROVE Link!Next \/ UNCHANGED Link!link
  BY <1>3, LinkFrame DEF WriteBlob
<1>4. ASSUME NEW f \in Files, Insert(f) PROVE Link!Next \/ UNCHANGED Link!link
  <2>1. CASE f \in Singles
    <3>1. Link!Publish(f)
      BY <1>4, <2>1 DEF Insert, SetRows, RowInv, Link!Publish, LinkState
    <3> QED
      BY <3>1, <2>1 DEF Link!Next
  <2>2. CASE f \notin Singles
    BY <1>4, <2>2, LinkFrame, ShareAssumption DEF Insert, SetRows
  <2> QED
    BY <2>1, <2>2
<1>5. ASSUME NEW f \in Files, InsertFails(f) PROVE Link!Next \/ UNCHANGED Link!link
  BY <1>5, LinkFrame DEF InsertFails
<1>6. ASSUME NEW f \in Files, RemoveOwn(f) PROVE Link!Next \/ UNCHANGED Link!link
  BY <1>6, LinkFrame DEF RemoveOwn
<1>7. ASSUME NEW d \in Readers, Load(d) PROVE Link!Next \/ UNCHANGED Link!link
  BY <1>7, LinkFrame DEF Load
<1>8. ASSUME NEW d \in Readers, FindMember(d) PROVE Link!Next \/ UNCHANGED Link!link
  BY <1>8, LinkFrame DEF FindMember
<1>9. ASSUME NEW d \in Readers, Consume(d) PROVE Link!Next \/ UNCHANGED Link!link
  <2> DEFINE l == LinkWanted(d)
  <2>1. l \in Shares
    BY LinkType
  <2>2. CASE Countable(l)
    <3>1. row[l] = "live" /\ l \notin dead /\ ~Spent(l)
      BY <2>1, <2>2 DEF Countable, ArchivedIsOver, Over
    <3>2. Link!Fetch(l)
      BY <1>9, <2>1, <2>2, <3>1 DEF Consume, Link!Fetch, Link!Exhausted, Spent, Limited,
           LinkState
    <3> QED
      BY <3>2, <2>1 DEF Link!Next
  <2>3. CASE ~Countable(l)
    BY <1>9, <2>3, LinkFrame DEF Consume
  <2> QED
    BY <2>2, <2>3
<1>10. ASSUME NEW d \in Readers, Open(d) PROVE Link!Next \/ UNCHANGED Link!link
  BY <1>10, LinkFrame DEF Open
<1>11. ASSUME NEW d \in Readers, Finish(d) PROVE Link!Next \/ UNCHANGED Link!link
  BY <1>11, LinkFrame DEF Finish
<1>12. ASSUME NEW d \in Readers, Archive(d) PROVE Link!Next \/ UNCHANGED Link!link
  <2> DEFINE l == LinkWanted(d)
  <2>1. l \in Shares /\ Spent(l) /\ row[l] = "live"
    BY <1>12, LinkType DEF Archive, SlotInv
  <2>2. Link!Retire({l})
    BY <1>12, <2>1 DEF Archive, SetRows, Link!Retire, Link!Closing, Link!Exhausted, Spent,
         Limited, LinkState
  <2> QED
    BY <2>1, <2>2 DEF Link!Next
<1>13. ASSUME NEW d \in Readers, ArchiveMembers(d) PROVE Link!Next \/ UNCHANGED Link!link
  BY <1>13, LinkFrame, LinkType, ShareAssumption DEF ArchiveMembers, SetRows, LiveMembers,
       Members
<1>14. ASSUME NEW d \in Readers, EndRead(d) PROVE Link!Next \/ UNCHANGED Link!link
  BY <1>14, LinkFrame DEF EndRead
<1>15. ASSUME NEW o \in Owners, NEW S \in SUBSET Files, Delete(o, S)
      PROVE Link!Next \/ UNCHANGED Link!link
  <2>1. Link!Withdraw(S \cap Singles)
    BY <1>15, ShareAssumption DEF Delete, Stored, SetRows, Link!Withdraw, Link!Closing,
         LinkState
  <2>2. S \cap Singles \in SUBSET Shares
    BY DEF Shares
  <2> QED
    BY <2>1, <2>2 DEF Link!Next
<1>16. ASSUME NEW p \in Procs, NEW f \in Files, Unlink(p, f)
      PROVE Link!Next \/ UNCHANGED Link!link
  BY <1>16, LinkFrame DEF Unlink
<1>17. ASSUME SweepFiles PROVE Link!Next \/ UNCHANGED Link!link
  <2>1. PICK T : T = {t \in Files : row[t] = "live" /\ Over(t)}
    OBVIOUS
  <2>2. T \in SUBSET Shares
    BY <2>1, ShareAssumption DEF Over, Spent, Limited
  <2>3. Link!Retire(T)
    BY <1>17, <2>1, <2>2
       DEF SweepFiles, SetRows, Link!Retire, Link!Closing, Link!Exhausted, Over,
           Spent, Limited, LinkState
  <2> QED
    BY <2>2, <2>3 DEF Link!Next
<1>18. ASSUME PurgeFiles PROVE Link!Next \/ UNCHANGED Link!link
  BY <1>18, LinkFrame DEF PurgeFiles, SetRows
<1>19. ASSUME SweepBatches PROVE Link!Next \/ UNCHANGED Link!link
  <2>1. PICK T : T = {t \in Batches : row[t] = "live" /\ Over(t)}
    OBVIOUS
  <2>2. T \in SUBSET Shares
    BY <2>1, ShareAssumption DEF Over, Spent, Limited
  <2>3. Link!Retire(T)
    BY <1>19, <2>1, <2>2
       DEF SweepBatches, SetRows, Link!Retire, Link!Closing, Link!Exhausted, Over,
           Spent, Limited, LinkState
  <2> QED
    BY <2>2, <2>3 DEF Link!Next
<1>20. ASSUME NEW b \in Batches, SweepMembers(b) PROVE Link!Next \/ UNCHANGED Link!link
  BY <1>20, LinkFrame, LinkType, ShareAssumption DEF SweepMembers, SetRows, LiveMembers,
       Members
<1>21. ASSUME PurgeBatches PROVE Link!Next \/ UNCHANGED Link!link
  BY <1>21, LinkFrame, ShareAssumption DEF PurgeBatches, SetRows, Stored
<1>22. ASSUME SweepFails PROVE Link!Next \/ UNCHANGED Link!link
  BY <1>22, LinkFrame DEF SweepFails
<1>23. ASSUME NEW t \in Things, Expire(t) PROVE Link!Next \/ UNCHANGED Link!link
  <2>1. t \in Shares
    BY <1>23, ShareAssumption DEF Expire
  <2>2. Link!Expire(t)
    BY <1>23, <2>1 DEF Expire, Link!Expire, LinkState
  <2> QED
    BY <2>1, <2>2 DEF Link!Next
<1>24. ASSUME NEW t \in Things, Age(t) PROVE Link!Next \/ UNCHANGED Link!link
  BY <1>24, LinkFrame DEF Age
<1>25. ASSUME Crash PROVE Link!Next \/ UNCHANGED Link!link
  BY <1>25, LinkFrame DEF Crash
<1>26. ASSUME UNCHANGED vars PROVE Link!Next \/ UNCHANGED Link!link
  BY <1>26, LinkFrame DEF vars
<1> QED
  BY <1>1, <1>2, <1>3, <1>4, <1>5, <1>6, <1>7, <1>8, <1>9, <1>10, <1>11, <1>12, <1>13,
     <1>14, <1>15, <1>16, <1>17, <1>18, <1>19, <1>20, <1>21, <1>22, <1>23, <1>24, <1>25, <1>26
     DEF Next, Upload, Download, Sweep

(* Every behaviour of the detailed system, its faults included, is one that
   ShareLink allows.                                                        *)
THEOREM Implements == Spec => ImplementsLink
<1>1. IInv => TypeOK /\ RowInv /\ SlotInv /\ ArchivedIsOver
  BY DEF IInv
<1> QED
  BY <1>1, LinkInit, LinkStep, Invariant, PTL DEF Spec, ImplementsLink, Link!Spec
-----------------------------------------------------------------------------
(* Whoever has something to unlink is past everything else, and the sweeper has
   batches at hand only between archiving them and their members.             *)
LEMMA TidyStep ==
  TypeOK /\ TidyInv /\ [Next]_vars => TidyInv'
<1> SUFFICES ASSUME TypeOK, TidyInv, [Next]_vars PROVE TidyInv'
  OBVIOUS
<1> USE DEF TypeOK, TidyInv, Procs, May, links, reading, sweeping
<1>1. ASSUME NEW b \in Batches, CreateBatch(b) PROVE TidyInv'
  BY <1>1, ShareAssumption DEF CreateBatch, SetRows
<1>2. ASSUME NEW g \in Files, Begin(g) PROVE TidyInv'
  BY <1>2, ShareAssumption DEF Begin, BatchOpen
<1>3. ASSUME NEW g \in Files, WriteBlob(g) PROVE TidyInv'
  BY <1>3, ShareAssumption DEF WriteBlob
<1>4. ASSUME NEW g \in Files, Insert(g) PROVE TidyInv'
  BY <1>4, ShareAssumption DEF Insert, SetRows, Insertable
<1>5. ASSUME NEW g \in Files, InsertFails(g) PROVE TidyInv'
  BY <1>5, ShareAssumption DEF InsertFails
<1>6. ASSUME NEW g \in Files, RemoveOwn(g) PROVE TidyInv'
  BY <1>6, ShareAssumption DEF RemoveOwn
<1>7. ASSUME NEW d \in Readers, Load(d) PROVE TidyInv'
  BY <1>7, ShareAssumption DEF Load
<1>8. ASSUME NEW d \in Readers, FindMember(d) PROVE TidyInv'
  BY <1>8, ShareAssumption DEF FindMember
<1>9. ASSUME NEW d \in Readers, Consume(d) PROVE TidyInv'
  BY <1>9, ShareAssumption DEF Consume
<1>10. ASSUME NEW d \in Readers, Open(d) PROVE TidyInv'
  BY <1>10, ShareAssumption DEF Open
<1>11. ASSUME NEW d \in Readers, Finish(d) PROVE TidyInv'
  BY <1>11, ShareAssumption DEF Finish
<1>12. ASSUME NEW d \in Readers, Archive(d) PROVE TidyInv'
  BY <1>12, ShareAssumption DEF Archive, SetRows
<1>13. ASSUME NEW d \in Readers, ArchiveMembers(d) PROVE TidyInv'
  BY <1>13, ShareAssumption DEF ArchiveMembers, SetRows, LiveMembers, Members
<1>14. ASSUME NEW d \in Readers, EndRead(d) PROVE TidyInv'
  BY <1>14, ShareAssumption DEF EndRead
<1>15. ASSUME NEW o \in Owners, NEW S \in SUBSET Files, Delete(o, S) PROVE TidyInv'
  BY <1>15, ShareAssumption DEF Delete, SetRows, Stored
<1>16. ASSUME NEW p \in Procs, NEW g \in Files, Unlink(p, g) PROVE TidyInv'
  BY <1>16, ShareAssumption DEF Unlink
<1>17. ASSUME SweepFiles PROVE TidyInv'
  BY <1>17, ShareAssumption DEF SweepFiles, SetRows, Sweeping, Over, Spent, Limited
<1>18. ASSUME PurgeFiles PROVE TidyInv'
  BY <1>18, ShareAssumption DEF PurgeFiles, SetRows, Sweeping, Collect
<1>19. ASSUME SweepBatches PROVE TidyInv'
  BY <1>19, ShareAssumption DEF SweepBatches, SetRows, Sweeping
<1>20. ASSUME NEW b \in Batches, SweepMembers(b) PROVE TidyInv'
  BY <1>20, ShareAssumption DEF SweepMembers, SetRows, Sweeping, Collect, LiveMembers, Members
<1>21. ASSUME PurgeBatches PROVE TidyInv'
  BY <1>21, ShareAssumption DEF PurgeBatches, SetRows, Sweeping, Stored
<1>22. ASSUME SweepFails PROVE TidyInv'
  BY <1>22, ShareAssumption DEF SweepFails
<1>23. ASSUME NEW t \in Things, Expire(t) PROVE TidyInv'
  BY <1>23, ShareAssumption DEF Expire
<1>24. ASSUME NEW t \in Things, Age(t) PROVE TidyInv'
  BY <1>24, ShareAssumption DEF Age, InFlight
<1>25. ASSUME Crash PROVE TidyInv'
  BY <1>25, ShareAssumption DEF Crash
<1>26. ASSUME UNCHANGED vars PROVE TidyInv'
  BY <1>26, ShareAssumption DEF vars
<1> QED
  BY <1>1, <1>2, <1>3, <1>4, <1>5, <1>6, <1>7, <1>8, <1>9, <1>10, <1>11, <1>12, <1>13, <1>14, <1>15, <1>16, <1>17, <1>18, <1>19, <1>20, <1>21, <1>22, <1>23, <1>24, <1>25, <1>26
     DEF Next, Upload, Download, Sweep

(* No step but those of Forgotten leaves the blob of a member to nobody. *)
LEMMA KeptStep ==
  ASSUME NEW f \in Files \ Singles, IInv, TidyInv, KeptInv(f), [Next]_vars, ~Forgotten(f)
  PROVE  KeptInv(f)'
<1> DEFINE B == BatchOf[f]
<1>b. f \in Files /\ B \in Batches /\ B \notin Files /\ f \in Things /\ B \in Things /\ B # f
      /\ f \notin Shares /\ MaxDownloads[f] = 0
  BY ShareAssumption DEF Singles, Things, Shares
<1>t. TypeOK /\ RowInv /\ MemberInv /\ BlobInv
  BY DEF IInv
<1> USE DEF TypeOK, Rows, Procs, May, links, reading, sweeping, KeptInv, TidyInv, Awaited, Listed,
     Forgotten, ArrivesLate, LeftLive, NameLost, ListLost
<1>1. ASSUME NEW b \in Batches, CreateBatch(b) PROVE KeptInv(f)'
  BY <1>1, <1>b, <1>t, ShareAssumption, LinkType DEF CreateBatch, SetRows
<1>2. ASSUME NEW g \in Files, Begin(g) PROVE KeptInv(f)'
  BY <1>2, <1>b, <1>t, ShareAssumption, LinkType DEF Begin, BatchOpen
<1>3. ASSUME NEW g \in Files, WriteBlob(g) PROVE KeptInv(f)'
  BY <1>3, <1>b, <1>t, ShareAssumption, LinkType DEF WriteBlob, RowInv
<1>4. ASSUME NEW g \in Files, Insert(g) PROVE KeptInv(f)'
  BY <1>4, <1>b, <1>t, ShareAssumption, LinkType DEF Insert, SetRows, Insertable, RowInv, MemberInv
<1>5. ASSUME NEW g \in Files, InsertFails(g) PROVE KeptInv(f)'
  BY <1>5, <1>b, <1>t, ShareAssumption, LinkType DEF InsertFails
<1>6. ASSUME NEW g \in Files, RemoveOwn(g) PROVE KeptInv(f)'
  BY <1>6, <1>b, <1>t, ShareAssumption, LinkType DEF RemoveOwn
<1>7. ASSUME NEW d \in Readers, Load(d) PROVE KeptInv(f)'
  BY <1>7, <1>b, <1>t, ShareAssumption, LinkType DEF Load
<1>8. ASSUME NEW d \in Readers, FindMember(d) PROVE KeptInv(f)'
  BY <1>8, <1>b, <1>t, ShareAssumption, LinkType DEF FindMember
<1>9. ASSUME NEW d \in Readers, Consume(d) PROVE KeptInv(f)'
  BY <1>9, <1>b, <1>t, ShareAssumption, LinkType DEF Consume
<1>10. ASSUME NEW d \in Readers, Open(d) PROVE KeptInv(f)'
  BY <1>10, <1>b, <1>t, ShareAssumption, LinkType DEF Open
<1>11. ASSUME NEW d \in Readers, Finish(d) PROVE KeptInv(f)'
  BY <1>11, <1>b, <1>t, ShareAssumption, LinkType DEF Finish
<1>12. ASSUME NEW d \in Readers, Archive(d) PROVE KeptInv(f)'
  BY <1>12, <1>b, <1>t, ShareAssumption, LinkType DEF Archive, SetRows
<1>13. ASSUME NEW d \in Readers, ArchiveMembers(d) PROVE KeptInv(f)'
  BY <1>13, <1>b, <1>t, ShareAssumption, LinkType DEF ArchiveMembers, SetRows, LiveMembers, Members
<1>14. ASSUME NEW d \in Readers, EndRead(d) PROVE KeptInv(f)'
  BY <1>14, <1>b, <1>t, ShareAssumption, LinkType DEF EndRead, MemberInv, SlotInv
<1>15. ASSUME NEW o \in Owners, NEW S \in SUBSET Files, Delete(o, S) PROVE KeptInv(f)'
  BY <1>15, <1>b, <1>t, ShareAssumption, LinkType DEF Delete, SetRows, Stored
<1>16. ASSUME NEW p \in Procs, NEW g \in Files, Unlink(p, g) PROVE KeptInv(f)'
  BY <1>16, <1>b, <1>t, ShareAssumption, LinkType DEF Unlink
<1>17. ASSUME SweepFiles PROVE KeptInv(f)'
  BY <1>17, <1>b, <1>t, ShareAssumption, LinkType DEF SweepFiles, SetRows, Sweeping, Over, Spent, Limited
<1>18. ASSUME PurgeFiles PROVE KeptInv(f)'
  BY <1>18, <1>b, <1>t, ShareAssumption, LinkType DEF PurgeFiles, SetRows, Sweeping, Collect
<1>19. ASSUME SweepBatches PROVE KeptInv(f)'
  BY <1>19, <1>b, <1>t, ShareAssumption, LinkType DEF SweepBatches, SetRows, Sweeping
<1>20. ASSUME NEW b \in Batches, SweepMembers(b) PROVE KeptInv(f)'
  BY <1>20, <1>b, <1>t, ShareAssumption, LinkType DEF SweepMembers, SetRows, Sweeping, Collect, LiveMembers, Members
<1>21. ASSUME PurgeBatches PROVE KeptInv(f)'
  BY <1>21, <1>b, <1>t, ShareAssumption, LinkType DEF PurgeBatches, SetRows, Sweeping, Stored
<1>22. ASSUME SweepFails PROVE KeptInv(f)'
  BY <1>22, <1>b, <1>t, ShareAssumption, LinkType DEF SweepFails, MemberInv
<1>23. ASSUME NEW t \in Things, Expire(t) PROVE KeptInv(f)'
  BY <1>23, <1>b, <1>t, ShareAssumption, LinkType DEF Expire
<1>24. ASSUME NEW t \in Things, Age(t) PROVE KeptInv(f)'
  BY <1>24, <1>b, <1>t, ShareAssumption, LinkType DEF Age, InFlight
<1>25. ASSUME Crash PROVE KeptInv(f)'
  BY <1>25, <1>b, <1>t, ShareAssumption, LinkType DEF Crash, MemberInv
<1>26. ASSUME UNCHANGED vars PROVE KeptInv(f)'
  BY <1>26, <1>b, <1>t, ShareAssumption, LinkType DEF vars
<1> QED
  BY <1>1, <1>2, <1>3, <1>4, <1>5, <1>6, <1>7, <1>8, <1>9, <1>10, <1>11, <1>12, <1>13, <1>14, <1>15, <1>16, <1>17, <1>18, <1>19, <1>20, <1>21, <1>22, <1>23, <1>24, <1>25, <1>26
     DEF Next, Upload, Download, Sweep

(* A batch is purged by stage 2 of sweepExpiredBatches alone, when it is old. *)
LEMMA PurgeStep ==
  ASSUME TypeOK, NEW f \in Files \ Singles, KeptInv(f), [Next]_vars,
         row[BatchOf[f]] = "archived", row'[BatchOf[f]] = "gone", row[f] # "none"
  PROVE  f \notin blob
<1> USE DEF TypeOK, Things, Singles, links, reading, sweeping
<1>b. BatchOf[f] \in Batches /\ BatchOf[f] \notin Files
  BY ShareAssumption
<1>1. ASSUME NEW b \in Batches, CreateBatch(b) PROVE f \notin blob
  BY <1>1, <1>b DEF CreateBatch, SetRows
<1>2. ASSUME NEW g \in Files, Upload(g) PROVE f \notin blob
  BY <1>2, <1>b DEF Upload, Begin, WriteBlob, Insert, InsertFails, RemoveOwn, SetRows
<1>3. ASSUME NEW d \in Readers, Download(d) PROVE f \notin blob
  BY <1>3, <1>b DEF Download, Load, FindMember, Consume, Open, Finish, Archive, ArchiveMembers, EndRead, SetRows, LiveMembers, Members
<1>4. ASSUME NEW o \in Owners, NEW S \in SUBSET Files, Delete(o, S) PROVE f \notin blob
  BY <1>4, <1>b DEF Delete, SetRows, Stored
<1>5. ASSUME NEW p \in Procs, NEW g \in Files, Unlink(p, g) PROVE f \notin blob
  BY <1>5, <1>b DEF Unlink
<1>6. ASSUME SweepFiles \/ PurgeFiles PROVE f \notin blob
  BY <1>6, <1>b DEF SweepFiles, PurgeFiles, SetRows
<1>7. ASSUME SweepBatches PROVE f \notin blob
  BY <1>7, <1>b DEF SweepBatches, SetRows
<1>8. ASSUME NEW b \in Batches, SweepMembers(b) PROVE f \notin blob
  BY <1>8, <1>b DEF SweepMembers, SetRows, LiveMembers, Members
<1>9. ASSUME PurgeBatches PROVE f \notin blob
  BY <1>9, <1>b DEF PurgeBatches, SetRows, Stored, KeptInv
<1>10. ASSUME SweepFails \/ Crash \/ UNCHANGED vars PROVE f \notin blob
  BY <1>10, <1>b DEF SweepFails, Crash, vars
<1>11. ASSUME NEW t \in Things, Expire(t) \/ Age(t) PROVE f \notin blob
  BY <1>11, <1>b DEF Expire, Age
<1> QED
  BY <1>1, <1>2, <1>3, <1>4, <1>5, <1>6, <1>7, <1>8, <1>9, <1>10, <1>11 DEF Next, Sweep

(* When the sweeper purges a batch thirty days after it was archived, none of
   its members has a blob on disk, so that its rows may cascade away: for any
   faults, uploads still running or not, and for each member as long as none
   of the four steps of Forgotten befell that very member.  An upload that
   ends late and a retirement cut in half (the first two) are what the runs
   share_late and share_cut find; lost answers and crashes are the others.   *)
THEOREM PurgeLeavesNoBlob ==
  ASSUME NEW f \in Files \ Singles
  PROVE  Spec /\ [][~Forgotten(f)]_vars
           => [][row[BatchOf[f]] = "archived" /\ row'[BatchOf[f]] = "gone" /\ row[f] # "none"
                   => f \notin blob]_vars
<1>1. Init => TidyInv /\ KeptInv(f)
  BY DEF Init, Quiet, TidyInv, KeptInv, Procs
<1>2. IInv /\ TidyInv /\ KeptInv(f) /\ [Next]_vars /\ [~Forgotten(f)]_vars => (TidyInv /\ KeptInv(f))'
  <2> SUFFICES ASSUME IInv, TidyInv, KeptInv(f), [Next]_vars, [~Forgotten(f)]_vars
               PROVE  TidyInv' /\ KeptInv(f)'
    OBVIOUS
  <2>1. TidyInv'
    BY TidyStep DEF IInv
  <2>2. CASE ~Forgotten(f)
    BY <2>1, <2>2, KeptStep
  <2>3. CASE UNCHANGED vars
    BY <2>1, <2>3 DEF vars, KeptInv, Awaited, Listed, LinkWanted
  <2> QED
    BY <2>2, <2>3
<1>3. IInv /\ KeptInv(f) /\ [Next]_vars
        => [row[BatchOf[f]] = "archived" /\ row'[BatchOf[f]] = "gone" /\ row[f] # "none"
              => f \notin blob]_vars
  BY PurgeStep DEF IInv
<1> QED
  BY <1>1, <1>2, <1>3, Invariant, PTL DEF Spec
=============================================================================
