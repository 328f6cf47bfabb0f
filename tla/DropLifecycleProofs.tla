------------------------- MODULE DropLifecycleProofs -------------------------
(***************************************************************************)
(* The safety of DropLifecycle for any drops, submissions, files and       *)
(* requests: types, that nothing is swept before its drop expires, and     *)
(* that whatever the inbox lists is on disk.                               *)
(***************************************************************************)
EXTENDS DropLifecycle, TLAPS

(* Every step keeps every variable in its type. *)
LEMMA TypeStep ==
  TypeOK /\ [Next]_vars => TypeOK'
<1> SUFFICES ASSUME TypeOK, [Next]_vars PROVE TypeOK'
  OBVIOUS
<1> USE DEF TypeOK, Rows, GatePhases, UploadPhases, DeletePhases, SweepPhases, link,
     sending, deleting, sweeping
<1>1. ASSUME NEW d \in Drops, CreateDrop(d) PROVE TypeOK'
  BY <1>1, DropAssumption DEF CreateDrop, SetRows, Things
<1>2. ASSUME NEW d \in Drops, Close(d) PROVE TypeOK'
  BY <1>2, DropAssumption DEF Close, Exists, Things
<1>3. ASSUME NEW d \in Drops, DeleteOwner(d) PROVE TypeOK'
  BY <1>3, DropAssumption DEF DeleteOwner, SetRows, Things, Cascade, Exists, Under,
     SentTo, DropFor
<1>4. ASSUME NEW d \in Drops, Expire(d) PROVE TypeOK'
  BY <1>4, DropAssumption DEF Expire, Exists, Things
<1>5. ASSUME NEW s \in Submissions, AskSubmission(s) PROVE TypeOK'
  BY <1>5, DropAssumption DEF AskSubmission, Things
<1>6. ASSUME NEW s \in Submissions, OpenSubmission(s) PROVE TypeOK'
  BY <1>6, DropAssumption DEF OpenSubmission, SetRows, Things, Exists
<1>7. ASSUME NEW s \in Submissions, RefuseSubmission(s) PROVE TypeOK'
  BY <1>7, DropAssumption DEF RefuseSubmission, Things
<1>8. ASSUME NEW f \in Files, Begin(f) PROVE TypeOK'
  BY <1>8, DropAssumption DEF Begin, Things
<1>9. ASSUME NEW f \in Files, WriteBlob(f) PROVE TypeOK'
  BY <1>9, DropAssumption DEF WriteBlob, Things
<1>10. ASSUME NEW f \in Files, Insert(f) PROVE TypeOK'
  BY <1>10, DropAssumption DEF Insert, SetRows, Things, Exists
<1>11. ASSUME NEW f \in Files, InsertFails(f) PROVE TypeOK'
  BY <1>11, DropAssumption DEF InsertFails, Things
<1>12. ASSUME NEW f \in Files, RemoveOwn(f) PROVE TypeOK'
  BY <1>12, DropAssumption DEF RemoveOwn, Things
<1>13. ASSUME NEW o \in Deleters, DeleteFiles(o) PROVE TypeOK'
  BY <1>13, DropAssumption DEF DeleteFiles, SetRows, Things, SentTo, Exists
<1>14. ASSUME NEW o \in Deleters, DeleteDrop(o) PROVE TypeOK'
  BY <1>14, DropAssumption DEF DeleteDrop, SetRows, Things, Cascade, Exists, Under,
     SentTo, DropFor
<1>15. ASSUME NEW o \in Deleters, NEW f \in Files, DeleteBlob(o, f) PROVE TypeOK'
  BY <1>15, DropAssumption DEF DeleteBlob, Things
<1>16. ASSUME PurgeFiles PROVE TypeOK'
  BY <1>16, DropAssumption DEF PurgeFiles, SetRows, Things, Sweeping
<1>17. ASSUME SweepSubmissions PROVE TypeOK'
  BY <1>17, DropAssumption DEF SweepSubmissions, SetRows, Things, Sweeping, Live
<1>18. ASSUME PurgeSubmissions PROVE TypeOK'
  BY <1>18, DropAssumption DEF PurgeSubmissions, SetRows, Things, Sweeping, Exists
<1>19. ASSUME NEW s \in Submissions, SweepMembers(s) PROVE TypeOK'
  BY <1>19, DropAssumption DEF SweepMembers, SetRows, Things, Sweeping, Inside, Live
<1>20. ASSUME SweepFiles PROVE TypeOK'
  BY <1>20, DropAssumption DEF SweepFiles, SetRows, Things, Sweeping, Expired, Exists,
     Live
<1>21. ASSUME SweepBatches PROVE TypeOK'
  BY <1>21, DropAssumption DEF SweepBatches, SetRows, Things, Sweeping, Expired, Exists,
     Live
<1>22. ASSUME SweepDrops PROVE TypeOK'
  BY <1>22, DropAssumption DEF SweepDrops, SetRows, Things, Sweeping, Expired, Exists,
     Live
<1>23. ASSUME PurgeDrops PROVE TypeOK'
  BY <1>23, DropAssumption DEF PurgeDrops, SetRows, Things, Cascade, Exists, Under,
     SentTo, DropFor, Sweeping
<1>24. ASSUME NEW f \in Files, Unlink(f) PROVE TypeOK'
  BY <1>24, DropAssumption DEF Unlink, Things
<1>25. ASSUME SweepFails PROVE TypeOK'
  BY <1>25, DropAssumption DEF SweepFails, Things
<1>26. ASSUME NEW t \in Things, Age(t) PROVE TypeOK'
  BY <1>26, DropAssumption DEF Age, Things
<1>27. ASSUME UNCHANGED vars PROVE TypeOK'
  BY <1>27 DEF vars
<1> QED
  BY <1>1, <1>2, <1>3, <1>4, <1>5, <1>6, <1>7, <1>8, <1>9, <1>10, <1>11, <1>12, <1>13,
     <1>14, <1>15, <1>16, <1>17, <1>18, <1>19, <1>20, <1>21, <1>22, <1>23, <1>24, <1>25,
     <1>26, <1>27
     DEF Next, Visit, Send, Delete, Sweep

(* Only what belongs to an expired drop is archived. *)
LEMMA ExpiryStep ==
  TypeOK /\ ExpiryInv /\ [Next]_vars => ExpiryInv'
<1> SUFFICES ASSUME TypeOK, ExpiryInv, [Next]_vars PROVE ExpiryInv'
  OBVIOUS
<1> USE DEF TypeOK, ExpiryInv, Things, link, sending, deleting, sweeping
<1>1. ASSUME NEW d \in Drops, CreateDrop(d) PROVE ExpiryInv'
  BY <1>1, DropAssumption DEF CreateDrop, SetRows, Things, DropOfThing, DropFor
<1>2. ASSUME NEW d \in Drops, Close(d) PROVE ExpiryInv'
  BY <1>2, DropAssumption DEF Close, Exists, DropOfThing, DropFor
<1>3. ASSUME NEW d \in Drops, DeleteOwner(d) PROVE ExpiryInv'
  BY <1>3, DropAssumption DEF DeleteOwner, SetRows, Things, Cascade, Exists, Under,
     SentTo, DropFor, DropOfThing
<1>4. ASSUME NEW d \in Drops, Expire(d) PROVE ExpiryInv'
  BY <1>4, DropAssumption DEF Expire, Exists, DropOfThing, DropFor
<1>5. ASSUME NEW s \in Submissions, AskSubmission(s) PROVE ExpiryInv'
  BY <1>5, DropAssumption DEF AskSubmission, DropOfThing, DropFor
<1>6. ASSUME NEW s \in Submissions, OpenSubmission(s) PROVE ExpiryInv'
  BY <1>6, DropAssumption DEF OpenSubmission, SetRows, Things, Exists, DropOfThing,
     DropFor
<1>7. ASSUME NEW s \in Submissions, RefuseSubmission(s) PROVE ExpiryInv'
  BY <1>7, DropAssumption DEF RefuseSubmission, DropOfThing, DropFor
<1>8. ASSUME NEW f \in Files, Begin(f) PROVE ExpiryInv'
  BY <1>8, DropAssumption DEF Begin, DropOfThing, DropFor
<1>9. ASSUME NEW f \in Files, WriteBlob(f) PROVE ExpiryInv'
  BY <1>9, DropAssumption DEF WriteBlob, DropOfThing, DropFor
<1>10. ASSUME NEW f \in Files, Insert(f) PROVE ExpiryInv'
  BY <1>10, DropAssumption DEF Insert, SetRows, Things, Exists, DropOfThing, DropFor
<1>11. ASSUME NEW f \in Files, InsertFails(f) PROVE ExpiryInv'
  BY <1>11, DropAssumption DEF InsertFails, DropOfThing, DropFor
<1>12. ASSUME NEW f \in Files, RemoveOwn(f) PROVE ExpiryInv'
  BY <1>12, DropAssumption DEF RemoveOwn, DropOfThing, DropFor
<1>13. ASSUME NEW o \in Deleters, DeleteFiles(o) PROVE ExpiryInv'
  BY <1>13, DropAssumption DEF DeleteFiles, SetRows, Things, SentTo, Exists,
     DropOfThing, DropFor
<1>14. ASSUME NEW o \in Deleters, DeleteDrop(o) PROVE ExpiryInv'
  BY <1>14, DropAssumption DEF DeleteDrop, SetRows, Things, Cascade, Exists, Under,
     SentTo, DropFor, DropOfThing
<1>15. ASSUME NEW o \in Deleters, NEW f \in Files, DeleteBlob(o, f) PROVE ExpiryInv'
  BY <1>15, DropAssumption DEF DeleteBlob, DropOfThing, DropFor
<1>16. ASSUME PurgeFiles PROVE ExpiryInv'
  BY <1>16, DropAssumption DEF PurgeFiles, SetRows, Things, Sweeping, DropOfThing,
     DropFor
<1>17. ASSUME SweepSubmissions PROVE ExpiryInv'
  BY <1>17, DropAssumption DEF SweepSubmissions, SetRows, Things, Sweeping, Live,
     DropOfThing, DropFor
<1>18. ASSUME PurgeSubmissions PROVE ExpiryInv'
  BY <1>18, DropAssumption DEF PurgeSubmissions, SetRows, Things, Sweeping, Exists,
     DropOfThing, DropFor
<1>19. ASSUME NEW s \in Submissions, SweepMembers(s) PROVE ExpiryInv'
  BY <1>19, DropAssumption DEF SweepMembers, SetRows, Things, Sweeping, Inside, Live,
     DropOfThing, DropFor
<1>20. ASSUME SweepFiles PROVE ExpiryInv'
  BY <1>20, DropAssumption DEF SweepFiles, SetRows, Things, Sweeping, Expired, Exists,
     Live, DropOfThing, DropFor
<1>21. ASSUME SweepBatches PROVE ExpiryInv'
  BY <1>21, DropAssumption DEF SweepBatches, SetRows, Things, Sweeping, Expired, Exists,
     Live, DropOfThing, DropFor
<1>22. ASSUME SweepDrops PROVE ExpiryInv'
  BY <1>22, DropAssumption DEF SweepDrops, SetRows, Things, Sweeping, Expired, Exists,
     Live, DropOfThing, DropFor
<1>23. ASSUME PurgeDrops PROVE ExpiryInv'
  BY <1>23, DropAssumption DEF PurgeDrops, SetRows, Things, Cascade, Exists, Under,
     SentTo, DropFor, Sweeping, DropOfThing
<1>24. ASSUME NEW f \in Files, Unlink(f) PROVE ExpiryInv'
  BY <1>24, DropAssumption DEF Unlink, DropOfThing, DropFor
<1>25. ASSUME SweepFails PROVE ExpiryInv'
  BY <1>25, DropAssumption DEF SweepFails, DropOfThing, DropFor
<1>26. ASSUME NEW t \in Things, Age(t) PROVE ExpiryInv'
  BY <1>26, DropAssumption DEF Age, DropOfThing, DropFor
<1>27. ASSUME UNCHANGED vars PROVE ExpiryInv'
  BY <1>27 DEF vars
<1> QED
  BY <1>1, <1>2, <1>3, <1>4, <1>5, <1>6, <1>7, <1>8, <1>9, <1>10, <1>11, <1>12, <1>13,
     <1>14, <1>15, <1>16, <1>17, <1>18, <1>19, <1>20, <1>21, <1>22, <1>23, <1>24, <1>25,
     <1>26, <1>27
     DEF Next, Visit, Send, Delete, Sweep

(* Blobs are written before their rows and unlinked after them. *)
LEMMA BlobStep ==
  TypeOK /\ BlobInv /\ [Next]_vars => BlobInv'
<1> SUFFICES ASSUME TypeOK, BlobInv, [Next]_vars PROVE BlobInv'
  OBVIOUS
<1> USE DEF TypeOK, BlobInv, UploadPhases, Rows, Removed, Things, link, sending, deleting,
     sweeping
<1>1. ASSUME NEW d \in Drops, CreateDrop(d) PROVE BlobInv'
  BY <1>1, DropAssumption DEF CreateDrop, SetRows, Things
<1>2. ASSUME NEW d \in Drops, Close(d) PROVE BlobInv'
  BY <1>2, DropAssumption DEF Close, Exists
<1>3. ASSUME NEW d \in Drops, DeleteOwner(d) PROVE BlobInv'
  BY <1>3, DropAssumption DEF DeleteOwner, SetRows, Things, Cascade, Exists, Under,
     SentTo, DropFor
<1>4. ASSUME NEW d \in Drops, Expire(d) PROVE BlobInv'
  BY <1>4, DropAssumption DEF Expire, Exists
<1>5. ASSUME NEW s \in Submissions, AskSubmission(s) PROVE BlobInv'
  BY <1>5, DropAssumption DEF AskSubmission
<1>6. ASSUME NEW s \in Submissions, OpenSubmission(s) PROVE BlobInv'
  BY <1>6, DropAssumption DEF OpenSubmission, SetRows, Things, Exists
<1>7. ASSUME NEW s \in Submissions, RefuseSubmission(s) PROVE BlobInv'
  BY <1>7, DropAssumption DEF RefuseSubmission
<1>8. ASSUME NEW f \in Files, Begin(f) PROVE BlobInv'
  BY <1>8, DropAssumption DEF Begin
<1>9. ASSUME NEW f \in Files, WriteBlob(f) PROVE BlobInv'
  BY <1>9, DropAssumption DEF WriteBlob
<1>10. ASSUME NEW f \in Files, Insert(f) PROVE BlobInv'
  BY <1>10, DropAssumption DEF Insert, SetRows, Things, Exists
<1>11. ASSUME NEW f \in Files, InsertFails(f) PROVE BlobInv'
  BY <1>11, DropAssumption DEF InsertFails
<1>12. ASSUME NEW f \in Files, RemoveOwn(f) PROVE BlobInv'
  BY <1>12, DropAssumption DEF RemoveOwn
<1>13. ASSUME NEW o \in Deleters, DeleteFiles(o) PROVE BlobInv'
  BY <1>13, DropAssumption DEF DeleteFiles, SetRows, Things, SentTo, Exists
<1>14. ASSUME NEW o \in Deleters, DeleteDrop(o) PROVE BlobInv'
  BY <1>14, DropAssumption DEF DeleteDrop, SetRows, Things, Cascade, Exists, Under,
     SentTo, DropFor
<1>15. ASSUME NEW o \in Deleters, NEW f \in Files, DeleteBlob(o, f) PROVE BlobInv'
  BY <1>15, DropAssumption DEF DeleteBlob
<1>16. ASSUME PurgeFiles PROVE BlobInv'
  BY <1>16, DropAssumption DEF PurgeFiles, SetRows, Things, Sweeping
<1>17. ASSUME SweepSubmissions PROVE BlobInv'
  BY <1>17, DropAssumption DEF SweepSubmissions, SetRows, Things, Sweeping, Live
<1>18. ASSUME PurgeSubmissions PROVE BlobInv'
  BY <1>18, DropAssumption DEF PurgeSubmissions, SetRows, Things, Sweeping, Exists
<1>19. ASSUME NEW s \in Submissions, SweepMembers(s) PROVE BlobInv'
  BY <1>19, DropAssumption DEF SweepMembers, SetRows, Things, Sweeping, Inside, Live
<1>20. ASSUME SweepFiles PROVE BlobInv'
  BY <1>20, DropAssumption DEF SweepFiles, SetRows, Things, Sweeping, Expired, Exists,
     Live
<1>21. ASSUME SweepBatches PROVE BlobInv'
  BY <1>21, DropAssumption DEF SweepBatches, SetRows, Things, Sweeping, Expired, Exists,
     Live
<1>22. ASSUME SweepDrops PROVE BlobInv'
  BY <1>22, DropAssumption DEF SweepDrops, SetRows, Things, Sweeping, Expired, Exists,
     Live
<1>23. ASSUME PurgeDrops PROVE BlobInv'
  BY <1>23, DropAssumption DEF PurgeDrops, SetRows, Things, Cascade, Exists, Under,
     SentTo, DropFor, Sweeping
<1>24. ASSUME NEW f \in Files, Unlink(f) PROVE BlobInv'
  BY <1>24, DropAssumption DEF Unlink
<1>25. ASSUME SweepFails PROVE BlobInv'
  BY <1>25, DropAssumption DEF SweepFails
<1>26. ASSUME NEW t \in Things, Age(t) PROVE BlobInv'
  BY <1>26, DropAssumption DEF Age
<1>27. ASSUME UNCHANGED vars PROVE BlobInv'
  BY <1>27 DEF vars
<1> QED
  BY <1>1, <1>2, <1>3, <1>4, <1>5, <1>6, <1>7, <1>8, <1>9, <1>10, <1>11, <1>12, <1>13,
     <1>14, <1>15, <1>16, <1>17, <1>18, <1>19, <1>20, <1>21, <1>22, <1>23, <1>24, <1>25,
     <1>26, <1>27
     DEF Next, Visit, Send, Delete, Sweep

(* What KeptUntilExpiry asks of one step. *)
KeptStep ==
  \A t \in Things :
    row'[t] \in {"archived", "purged"} /\ row'[t] # row[t] => DropOfThing(t) \in dead

(* No step archives or purges anything of a drop that has not expired. *)
LEMMA KeptByStep ==
  TypeOK /\ ExpiryInv /\ [Next]_vars => KeptStep
<1> SUFFICES ASSUME TypeOK, ExpiryInv, [Next]_vars PROVE KeptStep
  OBVIOUS
<1> USE DEF TypeOK, ExpiryInv, KeptStep, Things, link, sending, deleting, sweeping
<1>1. ASSUME NEW d \in Drops, CreateDrop(d) PROVE KeptStep
  BY <1>1, DropAssumption DEF CreateDrop, SetRows, Things, DropOfThing, DropFor
<1>2. ASSUME NEW d \in Drops, Close(d) PROVE KeptStep
  BY <1>2, DropAssumption DEF Close, Exists, DropOfThing, DropFor
<1>3. ASSUME NEW d \in Drops, DeleteOwner(d) PROVE KeptStep
  BY <1>3, DropAssumption DEF DeleteOwner, SetRows, Things, Cascade, Exists, Under,
     SentTo, DropFor, DropOfThing
<1>4. ASSUME NEW d \in Drops, Expire(d) PROVE KeptStep
  BY <1>4, DropAssumption DEF Expire, Exists, DropOfThing, DropFor
<1>5. ASSUME NEW s \in Submissions, AskSubmission(s) PROVE KeptStep
  BY <1>5, DropAssumption DEF AskSubmission, DropOfThing, DropFor
<1>6. ASSUME NEW s \in Submissions, OpenSubmission(s) PROVE KeptStep
  BY <1>6, DropAssumption DEF OpenSubmission, SetRows, Things, Exists, DropOfThing,
     DropFor
<1>7. ASSUME NEW s \in Submissions, RefuseSubmission(s) PROVE KeptStep
  BY <1>7, DropAssumption DEF RefuseSubmission, DropOfThing, DropFor
<1>8. ASSUME NEW f \in Files, Begin(f) PROVE KeptStep
  BY <1>8, DropAssumption DEF Begin, DropOfThing, DropFor
<1>9. ASSUME NEW f \in Files, WriteBlob(f) PROVE KeptStep
  BY <1>9, DropAssumption DEF WriteBlob, DropOfThing, DropFor
<1>10. ASSUME NEW f \in Files, Insert(f) PROVE KeptStep
  BY <1>10, DropAssumption DEF Insert, SetRows, Things, Exists, DropOfThing, DropFor
<1>11. ASSUME NEW f \in Files, InsertFails(f) PROVE KeptStep
  BY <1>11, DropAssumption DEF InsertFails, DropOfThing, DropFor
<1>12. ASSUME NEW f \in Files, RemoveOwn(f) PROVE KeptStep
  BY <1>12, DropAssumption DEF RemoveOwn, DropOfThing, DropFor
<1>13. ASSUME NEW o \in Deleters, DeleteFiles(o) PROVE KeptStep
  BY <1>13, DropAssumption DEF DeleteFiles, SetRows, Things, SentTo, Exists,
     DropOfThing, DropFor
<1>14. ASSUME NEW o \in Deleters, DeleteDrop(o) PROVE KeptStep
  BY <1>14, DropAssumption DEF DeleteDrop, SetRows, Things, Cascade, Exists, Under,
     SentTo, DropFor, DropOfThing
<1>15. ASSUME NEW o \in Deleters, NEW f \in Files, DeleteBlob(o, f) PROVE KeptStep
  BY <1>15, DropAssumption DEF DeleteBlob, DropOfThing, DropFor
<1>16. ASSUME PurgeFiles PROVE KeptStep
  BY <1>16, DropAssumption DEF PurgeFiles, SetRows, Things, Sweeping, DropOfThing,
     DropFor
<1>17. ASSUME SweepSubmissions PROVE KeptStep
  BY <1>17, DropAssumption DEF SweepSubmissions, SetRows, Things, Sweeping, Live,
     DropOfThing, DropFor
<1>18. ASSUME PurgeSubmissions PROVE KeptStep
  BY <1>18, DropAssumption DEF PurgeSubmissions, SetRows, Things, Sweeping, Exists,
     DropOfThing, DropFor
<1>19. ASSUME NEW s \in Submissions, SweepMembers(s) PROVE KeptStep
  BY <1>19, DropAssumption DEF SweepMembers, SetRows, Things, Sweeping, Inside, Live,
     DropOfThing, DropFor
<1>20. ASSUME SweepFiles PROVE KeptStep
  BY <1>20, DropAssumption DEF SweepFiles, SetRows, Things, Sweeping, Expired, Exists,
     Live, DropOfThing, DropFor
<1>21. ASSUME SweepBatches PROVE KeptStep
  BY <1>21, DropAssumption DEF SweepBatches, SetRows, Things, Sweeping, Expired, Exists,
     Live, DropOfThing, DropFor
<1>22. ASSUME SweepDrops PROVE KeptStep
  BY <1>22, DropAssumption DEF SweepDrops, SetRows, Things, Sweeping, Expired, Exists,
     Live, DropOfThing, DropFor
<1>23. ASSUME PurgeDrops PROVE KeptStep
  BY <1>23, DropAssumption DEF PurgeDrops, SetRows, Things, Cascade, Exists, Under,
     SentTo, DropFor, Sweeping, DropOfThing
<1>24. ASSUME NEW f \in Files, Unlink(f) PROVE KeptStep
  BY <1>24, DropAssumption DEF Unlink, DropOfThing, DropFor
<1>25. ASSUME SweepFails PROVE KeptStep
  BY <1>25, DropAssumption DEF SweepFails, DropOfThing, DropFor
<1>26. ASSUME NEW t \in Things, Age(t) PROVE KeptStep
  BY <1>26, DropAssumption DEF Age, DropOfThing, DropFor
<1>27. ASSUME UNCHANGED vars PROVE KeptStep
  BY <1>27 DEF vars
<1> QED
  BY <1>1, <1>2, <1>3, <1>4, <1>5, <1>6, <1>7, <1>8, <1>9, <1>10, <1>11, <1>12, <1>13,
     <1>14, <1>15, <1>16, <1>17, <1>18, <1>19, <1>20, <1>21, <1>22, <1>23, <1>24, <1>25,
     <1>26, <1>27
     DEF Next, Visit, Send, Delete, Sweep

(* Initially there is nothing. *)
LEMMA InitInvariant == Init => IInv
BY DropAssumption
   DEF Init, IInv, TypeOK, ExpiryInv, BlobInv, Things, Rows, GatePhases, UploadPhases,
       DeletePhases, SweepPhases

(* The three parts are preserved together. *)
LEMMA NextInvariant == IInv /\ [Next]_vars => IInv'
BY TypeStep, ExpiryStep, BlobStep DEF IInv

(* The inductive invariant holds in every reachable state. *)
THEOREM Invariant == Spec => []IInv
BY InitInvariant, NextInvariant, PTL DEF Spec

(* Every variable keeps its type. *)
THEOREM TypeCorrect == Spec => []TypeOK
<1>1. IInv => TypeOK
  BY DEF IInv
<1> QED
  BY <1>1, Invariant, PTL

(* What the owner's inbox lists can be downloaded. *)
THEOREM InboxSafe == Spec => []InboxHasBlob
<1>1. IInv => InboxHasBlob
  BY DEF IInv, BlobInv, InboxHasBlob
<1> QED
  BY <1>1, Invariant, PTL

(* Closing a drop destroys nothing: nothing of a drop is archived or purged
   before it expires.                                                       *)
THEOREM KeptSafe == Spec => KeptUntilExpiry
<1>1. IInv /\ [Next]_vars => [KeptStep]_vars
  BY KeptByStep DEF IInv
<1>2. KeptUntilExpiry <=> [][KeptStep]_vars
  BY PTL DEF KeptUntilExpiry, KeptStep
<1> QED
  BY <1>1, <1>2, Invariant, PTL DEF Spec

=============================================================================
