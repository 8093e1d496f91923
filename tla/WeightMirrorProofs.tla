------------------------- MODULE WeightMirrorProofs -------------------------
(***************************************************************************)
(* Theorems about WeightMirror, for every set of repos, revisions, blobs   *)
(* and links.  Each rests on an inductive invariant, whose proof has one   *)
(* step per action of the specification.                                   *)
(***************************************************************************)
EXTENDS WeightMirror, FiniteSetTheorems, TLAPS

-----------------------------------------------------------------------------
(* Type correctness.                                                        *)

LEMMA InitType == Init => TypeOK
<1> SUFFICES ASSUME Init PROVE TypeOK
  OBVIOUS
<1> USE DEF Init, Paths, Files, Groups
<1>1. DesktopType
  BY DEF DesktopType, Contents
<1>2. MirrorType
  BY DEF MirrorType, Contents
<1>3. SyncType
  BY DEF SyncType
<1>4. PruneType /\ HistoryType
  BY DEF PruneType, HistoryType
<1> QED
  BY <1>1, <1>2, <1>3, <1>4 DEF TypeOK

LEMMA StepType == TypeOK /\ [Next]_vars => TypeOK'
<1> SUFFICES ASSUME TypeOK, [Next]_vars PROVE TypeOK'
  OBVIOUS
<1> USE ShapeAssumption, FaultsAssumption
        DEF TypeOK, DesktopType, MirrorType, SyncType, PruneType, HistoryType,
            Paths, Files, Groups,
            source, mirror, records, run, copying, outcome, prune, history
<1>1. ASSUME NEW v \in Revs, Publish(v) PROVE TypeOK'
  BY <1>1 DEF Publish, DesktopOnly, LinksOf, Contents
<1>2. ASSUME NEW v \in Revs, DeleteRevision(v) PROVE TypeOK'
  BY <1>2 DEF DeleteRevision, DesktopOnly, LinksOf
<1>3. ASSUME NEW f \in Files, ChangeContent(f) PROVE TypeOK'
  BY <1>3 DEF ChangeContent, DesktopOnly, Contents
<1>4. ASSUME NEW f \in Files, ChangeMode(f) PROVE TypeOK'
  BY <1>4 DEF ChangeMode, DesktopOnly
<1>5. ASSUME NEW a \in Adapters, ChangeAdapters(a) PROVE TypeOK'
  BY <1>5 DEF ChangeAdapters, DesktopOnly
<1>6. ASSUME NEW p \in HandPaths, HandPut(p) PROVE TypeOK'
  BY <1>6 DEF HandPut, Contents
<1>7. ASSUME SyncLock PROVE TypeOK'
  BY <1>7 DEF SyncLock
<1>8. ASSUME NEW gs \in Asked, SyncPlan(gs) PROVE TypeOK'
  BY <1>8 DEF SyncPlan
<1>9. ASSUME NEW r \in Repos, StartBlobs(r) PROVE TypeOK'
  BY <1>9 DEF StartBlobs, BlobsBehind, Of
<1>10. ASSUME StartAdapters PROVE TypeOK'
  BY <1>10 DEF StartAdapters, OthersBehind, Of
<1>11. ASSUME NEW p \in Paths, CopyBlob(p) PROVE TypeOK'
  BY <1>11 DEF CopyBlob
<1>12. ASSUME NEW p \in Paths, CopyOther(p) PROVE TypeOK'
  BY <1>12 DEF CopyOther
<1>13. ASSUME NEW p \in Paths, CannotRead(p) PROVE TypeOK'
  BY <1>13 DEF CannotRead
<1>14. ASSUME BlobsFailed PROVE TypeOK'
  BY <1>14 DEF BlobsFailed, NextGroup
<1>15. ASSUME HashGood PROVE TypeOK'
  BY <1>15 DEF HashGood, BadBlobs, OthersBehind, Of
<1>16. ASSUME HashBad PROVE TypeOK'
  BY <1>16 DEF HashBad, NextGroup, BadBlobs
<1>17. ASSUME OthersDone PROVE TypeOK'
  BY <1>17 DEF OthersDone, NextGroup
<1>18. ASSUME MergeManifest PROVE TypeOK'
  BY <1>18 DEF MergeManifest
<1>19. ASSUME PublishManifest PROVE TypeOK'
  BY <1>19 DEF PublishManifest, Gone, NoFile
<1>20. ASSUME LostManifest PROVE TypeOK'
  BY <1>20 DEF LostManifest, Gone
<1>21. ASSUME SyncRefuse PROVE TypeOK'
  BY <1>21 DEF SyncRefuse, Gone
<1>22. ASSUME Disconnect PROVE TypeOK'
  BY <1>22 DEF Disconnect
<1>23. ASSUME KillSync PROVE TypeOK'
  BY <1>23 DEF KillSync, Gone
<1>24. ASSUME PruneList PROVE TypeOK'
  BY <1>24 DEF PruneList, SyncUntouched
<1>25. ASSUME PruneMark PROVE TypeOK'
  BY <1>25 DEF PruneMark, SyncUntouched
<1>26. ASSUME NothingStale PROVE TypeOK'
  BY <1>26 DEF NothingStale, SyncUntouched, PruneOver
<1>27. ASSUME PruneManifest PROVE TypeOK'
  BY <1>27 DEF PruneManifest, SyncUntouched
<1>28. ASSUME PrunePublish PROVE TypeOK'
  BY <1>28 DEF PrunePublish, SyncUntouched, PruneOver, NoFile
<1>29. ASSUME KillPrune PROVE TypeOK'
  BY <1>29 DEF KillPrune, SyncUntouched, PruneOver
<1>30. ASSUME NEW p \in Paths, PruneDelete(p) PROVE TypeOK'
  BY <1>30 DEF PruneDelete, SyncUntouched
<1>31. CASE UNCHANGED vars
  BY <1>31 DEF vars
<1> QED
  BY <1>1, <1>2, <1>3, <1>4, <1>5, <1>6, <1>7, <1>8, <1>9, <1>10, <1>11, <1>12, <1>13, <1>14,
     <1>15, <1>16, <1>17, <1>18, <1>19, <1>20, <1>21, <1>22, <1>23, <1>24, <1>25, <1>26, <1>27,
     <1>28, <1>29, <1>30, <1>31
     DEF Next, Desktop, Sync, SyncStep, Prune

\* The variables keep their types.
THEOREM TypeCorrect == Spec => []TypeOK
<1> QED
  BY InitType, StepType, PTL DEF Spec

-----------------------------------------------------------------------------
(* Only what a sync wrote is ever removed: the manifest, the list prune     *)
(* deletes from and what quarantine takes away hold nothing else.           *)

WrittenInv ==
    /\ manifest \cup manifestNew \subseteq written
    /\ manifestTmp # NoFile => manifestTmp \subseteq written
    /\ doomed \subseteq written
    /\ pc = "blobs" => new \subseteq written

LEMMA StepWritten == WrittenInv /\ [Next]_vars => WrittenInv'
<1> SUFFICES ASSUME WrittenInv, [Next]_vars PROVE WrittenInv'
  OBVIOUS
<1> USE DEF WrittenInv, source, mirror, records, run, copying, outcome, prune, history
<1>1. ASSUME NEW v \in Revs, Publish(v) PROVE WrittenInv'
  BY <1>1 DEF Publish, DesktopOnly
<1>2. ASSUME NEW v \in Revs, DeleteRevision(v) PROVE WrittenInv'
  BY <1>2 DEF DeleteRevision, DesktopOnly
<1>3. ASSUME NEW f \in Files, ChangeContent(f) PROVE WrittenInv'
  BY <1>3 DEF ChangeContent, DesktopOnly
<1>4. ASSUME NEW f \in Files, ChangeMode(f) PROVE WrittenInv'
  BY <1>4 DEF ChangeMode, DesktopOnly
<1>5. ASSUME NEW a \in Adapters, ChangeAdapters(a) PROVE WrittenInv'
  BY <1>5 DEF ChangeAdapters, DesktopOnly
<1>6. ASSUME NEW p \in HandPaths, HandPut(p) PROVE WrittenInv'
  BY <1>6 DEF HandPut
<1>7. ASSUME SyncLock PROVE WrittenInv'
  BY <1>7 DEF SyncLock
<1>8. ASSUME NEW gs \in Asked, SyncPlan(gs) PROVE WrittenInv'
  BY <1>8 DEF SyncPlan
<1>9. ASSUME NEW r \in Repos, StartBlobs(r) PROVE WrittenInv'
  BY <1>9 DEF StartBlobs
<1>10. ASSUME StartAdapters PROVE WrittenInv'
  BY <1>10 DEF StartAdapters
<1>11. ASSUME NEW p \in Paths, CopyBlob(p) PROVE WrittenInv'
  BY <1>11 DEF CopyBlob
<1>12. ASSUME NEW p \in Paths, CopyOther(p) PROVE WrittenInv'
  BY <1>12 DEF CopyOther
<1>13. ASSUME NEW p \in Paths, CannotRead(p) PROVE WrittenInv'
  BY <1>13 DEF CannotRead
<1>14. ASSUME BlobsFailed PROVE WrittenInv'
  BY <1>14 DEF BlobsFailed, NextGroup
<1>15. ASSUME HashGood PROVE WrittenInv'
  BY <1>15 DEF HashGood, BadBlobs
<1>16. ASSUME HashBad PROVE WrittenInv'
  BY <1>16 DEF HashBad, NextGroup, BadBlobs
<1>17. ASSUME OthersDone PROVE WrittenInv'
  BY <1>17 DEF OthersDone, NextGroup
<1>18. ASSUME MergeManifest PROVE WrittenInv'
  BY <1>18 DEF MergeManifest
<1>19. ASSUME PublishManifest PROVE WrittenInv'
  BY <1>19 DEF PublishManifest, Gone
<1>20. ASSUME LostManifest PROVE WrittenInv'
  BY <1>20 DEF LostManifest, Gone
<1>21. ASSUME SyncRefuse PROVE WrittenInv'
  BY <1>21 DEF SyncRefuse, Gone
<1>22. ASSUME Disconnect PROVE WrittenInv'
  BY <1>22 DEF Disconnect
<1>23. ASSUME KillSync PROVE WrittenInv'
  BY <1>23 DEF KillSync, Gone
<1>24. ASSUME PruneList PROVE WrittenInv'
  BY <1>24 DEF PruneList, SyncUntouched
<1>25. ASSUME PruneMark PROVE WrittenInv'
  BY <1>25 DEF PruneMark, SyncUntouched
<1>26. ASSUME NothingStale PROVE WrittenInv'
  BY <1>26 DEF NothingStale, SyncUntouched, PruneOver
<1>27. ASSUME PruneManifest PROVE WrittenInv'
  BY <1>27 DEF PruneManifest, SyncUntouched
<1>28. ASSUME PrunePublish PROVE WrittenInv'
  BY <1>28 DEF PrunePublish, SyncUntouched, PruneOver
<1>29. ASSUME KillPrune PROVE WrittenInv'
  BY <1>29 DEF KillPrune, SyncUntouched, PruneOver
<1>30. ASSUME NEW p \in Paths, PruneDelete(p) PROVE WrittenInv'
  BY <1>30 DEF PruneDelete, SyncUntouched
<1>31. CASE UNCHANGED vars
  BY <1>31 DEF vars
<1> QED
  BY <1>1, <1>2, <1>3, <1>4, <1>5, <1>6, <1>7, <1>8, <1>9, <1>10, <1>11, <1>12, <1>13, <1>14,
     <1>15, <1>16, <1>17, <1>18, <1>19, <1>20, <1>21, <1>22, <1>23, <1>24, <1>25, <1>26, <1>27,
     <1>28, <1>29, <1>30, <1>31
     DEF Next, Desktop, Sync, SyncStep, Prune

LEMMA RemovesStep == WrittenInv /\ [Next]_vars => have \ have' \subseteq written
<1> SUFFICES ASSUME WrittenInv, [Next]_vars PROVE have \ have' \subseteq written
  OBVIOUS
<1> USE DEF WrittenInv, source, mirror, records, run, copying, outcome, prune, history
<1>1. ASSUME NEW v \in Revs, Publish(v) PROVE have \ have' \subseteq written
  BY <1>1 DEF Publish, DesktopOnly
<1>2. ASSUME NEW v \in Revs, DeleteRevision(v) PROVE have \ have' \subseteq written
  BY <1>2 DEF DeleteRevision, DesktopOnly
<1>3. ASSUME NEW f \in Files, ChangeContent(f) PROVE have \ have' \subseteq written
  BY <1>3 DEF ChangeContent, DesktopOnly
<1>4. ASSUME NEW f \in Files, ChangeMode(f) PROVE have \ have' \subseteq written
  BY <1>4 DEF ChangeMode, DesktopOnly
<1>5. ASSUME NEW a \in Adapters, ChangeAdapters(a) PROVE have \ have' \subseteq written
  BY <1>5 DEF ChangeAdapters, DesktopOnly
<1>6. ASSUME NEW p \in HandPaths, HandPut(p) PROVE have \ have' \subseteq written
  BY <1>6 DEF HandPut
<1>7. ASSUME SyncLock PROVE have \ have' \subseteq written
  BY <1>7 DEF SyncLock
<1>8. ASSUME NEW gs \in Asked, SyncPlan(gs) PROVE have \ have' \subseteq written
  BY <1>8 DEF SyncPlan
<1>9. ASSUME NEW r \in Repos, StartBlobs(r) PROVE have \ have' \subseteq written
  BY <1>9 DEF StartBlobs
<1>10. ASSUME StartAdapters PROVE have \ have' \subseteq written
  BY <1>10 DEF StartAdapters
<1>11. ASSUME NEW p \in Paths, CopyBlob(p) PROVE have \ have' \subseteq written
  BY <1>11 DEF CopyBlob
<1>12. ASSUME NEW p \in Paths, CopyOther(p) PROVE have \ have' \subseteq written
  BY <1>12 DEF CopyOther
<1>13. ASSUME NEW p \in Paths, CannotRead(p) PROVE have \ have' \subseteq written
  BY <1>13 DEF CannotRead
<1>14. ASSUME BlobsFailed PROVE have \ have' \subseteq written
  BY <1>14 DEF BlobsFailed, NextGroup
<1>15. ASSUME HashGood PROVE have \ have' \subseteq written
  BY <1>15 DEF HashGood, BadBlobs
<1>16. ASSUME HashBad PROVE have \ have' \subseteq written
  BY <1>16 DEF HashBad, NextGroup, BadBlobs
<1>17. ASSUME OthersDone PROVE have \ have' \subseteq written
  BY <1>17 DEF OthersDone, NextGroup
<1>18. ASSUME MergeManifest PROVE have \ have' \subseteq written
  BY <1>18 DEF MergeManifest
<1>19. ASSUME PublishManifest PROVE have \ have' \subseteq written
  BY <1>19 DEF PublishManifest, Gone
<1>20. ASSUME LostManifest PROVE have \ have' \subseteq written
  BY <1>20 DEF LostManifest, Gone
<1>21. ASSUME SyncRefuse PROVE have \ have' \subseteq written
  BY <1>21 DEF SyncRefuse, Gone
<1>22. ASSUME Disconnect PROVE have \ have' \subseteq written
  BY <1>22 DEF Disconnect
<1>23. ASSUME KillSync PROVE have \ have' \subseteq written
  BY <1>23 DEF KillSync, Gone
<1>24. ASSUME PruneList PROVE have \ have' \subseteq written
  BY <1>24 DEF PruneList, SyncUntouched
<1>25. ASSUME PruneMark PROVE have \ have' \subseteq written
  BY <1>25 DEF PruneMark, SyncUntouched
<1>26. ASSUME NothingStale PROVE have \ have' \subseteq written
  BY <1>26 DEF NothingStale, SyncUntouched, PruneOver
<1>27. ASSUME PruneManifest PROVE have \ have' \subseteq written
  BY <1>27 DEF PruneManifest, SyncUntouched
<1>28. ASSUME PrunePublish PROVE have \ have' \subseteq written
  BY <1>28 DEF PrunePublish, SyncUntouched, PruneOver
<1>29. ASSUME KillPrune PROVE have \ have' \subseteq written
  BY <1>29 DEF KillPrune, SyncUntouched, PruneOver
<1>30. ASSUME NEW p \in Paths, PruneDelete(p) PROVE have \ have' \subseteq written
  BY <1>30 DEF PruneDelete, SyncUntouched
<1>31. CASE UNCHANGED vars
  BY <1>31 DEF vars
<1> QED
  BY <1>1, <1>2, <1>3, <1>4, <1>5, <1>6, <1>7, <1>8, <1>9, <1>10, <1>11, <1>12, <1>13, <1>14,
     <1>15, <1>16, <1>17, <1>18, <1>19, <1>20, <1>21, <1>22, <1>23, <1>24, <1>25, <1>26, <1>27,
     <1>28, <1>29, <1>30, <1>31
     DEF Next, Desktop, Sync, SyncStep, Prune

\* No command removes from the mirror a path that no sync wrote.
THEOREM RemovesOnlyWrittenHolds == Spec => RemovesOnlyWritten
<1>1. Init => WrittenInv
  BY DEF Init, WrittenInv
<1>2. WrittenInv /\ [Next]_vars => [have \ have' \subseteq written]_vars
  BY RemovesStep
<1> QED
  BY <1>1, <1>2, StepWritten, PTL DEF Spec, RemovesOnlyWritten

-----------------------------------------------------------------------------
(* New snapshot entries never expose an unchecked blob of the same run.     *)

HashInv == pc = "others" => new \subseteq hashed

LEMMA StepHash == TypeOK /\ HashInv /\ [Next]_vars => HashInv'
<1> SUFFICES ASSUME TypeOK, HashInv, [Next]_vars PROVE HashInv'
  OBVIOUS
<1> USE PathsAssumption, FaultsAssumption
        DEF HashInv, TypeOK, DesktopType, MirrorType, SyncType, PruneType, HistoryType, Paths, Files,
            source, mirror, records, run, copying, outcome, prune, history
<1>1. ASSUME NEW v \in Revs, Publish(v) PROVE HashInv'
  BY <1>1 DEF Publish, DesktopOnly
<1>2. ASSUME NEW v \in Revs, DeleteRevision(v) PROVE HashInv'
  BY <1>2 DEF DeleteRevision, DesktopOnly
<1>3. ASSUME NEW f \in Files, ChangeContent(f) PROVE HashInv'
  BY <1>3 DEF ChangeContent, DesktopOnly
<1>4. ASSUME NEW f \in Files, ChangeMode(f) PROVE HashInv'
  BY <1>4 DEF ChangeMode, DesktopOnly
<1>5. ASSUME NEW a \in Adapters, ChangeAdapters(a) PROVE HashInv'
  BY <1>5 DEF ChangeAdapters, DesktopOnly
<1>6. ASSUME NEW p \in HandPaths, HandPut(p) PROVE HashInv'
  BY <1>6 DEF HandPut
<1>7. ASSUME SyncLock PROVE HashInv'
  BY <1>7 DEF SyncLock
<1>8. ASSUME NEW gs \in Asked, SyncPlan(gs) PROVE HashInv'
  BY <1>8 DEF SyncPlan
<1>9. ASSUME NEW r \in Repos, StartBlobs(r) PROVE HashInv'
  BY <1>9 DEF StartBlobs
<1>10. ASSUME StartAdapters PROVE HashInv'
  BY <1>10 DEF StartAdapters
<1>11. ASSUME NEW p \in Paths, CopyBlob(p) PROVE HashInv'
  BY <1>11 DEF CopyBlob
<1>12. ASSUME NEW p \in Paths, CopyOther(p) PROVE HashInv'
  BY <1>12 DEF CopyOther
<1>13. ASSUME NEW p \in Paths, CannotRead(p) PROVE HashInv'
  BY <1>13 DEF CannotRead
<1>14. ASSUME BlobsFailed PROVE HashInv'
  BY <1>14 DEF BlobsFailed, NextGroup
<1>15. ASSUME HashGood PROVE HashInv'
  BY <1>15 DEF HashGood, BadBlobs
<1>16. ASSUME HashBad PROVE HashInv'
  BY <1>16 DEF HashBad, NextGroup, BadBlobs
<1>17. ASSUME OthersDone PROVE HashInv'
  BY <1>17 DEF OthersDone, NextGroup
<1>18. ASSUME MergeManifest PROVE HashInv'
  BY <1>18 DEF MergeManifest
<1>19. ASSUME PublishManifest PROVE HashInv'
  BY <1>19 DEF PublishManifest, Gone
<1>20. ASSUME LostManifest PROVE HashInv'
  BY <1>20 DEF LostManifest, Gone
<1>21. ASSUME SyncRefuse PROVE HashInv'
  BY <1>21 DEF SyncRefuse, Gone
<1>22. ASSUME Disconnect PROVE HashInv'
  BY <1>22 DEF Disconnect
<1>23. ASSUME KillSync PROVE HashInv'
  BY <1>23 DEF KillSync, Gone
<1>24. ASSUME PruneList PROVE HashInv'
  BY <1>24 DEF PruneList, SyncUntouched
<1>25. ASSUME PruneMark PROVE HashInv'
  BY <1>25 DEF PruneMark, SyncUntouched
<1>26. ASSUME NothingStale PROVE HashInv'
  BY <1>26 DEF NothingStale, SyncUntouched, PruneOver
<1>27. ASSUME PruneManifest PROVE HashInv'
  BY <1>27 DEF PruneManifest, SyncUntouched
<1>28. ASSUME PrunePublish PROVE HashInv'
  BY <1>28 DEF PrunePublish, SyncUntouched, PruneOver
<1>29. ASSUME KillPrune PROVE HashInv'
  BY <1>29 DEF KillPrune, SyncUntouched, PruneOver
<1>30. ASSUME NEW p \in Paths, PruneDelete(p) PROVE HashInv'
  BY <1>30 DEF PruneDelete, SyncUntouched
<1>31. CASE UNCHANGED vars
  BY <1>31 DEF vars
<1> QED
  BY <1>1, <1>2, <1>3, <1>4, <1>5, <1>6, <1>7, <1>8, <1>9, <1>10, <1>11, <1>12, <1>13, <1>14,
     <1>15, <1>16, <1>17, <1>18, <1>19, <1>20, <1>21, <1>22, <1>23, <1>24, <1>25, <1>26, <1>27,
     <1>28, <1>29, <1>30, <1>31
     DEF Next, Desktop, Sync, SyncStep, Prune

LEMMA NewLinksStep ==
    TypeOK /\ HashInv /\ [Next]_vars
        => \A l \in Links : (l \in have' \ have /\ Target[l] \in new) => Target[l] \in hashed
<1> SUFFICES ASSUME TypeOK, HashInv, [Next]_vars, NEW l \in Links, l \in have' \ have,
                    Target[l] \in new
             PROVE  Target[l] \in hashed
  OBVIOUS
<1> USE PathsAssumption, FaultsAssumption
        DEF HashInv, TypeOK, DesktopType, MirrorType, SyncType, PruneType, HistoryType, source, mirror, records, run, copying, outcome, prune, history
<1>1. ASSUME NEW v \in Revs, Publish(v) PROVE Target[l] \in hashed
  BY <1>1 DEF Publish, DesktopOnly
<1>2. ASSUME NEW v \in Revs, DeleteRevision(v) PROVE Target[l] \in hashed
  BY <1>2 DEF DeleteRevision, DesktopOnly
<1>3. ASSUME NEW f \in Files, ChangeContent(f) PROVE Target[l] \in hashed
  BY <1>3 DEF ChangeContent, DesktopOnly
<1>4. ASSUME NEW f \in Files, ChangeMode(f) PROVE Target[l] \in hashed
  BY <1>4 DEF ChangeMode, DesktopOnly
<1>5. ASSUME NEW a \in Adapters, ChangeAdapters(a) PROVE Target[l] \in hashed
  BY <1>5 DEF ChangeAdapters, DesktopOnly
<1>6. ASSUME NEW p \in HandPaths, HandPut(p) PROVE Target[l] \in hashed
  BY <1>6 DEF HandPut
<1>7. ASSUME SyncLock PROVE Target[l] \in hashed
  BY <1>7 DEF SyncLock
<1>8. ASSUME NEW gs \in Asked, SyncPlan(gs) PROVE Target[l] \in hashed
  BY <1>8 DEF SyncPlan
<1>9. ASSUME NEW r \in Repos, StartBlobs(r) PROVE Target[l] \in hashed
  BY <1>9 DEF StartBlobs
<1>10. ASSUME StartAdapters PROVE Target[l] \in hashed
  BY <1>10 DEF StartAdapters
<1>11. ASSUME NEW p \in Paths, CopyBlob(p) PROVE Target[l] \in hashed
  BY <1>11 DEF CopyBlob
<1>12. ASSUME NEW p \in Paths, CopyOther(p) PROVE Target[l] \in hashed
  BY <1>12 DEF CopyOther
<1>13. ASSUME NEW p \in Paths, CannotRead(p) PROVE Target[l] \in hashed
  BY <1>13 DEF CannotRead
<1>14. ASSUME BlobsFailed PROVE Target[l] \in hashed
  BY <1>14 DEF BlobsFailed, NextGroup
<1>15. ASSUME HashGood PROVE Target[l] \in hashed
  BY <1>15 DEF HashGood, BadBlobs
<1>16. ASSUME HashBad PROVE Target[l] \in hashed
  BY <1>16 DEF HashBad, NextGroup, BadBlobs
<1>17. ASSUME OthersDone PROVE Target[l] \in hashed
  BY <1>17 DEF OthersDone, NextGroup
<1>18. ASSUME MergeManifest PROVE Target[l] \in hashed
  BY <1>18 DEF MergeManifest
<1>19. ASSUME PublishManifest PROVE Target[l] \in hashed
  BY <1>19 DEF PublishManifest, Gone
<1>20. ASSUME LostManifest PROVE Target[l] \in hashed
  BY <1>20 DEF LostManifest, Gone
<1>21. ASSUME SyncRefuse PROVE Target[l] \in hashed
  BY <1>21 DEF SyncRefuse, Gone
<1>22. ASSUME Disconnect PROVE Target[l] \in hashed
  BY <1>22 DEF Disconnect
<1>23. ASSUME KillSync PROVE Target[l] \in hashed
  BY <1>23 DEF KillSync, Gone
<1>24. ASSUME PruneList PROVE Target[l] \in hashed
  BY <1>24 DEF PruneList, SyncUntouched
<1>25. ASSUME PruneMark PROVE Target[l] \in hashed
  BY <1>25 DEF PruneMark, SyncUntouched
<1>26. ASSUME NothingStale PROVE Target[l] \in hashed
  BY <1>26 DEF NothingStale, SyncUntouched, PruneOver
<1>27. ASSUME PruneManifest PROVE Target[l] \in hashed
  BY <1>27 DEF PruneManifest, SyncUntouched
<1>28. ASSUME PrunePublish PROVE Target[l] \in hashed
  BY <1>28 DEF PrunePublish, SyncUntouched, PruneOver
<1>29. ASSUME KillPrune PROVE Target[l] \in hashed
  BY <1>29 DEF KillPrune, SyncUntouched, PruneOver
<1>30. ASSUME NEW p \in Paths, PruneDelete(p) PROVE Target[l] \in hashed
  BY <1>30 DEF PruneDelete, SyncUntouched
<1>31. CASE UNCHANGED vars
  BY <1>31 DEF vars
<1> QED
  BY <1>1, <1>2, <1>3, <1>4, <1>5, <1>6, <1>7, <1>8, <1>9, <1>10, <1>11, <1>12, <1>13, <1>14,
     <1>15, <1>16, <1>17, <1>18, <1>19, <1>20, <1>21, <1>22, <1>23, <1>24, <1>25, <1>26, <1>27,
     <1>28, <1>29, <1>30, <1>31
     DEF Next, Desktop, Sync, SyncStep, Prune

\* A snapshot entry never exposes a blob its own run transferred and did not
\* find matching its name, whatever fails and whatever the desktop does.
THEOREM NewLinksHashedHolds == Spec => NewLinksHashed
<1>1. Init => HashInv
  BY DEF Init, HashInv
<1>2. TypeOK /\ HashInv /\ [Next]_vars
        => [\A l \in Links : (l \in have' \ have /\ Target[l] \in new) => Target[l] \in hashed]_vars
  BY NewLinksStep
<1> QED
  BY <1>1, <1>2, StepHash, TypeCorrect, PTL DEF Spec, NewLinksHashed

-----------------------------------------------------------------------------
(* Snapshot entries resolve, on a calm desktop: one whose cache no command  *)
(* sees change, whose blobs rsync can read, and where a blob that goes bad  *)
(* keeps its size.  Each of the three is needed: without any one of them    *)
(* the small instance has a dangling entry.  Kills, dropped connections and *)
(* prunes are all still possible.                                           *)

Still == Moving = FALSE
Calm  == Still /\ Lockable = {} /\ "short" \notin RotKinds

\* The desktop never has an entry without its blob, nor a file of another size.
DesktopInv ==
    /\ \A l \in src \cap Links : Target[l] \in src
    /\ unreadable = {} /\ skip = {}
    /\ \A b \in Blobs : srcData[b] # "short" /\ data[b] # "short"

\* A prune deletes nothing the desktop has.
PruneInv ==
    /\ ppc # "idle" => remote = src
    /\ doomed \cap src = {}
    /\ ppc = "idle" => doomed = {}

\* While the blobs' rsync goes well every blob of the repo is in the mirror or
\* still to come, and an old entry that waits for one lost it to a prune; the
\* pointers to come all have their blobs.
CopyInv ==
    /\ pc = "blobs" =>
        /\ cur \in Repos /\ new \subseteq have \cap src /\ pending \subseteq src
        /\ rc = FALSE => \A b \in src \cap Blobs : Group[b] = cur => b \in have \cup pending
        /\ \A l \in have \cap Links : Target[l] \in pending \cup new => Target[l] \in pruned
    /\ pc = "others" => \A l \in pending \cap Links : l \in src /\ Target[l] \in have

CalmInv == DesktopInv /\ PruneInv /\ CopyInv /\ DanglingOnlyByPrune

LEMMA StepDesktopInv == Calm /\ TypeOK /\ DesktopInv /\ [Next]_vars => DesktopInv'
<1> SUFFICES ASSUME Calm, TypeOK, DesktopInv, [Next]_vars PROVE DesktopInv'
  OBVIOUS
<1> USE PathsAssumption, ShapeAssumption, FaultsAssumption
        DEF Calm, Still, DesktopInv, TypeOK, DesktopType, MirrorType, SyncType, PruneType, HistoryType, Paths, Files,
            source, mirror, records, run, copying, outcome, prune, history
<1>1. ASSUME NEW v \in Revs, Publish(v) PROVE DesktopInv'
  BY <1>1 DEF Publish, DesktopOnly, LinksOf
<1>2. ASSUME NEW v \in Revs, DeleteRevision(v) PROVE DesktopInv'
  BY <1>2 DEF DeleteRevision, DesktopOnly, LinksOf
<1>3. ASSUME NEW f \in Files, ChangeContent(f) PROVE DesktopInv'
  BY <1>3 DEF ChangeContent, DesktopOnly, DesktopMayMove
<1>4. ASSUME NEW f \in Files, ChangeMode(f) PROVE DesktopInv'
  BY <1>4 DEF ChangeMode, DesktopOnly
<1>5. ASSUME NEW a \in Adapters, ChangeAdapters(a) PROVE DesktopInv'
  BY <1>5 DEF ChangeAdapters, DesktopOnly
<1>6. ASSUME NEW p \in HandPaths, HandPut(p) PROVE DesktopInv'
  BY <1>6 DEF HandPut
<1>7. ASSUME SyncLock PROVE DesktopInv'
  BY <1>7 DEF SyncLock
<1>8. ASSUME NEW gs \in Asked, SyncPlan(gs) PROVE DesktopInv'
  BY <1>8 DEF SyncPlan
<1>9. ASSUME NEW r \in Repos, StartBlobs(r) PROVE DesktopInv'
  BY <1>9 DEF StartBlobs
<1>10. ASSUME StartAdapters PROVE DesktopInv'
  BY <1>10 DEF StartAdapters
<1>11. ASSUME NEW p \in Paths, CopyBlob(p) PROVE DesktopInv'
  BY <1>11 DEF CopyBlob
<1>12. ASSUME NEW p \in Paths, CopyOther(p) PROVE DesktopInv'
  BY <1>12 DEF CopyOther
<1>13. ASSUME NEW p \in Paths, CannotRead(p) PROVE DesktopInv'
  BY <1>13 DEF CannotRead
<1>14. ASSUME BlobsFailed PROVE DesktopInv'
  BY <1>14 DEF BlobsFailed, NextGroup
<1>15. ASSUME HashGood PROVE DesktopInv'
  BY <1>15 DEF HashGood, BadBlobs
<1>16. ASSUME HashBad PROVE DesktopInv'
  BY <1>16 DEF HashBad, NextGroup, BadBlobs
<1>17. ASSUME OthersDone PROVE DesktopInv'
  BY <1>17 DEF OthersDone, NextGroup
<1>18. ASSUME MergeManifest PROVE DesktopInv'
  BY <1>18 DEF MergeManifest
<1>19. ASSUME PublishManifest PROVE DesktopInv'
  BY <1>19 DEF PublishManifest, Gone
<1>20. ASSUME LostManifest PROVE DesktopInv'
  BY <1>20 DEF LostManifest, Gone
<1>21. ASSUME SyncRefuse PROVE DesktopInv'
  BY <1>21 DEF SyncRefuse, Gone
<1>22. ASSUME Disconnect PROVE DesktopInv'
  BY <1>22 DEF Disconnect
<1>23. ASSUME KillSync PROVE DesktopInv'
  BY <1>23 DEF KillSync, Gone
<1>24. ASSUME PruneList PROVE DesktopInv'
  BY <1>24 DEF PruneList, SyncUntouched
<1>25. ASSUME PruneMark PROVE DesktopInv'
  BY <1>25 DEF PruneMark, SyncUntouched
<1>26. ASSUME NothingStale PROVE DesktopInv'
  BY <1>26 DEF NothingStale, SyncUntouched, PruneOver
<1>27. ASSUME PruneManifest PROVE DesktopInv'
  BY <1>27 DEF PruneManifest, SyncUntouched
<1>28. ASSUME PrunePublish PROVE DesktopInv'
  BY <1>28 DEF PrunePublish, SyncUntouched, PruneOver
<1>29. ASSUME KillPrune PROVE DesktopInv'
  BY <1>29 DEF KillPrune, SyncUntouched, PruneOver
<1>30. ASSUME NEW p \in Paths, PruneDelete(p) PROVE DesktopInv'
  BY <1>30 DEF PruneDelete, SyncUntouched
<1>31. CASE UNCHANGED vars
  BY <1>31 DEF vars
<1> QED
  BY <1>1, <1>2, <1>3, <1>4, <1>5, <1>6, <1>7, <1>8, <1>9, <1>10, <1>11, <1>12, <1>13, <1>14,
     <1>15, <1>16, <1>17, <1>18, <1>19, <1>20, <1>21, <1>22, <1>23, <1>24, <1>25, <1>26, <1>27,
     <1>28, <1>29, <1>30, <1>31
     DEF Next, Desktop, Sync, SyncStep, Prune

\* A step of which no command notices anything on the desktop: its cache
\* changes only while neither a sync nor a prune is under way.
AtRest == pc = "idle" /\ ppc = "idle"
Quiet  == UNCHANGED source \/ AtRest

\* On a still desktop every step is of that kind.
LEMMA StillIsQuiet == ASSUME Still, [Next]_vars PROVE Quiet
<1>1. CASE Desktop
  BY <1>1 DEF Desktop, Publish, DeleteRevision, ChangeContent, ChangeMode, ChangeAdapters,
     DesktopOnly, DesktopMayMove, Still, Quiet, AtRest
<1>2. CASE Sync
  BY <1>2 DEF Sync, SyncStep, SyncLock, SyncRefuse, SyncPlan, StartBlobs, StartAdapters, CopyBlob,
     CopyOther, CannotRead, Disconnect, BlobsFailed, HashGood, HashBad, OthersDone, MergeManifest,
     PublishManifest, LostManifest, KillSync, Quiet
<1>3. CASE Prune
  BY <1>3 DEF Prune, PruneList, PruneMark, NothingStale, PruneManifest, PrunePublish, KillPrune,
     PruneDelete, SyncUntouched, Quiet
<1>4. ASSUME NEW p \in HandPaths, HandPut(p) PROVE Quiet
  BY <1>4 DEF HandPut, Quiet
<1>. QED
  BY <1>1, <1>2, <1>3, <1>4 DEF Next, vars, source, Quiet

LEMMA StepPruneInv == Quiet /\ PruneInv /\ [Next]_vars => PruneInv'
<1> SUFFICES ASSUME Quiet, PruneInv, [Next]_vars PROVE PruneInv'
  OBVIOUS
<1> USE DEF Quiet, AtRest, PruneInv,
            source, mirror, records, run, copying, outcome, prune, history
<1>1. ASSUME NEW v \in Revs, Publish(v) PROVE PruneInv'
  BY <1>1 DEF Publish, DesktopOnly
<1>2. ASSUME NEW v \in Revs, DeleteRevision(v) PROVE PruneInv'
  BY <1>2 DEF DeleteRevision, DesktopOnly
<1>3. ASSUME NEW f \in Files, ChangeContent(f) PROVE PruneInv'
  BY <1>3 DEF ChangeContent, DesktopOnly
<1>4. ASSUME NEW f \in Files, ChangeMode(f) PROVE PruneInv'
  BY <1>4 DEF ChangeMode, DesktopOnly
<1>5. ASSUME NEW a \in Adapters, ChangeAdapters(a) PROVE PruneInv'
  BY <1>5 DEF ChangeAdapters, DesktopOnly
<1>6. ASSUME NEW p \in HandPaths, HandPut(p) PROVE PruneInv'
  BY <1>6 DEF HandPut
<1>7. ASSUME SyncLock PROVE PruneInv'
  BY <1>7 DEF SyncLock
<1>8. ASSUME NEW gs \in Asked, SyncPlan(gs) PROVE PruneInv'
  BY <1>8 DEF SyncPlan
<1>9. ASSUME NEW r \in Repos, StartBlobs(r) PROVE PruneInv'
  BY <1>9 DEF StartBlobs
<1>10. ASSUME StartAdapters PROVE PruneInv'
  BY <1>10 DEF StartAdapters
<1>11. ASSUME NEW p \in Paths, CopyBlob(p) PROVE PruneInv'
  BY <1>11 DEF CopyBlob
<1>12. ASSUME NEW p \in Paths, CopyOther(p) PROVE PruneInv'
  BY <1>12 DEF CopyOther
<1>13. ASSUME NEW p \in Paths, CannotRead(p) PROVE PruneInv'
  BY <1>13 DEF CannotRead
<1>14. ASSUME BlobsFailed PROVE PruneInv'
  BY <1>14 DEF BlobsFailed, NextGroup
<1>15. ASSUME HashGood PROVE PruneInv'
  BY <1>15 DEF HashGood, BadBlobs
<1>16. ASSUME HashBad PROVE PruneInv'
  BY <1>16 DEF HashBad, NextGroup, BadBlobs
<1>17. ASSUME OthersDone PROVE PruneInv'
  BY <1>17 DEF OthersDone, NextGroup
<1>18. ASSUME MergeManifest PROVE PruneInv'
  BY <1>18 DEF MergeManifest
<1>19. ASSUME PublishManifest PROVE PruneInv'
  BY <1>19 DEF PublishManifest, Gone
<1>20. ASSUME LostManifest PROVE PruneInv'
  BY <1>20 DEF LostManifest, Gone
<1>21. ASSUME SyncRefuse PROVE PruneInv'
  BY <1>21 DEF SyncRefuse, Gone
<1>22. ASSUME Disconnect PROVE PruneInv'
  BY <1>22 DEF Disconnect
<1>23. ASSUME KillSync PROVE PruneInv'
  BY <1>23 DEF KillSync, Gone
<1>24. ASSUME PruneList PROVE PruneInv'
  BY <1>24 DEF PruneList, SyncUntouched
<1>25. ASSUME PruneMark PROVE PruneInv'
  BY <1>25 DEF PruneMark, SyncUntouched
<1>26. ASSUME NothingStale PROVE PruneInv'
  BY <1>26 DEF NothingStale, SyncUntouched, PruneOver
<1>27. ASSUME PruneManifest PROVE PruneInv'
  BY <1>27 DEF PruneManifest, SyncUntouched
<1>28. ASSUME PrunePublish PROVE PruneInv'
  BY <1>28 DEF PrunePublish, SyncUntouched, PruneOver
<1>29. ASSUME KillPrune PROVE PruneInv'
  BY <1>29 DEF KillPrune, SyncUntouched, PruneOver
<1>30. ASSUME NEW p \in Paths, PruneDelete(p) PROVE PruneInv'
  BY <1>30 DEF PruneDelete, SyncUntouched
<1>31. CASE UNCHANGED vars
  BY <1>31 DEF vars
<1> QED
  BY <1>1, <1>2, <1>3, <1>4, <1>5, <1>6, <1>7, <1>8, <1>9, <1>10, <1>11, <1>12, <1>13, <1>14,
     <1>15, <1>16, <1>17, <1>18, <1>19, <1>20, <1>21, <1>22, <1>23, <1>24, <1>25, <1>26, <1>27,
     <1>28, <1>29, <1>30, <1>31
     DEF Next, Desktop, Sync, SyncStep, Prune

LEMMA StepCopyInv ==
    Calm /\ TypeOK /\ CalmInv /\ [Next]_vars => CopyInv' /\ DanglingOnlyByPrune'
<1> SUFFICES ASSUME Calm, TypeOK, CalmInv, [Next]_vars PROVE CopyInv' /\ DanglingOnlyByPrune'
  OBVIOUS
<1> USE PathsAssumption, ShapeAssumption, FaultsAssumption
        DEF Calm, Still, CalmInv, DesktopInv, PruneInv, CopyInv, DanglingOnlyByPrune, DesktopMayMove,
            TypeOK, DesktopType, MirrorType, SyncType, PruneType, HistoryType, Paths,
            source, mirror, records, run, copying, outcome, prune, history
<1>1. ASSUME NEW v \in Revs, Publish(v) PROVE CopyInv' /\ DanglingOnlyByPrune'
  BY <1>1 DEF Publish, DesktopOnly
<1>2. ASSUME NEW v \in Revs, DeleteRevision(v) PROVE CopyInv' /\ DanglingOnlyByPrune'
  BY <1>2 DEF DeleteRevision, DesktopOnly
<1>3. ASSUME NEW f \in Files, ChangeContent(f) PROVE CopyInv' /\ DanglingOnlyByPrune'
  BY <1>3 DEF ChangeContent, DesktopOnly
<1>4. ASSUME NEW f \in Files, ChangeMode(f) PROVE CopyInv' /\ DanglingOnlyByPrune'
  BY <1>4 DEF ChangeMode, DesktopOnly
<1>5. ASSUME NEW a \in Adapters, ChangeAdapters(a) PROVE CopyInv' /\ DanglingOnlyByPrune'
  BY <1>5 DEF ChangeAdapters, DesktopOnly
<1>6. ASSUME NEW p \in HandPaths, HandPut(p) PROVE CopyInv' /\ DanglingOnlyByPrune'
  BY <1>6 DEF HandPut
<1>7. ASSUME SyncLock PROVE CopyInv' /\ DanglingOnlyByPrune'
  BY <1>7 DEF SyncLock
<1>8. ASSUME NEW gs \in Asked, SyncPlan(gs) PROVE CopyInv' /\ DanglingOnlyByPrune'
  BY <1>8 DEF SyncPlan
<1>9. ASSUME NEW r \in Repos, StartBlobs(r) PROVE CopyInv' /\ DanglingOnlyByPrune'
  BY <1>9 DEF StartBlobs, BlobsBehind, Of, SameSize
<1>10. ASSUME StartAdapters PROVE CopyInv' /\ DanglingOnlyByPrune'
  BY <1>10 DEF StartAdapters, OthersBehind, Of, Groups
<1>11. ASSUME NEW p \in Paths, CopyBlob(p) PROVE CopyInv' /\ DanglingOnlyByPrune'
  BY <1>11 DEF CopyBlob
<1>12. ASSUME NEW p \in Paths, CopyOther(p) PROVE CopyInv' /\ DanglingOnlyByPrune'
  BY <1>12 DEF CopyOther
<1>13. ASSUME NEW p \in Paths, CannotRead(p) PROVE CopyInv' /\ DanglingOnlyByPrune'
  BY <1>13 DEF CannotRead
<1>14. ASSUME BlobsFailed PROVE CopyInv' /\ DanglingOnlyByPrune'
  BY <1>14 DEF BlobsFailed, NextGroup
<1>15. ASSUME HashGood PROVE CopyInv' /\ DanglingOnlyByPrune'
  BY <1>15 DEF HashGood, BadBlobs, OthersBehind, Of
<1>16. ASSUME HashBad PROVE CopyInv' /\ DanglingOnlyByPrune'
  BY <1>16 DEF HashBad, NextGroup, BadBlobs
<1>17. ASSUME OthersDone PROVE CopyInv' /\ DanglingOnlyByPrune'
  BY <1>17 DEF OthersDone, NextGroup
<1>18. ASSUME MergeManifest PROVE CopyInv' /\ DanglingOnlyByPrune'
  BY <1>18 DEF MergeManifest
<1>19. ASSUME PublishManifest PROVE CopyInv' /\ DanglingOnlyByPrune'
  BY <1>19 DEF PublishManifest, Gone
<1>20. ASSUME LostManifest PROVE CopyInv' /\ DanglingOnlyByPrune'
  BY <1>20 DEF LostManifest, Gone
<1>21. ASSUME SyncRefuse PROVE CopyInv' /\ DanglingOnlyByPrune'
  BY <1>21 DEF SyncRefuse, Gone
<1>22. ASSUME Disconnect PROVE CopyInv' /\ DanglingOnlyByPrune'
  BY <1>22 DEF Disconnect
<1>23. ASSUME KillSync PROVE CopyInv' /\ DanglingOnlyByPrune'
  BY <1>23 DEF KillSync, Gone
<1>24. ASSUME PruneList PROVE CopyInv' /\ DanglingOnlyByPrune'
  BY <1>24 DEF PruneList, SyncUntouched
<1>25. ASSUME PruneMark PROVE CopyInv' /\ DanglingOnlyByPrune'
  BY <1>25 DEF PruneMark, SyncUntouched
<1>26. ASSUME NothingStale PROVE CopyInv' /\ DanglingOnlyByPrune'
  BY <1>26 DEF NothingStale, SyncUntouched, PruneOver
<1>27. ASSUME PruneManifest PROVE CopyInv' /\ DanglingOnlyByPrune'
  BY <1>27 DEF PruneManifest, SyncUntouched
<1>28. ASSUME PrunePublish PROVE CopyInv' /\ DanglingOnlyByPrune'
  BY <1>28 DEF PrunePublish, SyncUntouched, PruneOver
<1>29. ASSUME KillPrune PROVE CopyInv' /\ DanglingOnlyByPrune'
  BY <1>29 DEF KillPrune, SyncUntouched, PruneOver
<1>30. ASSUME NEW p \in Paths, PruneDelete(p) PROVE CopyInv' /\ DanglingOnlyByPrune'
  BY <1>30 DEF PruneDelete, SyncUntouched
<1>31. CASE UNCHANGED vars
  BY <1>31 DEF vars
<1> QED
  BY <1>1, <1>2, <1>3, <1>4, <1>5, <1>6, <1>7, <1>8, <1>9, <1>10, <1>11, <1>12, <1>13, <1>14,
     <1>15, <1>16, <1>17, <1>18, <1>19, <1>20, <1>21, <1>22, <1>23, <1>24, <1>25, <1>26, <1>27,
     <1>28, <1>29, <1>30, <1>31
     DEF Next, Desktop, Sync, SyncStep, Prune

LEMMA CalmIsInductive == Calm /\ Spec => []CalmInv
<1> SUFFICES ASSUME Calm PROVE Spec => []CalmInv
  OBVIOUS
<1>1. Init => CalmInv
  BY PathsAssumption
     DEF Init, CalmInv, DesktopInv, PruneInv, CopyInv, DanglingOnlyByPrune, Files
<1>2. TypeOK /\ CalmInv /\ [Next]_vars => CalmInv'
  BY StepDesktopInv, StepPruneInv, StepCopyInv, StillIsQuiet DEF CalmInv, Calm
<1> QED
  BY <1>1, <1>2, TypeCorrect, PTL DEF Spec

\* On a calm desktop an entry dangles only because a prune removed its blob.
THEOREM DanglingOnlyByPruneHolds == ASSUME Calm PROVE Spec => []DanglingOnlyByPrune
<1>1. CalmInv => DanglingOnlyByPrune
  BY DEF CalmInv
<1> QED
  BY <1>1, CalmIsInductive, PTL

\* Without a prune none does.
THEOREM LinksResolveHolds == ASSUME Calm, Prunes = FALSE PROVE Spec => []LinksResolve
<1> DEFINE NoPrune == pruned = {} /\ ppc = "idle" /\ doomed = {}
<1>1. Init => NoPrune
  BY DEF Init
<1>2. TypeOK /\ NoPrune /\ [Next]_vars => NoPrune'
  <2> SUFFICES ASSUME NoPrune, [Next]_vars PROVE NoPrune'
    OBVIOUS
  <2> USE DEF source, mirror, records, run, copying, outcome, prune, history
  <2>1. ASSUME NEW v \in Revs, Publish(v) PROVE NoPrune'
    BY <2>1 DEF Publish, DesktopOnly
  <2>2. ASSUME NEW v \in Revs, DeleteRevision(v) PROVE NoPrune'
    BY <2>2 DEF DeleteRevision, DesktopOnly
  <2>3. ASSUME NEW f \in Files, ChangeContent(f) PROVE NoPrune'
    BY <2>3 DEF ChangeContent, DesktopOnly
  <2>4. ASSUME NEW f \in Files, ChangeMode(f) PROVE NoPrune'
    BY <2>4 DEF ChangeMode, DesktopOnly
  <2>5. ASSUME NEW a \in Adapters, ChangeAdapters(a) PROVE NoPrune'
    BY <2>5 DEF ChangeAdapters, DesktopOnly
  <2>6. ASSUME NEW p \in HandPaths, HandPut(p) PROVE NoPrune'
    BY <2>6 DEF HandPut
  <2>7. ASSUME SyncLock PROVE NoPrune'
    BY <2>7 DEF SyncLock
  <2>8. ASSUME NEW gs \in Asked, SyncPlan(gs) PROVE NoPrune'
    BY <2>8 DEF SyncPlan
  <2>9. ASSUME NEW r \in Repos, StartBlobs(r) PROVE NoPrune'
    BY <2>9 DEF StartBlobs
  <2>10. ASSUME StartAdapters PROVE NoPrune'
    BY <2>10 DEF StartAdapters
  <2>11. ASSUME NEW p \in Paths, CopyBlob(p) PROVE NoPrune'
    BY <2>11 DEF CopyBlob
  <2>12. ASSUME NEW p \in Paths, CopyOther(p) PROVE NoPrune'
    BY <2>12 DEF CopyOther
  <2>13. ASSUME NEW p \in Paths, CannotRead(p) PROVE NoPrune'
    BY <2>13 DEF CannotRead
  <2>14. ASSUME BlobsFailed PROVE NoPrune'
    BY <2>14 DEF BlobsFailed, NextGroup
  <2>15. ASSUME HashGood PROVE NoPrune'
    BY <2>15 DEF HashGood, BadBlobs
  <2>16. ASSUME HashBad PROVE NoPrune'
    BY <2>16 DEF HashBad, NextGroup, BadBlobs
  <2>17. ASSUME OthersDone PROVE NoPrune'
    BY <2>17 DEF OthersDone, NextGroup
  <2>18. ASSUME MergeManifest PROVE NoPrune'
    BY <2>18 DEF MergeManifest
  <2>19. ASSUME PublishManifest PROVE NoPrune'
    BY <2>19 DEF PublishManifest, Gone
  <2>20. ASSUME LostManifest PROVE NoPrune'
    BY <2>20 DEF LostManifest, Gone
  <2>21. ASSUME SyncRefuse PROVE NoPrune'
    BY <2>21 DEF SyncRefuse, Gone
  <2>22. ASSUME Disconnect PROVE NoPrune'
    BY <2>22 DEF Disconnect
  <2>23. ASSUME KillSync PROVE NoPrune'
    BY <2>23 DEF KillSync, Gone
  <2>24. ASSUME PruneList PROVE NoPrune'
    BY <2>24 DEF PruneList, SyncUntouched
  <2>25. ASSUME PruneMark PROVE NoPrune'
    BY <2>25 DEF PruneMark, SyncUntouched
  <2>26. ASSUME NothingStale PROVE NoPrune'
    BY <2>26 DEF NothingStale, SyncUntouched, PruneOver
  <2>27. ASSUME PruneManifest PROVE NoPrune'
    BY <2>27 DEF PruneManifest, SyncUntouched
  <2>28. ASSUME PrunePublish PROVE NoPrune'
    BY <2>28 DEF PrunePublish, SyncUntouched, PruneOver
  <2>29. ASSUME KillPrune PROVE NoPrune'
    BY <2>29 DEF KillPrune, SyncUntouched, PruneOver
  <2>30. ASSUME NEW p \in Paths, PruneDelete(p) PROVE NoPrune'
    BY <2>30 DEF PruneDelete, SyncUntouched
  <2>31. CASE UNCHANGED vars
    BY <2>31 DEF vars
  <2> QED
    BY <2>1, <2>2, <2>3, <2>4, <2>5, <2>6, <2>7, <2>8, <2>9, <2>10, <2>11, <2>12, <2>13, <2>14,
       <2>15, <2>16, <2>17, <2>18, <2>19, <2>20, <2>21, <2>22, <2>23, <2>24, <2>25, <2>26,
       <2>27, <2>28, <2>29, <2>30, <2>31
       DEF Next, Desktop, Sync, SyncStep, Prune
<1>3. CalmInv /\ NoPrune => LinksResolve
  BY DEF CalmInv, DanglingOnlyByPrune, LinksResolve
<1> QED
  BY <1>1, <1>2, <1>3, CalmIsInductive, TypeCorrect, PTL DEF Spec

\* What is true of every moment between commands, on any desktop: a command
\* that is over, or was killed, leaves nothing behind for the next one to use.
IdleInv ==
    /\ pc \notin {"blobs", "others"} => cur \notin Groups
    /\ pc = "idle" => skip = {}
    /\ ppc = "idle" => doomed = {}

LEMMA StepIdleInv == ASSUME TypeOK, IdleInv, [Next]_vars PROVE IdleInv'
<1>. USE PathsAssumption DEF IdleInv, run, copying, prune
<1>1. CASE Desktop
  BY <1>1 DEF Desktop, Publish, DeleteRevision, ChangeContent, ChangeMode, ChangeAdapters,
     DesktopOnly
<1>2. ASSUME NEW p \in HandPaths, HandPut(p) PROVE IdleInv'
  BY <1>2 DEF HandPut
<1>3. CASE Prune
  BY <1>3 DEF Prune, PruneList, PruneMark, NothingStale, PruneManifest, PrunePublish, KillPrune,
     PruneDelete, PruneOver, SyncUntouched
<1>4. CASE SyncRefuse \/ PublishManifest \/ LostManifest \/ KillSync
  BY <1>4 DEF SyncRefuse, PublishManifest, LostManifest, KillSync, Gone
<1>5. CASE SyncLock \/ (\E gs \in Asked : SyncPlan(gs)) \/ MergeManifest
  BY <1>5 DEF SyncLock, SyncPlan, MergeManifest
<1>6. CASE StartAdapters \/ \E r \in Repos : StartBlobs(r)
  BY <1>6 DEF StartAdapters, StartBlobs
<1>7. CASE \/ \E p \in Paths : CopyBlob(p) \/ CopyOther(p) \/ CannotRead(p)
           \/ Disconnect \/ HashGood
  BY <1>7 DEF CopyBlob, CopyOther, CannotRead, Disconnect, HashGood
<1>8. CASE BlobsFailed \/ HashBad \/ OthersDone
  BY <1>8 DEF BlobsFailed, HashBad, OthersDone, NextGroup
<1>9. CASE UNCHANGED vars
  BY <1>9 DEF vars
<1>. QED
  BY <1>1, <1>2, <1>3, <1>4, <1>5, <1>6, <1>7, <1>8, <1>9 DEF Next, Sync, SyncStep

LEMMA IdleCorrect == Spec => []IdleInv
<1>1. Init => IdleInv
  BY PathsAssumption DEF Init, IdleInv
<1>. QED
  BY <1>1, StepIdleInv, TypeCorrect, PTL DEF Spec

-----------------------------------------------------------------------------
(* What "sync: ok" is worth, while no command sees the desktop change and   *)
(* its blobs can be read.  Of a group that the run has done, and that did   *)
(* not fail, nothing is behind from then on: CurrentInv says so along the   *)
(* way, with what is left to copy of the group in hand.  Blobs may go bad   *)
(* in any way, prunes may run and a person may put files of their own.      *)

Readable == Still /\ Lockable = {}

Running == {"next", "blobs", "others", "merged"}

Settled(g) == g \in ran /\ g \notin todo /\ g # cur /\ g \notin failed

CurrentInv ==
    /\ unreadable = {} /\ skip = {}
    /\ pc \notin {"blobs", "others"} => cur \notin Groups
    /\ pc = "merged" => todo = {}
    /\ pc = "blobs" =>
        /\ cur \in Repos /\ \A b \in new \cup pending : Group[b] = cur
        /\ rc = FALSE => BlobsBehind(cur) \subseteq pending
    /\ pc = "others" =>
        /\ rc = FALSE => OthersBehind(cur) \subseteq pending
        /\ cur \in Repos => BlobsBehind(cur) = {}
    /\ pc \in Running => \A g \in Groups : Settled(g) => Behind(g) = {}

\* A step that takes nothing of a group from the mirror that the desktop has,
\* and replaces it by nothing but the desktop's, leaves no more of it behind.
LEMMA BehindShrinks ==
    ASSUME TypeOK, NEW g \in Groups, UNCHANGED source,
           \A p \in src \cap have : Group[p] = g => p \in have',
           \A f \in src \cap have \cap Files :
               Group[f] = g => data'[f] \in {data[f], srcData[f]},
           \A r \in src \cap have \cap Repos : Group[r] = g => refAt'[r] \in {refAt[r], srcRef[r]}
    PROVE  /\ OthersBehind(g)' \subseteq OthersBehind(g)
           /\ BlobsBehind(g)' \subseteq BlobsBehind(g)
           /\ Behind(g)' \subseteq Behind(g)
<1>. USE DEF source, Of
<1>1. OthersBehind(g)' \subseteq OthersBehind(g)
  <2>1. SUFFICES ASSUME NEW p \in OthersBehind(g)' PROVE p \in OthersBehind(g)
    OBVIOUS
  <2>2. p \in src \ Blobs /\ Group[p] = g
    BY <2>1 DEF OthersBehind
  <2>3. \/ p \notin have'
        \/ p \in Repos /\ srcRef[p] # refAt'[p]
        \/ p \in Adapters /\ srcData[p] # data'[p]
    BY <2>1 DEF OthersBehind
  <2>4. p \notin have \/ (p \in Repos /\ srcRef[p] # refAt[p]) \/ (p \in Adapters /\ srcData[p] # data[p])
    BY <2>2, <2>3 DEF Files
  <2>. QED
    BY <2>2, <2>4 DEF OthersBehind
<1>2. BlobsBehind(g)' \subseteq BlobsBehind(g)
  <2>1. SUFFICES ASSUME NEW b \in BlobsBehind(g)' PROVE b \in BlobsBehind(g)
    OBVIOUS
  <2>2. b \in src \cap Blobs /\ Group[b] = g
    BY <2>1 DEF BlobsBehind
  <2>3. b \notin have' \/ ~SameSize(srcData[b], data'[b])
    BY <2>1 DEF BlobsBehind
  <2>4. b \notin have \/ ~SameSize(srcData[b], data[b])
    BY <2>2, <2>3 DEF Files, SameSize
  <2>. QED
    BY <2>2, <2>4 DEF BlobsBehind
<1>. QED
  BY <1>1, <1>2 DEF Behind

\* What a command does that neither writes nor deletes in the mirror.
LEMMA BehindSame ==
    ASSUME NEW g, UNCHANGED <<source, mirror>>
    PROVE  OthersBehind(g)' = OthersBehind(g) /\ BlobsBehind(g)' = BlobsBehind(g) /\ Behind(g)' = Behind(g)
BY DEF source, mirror, OthersBehind, BlobsBehind, Behind, Of

\* A step that keeps the sync where it is and shrinks what is behind.
LEMMA CurrentInvKept ==
    ASSUME TypeOK, CurrentInv, UNCHANGED <<pc, run, copying, failed, unreadable>>,
           \A g \in Groups : /\ OthersBehind(g)' \subseteq OthersBehind(g)
                            /\ BlobsBehind(g)' \subseteq BlobsBehind(g)
                            /\ Behind(g)' \subseteq Behind(g)
    PROVE  CurrentInv'
<1>. USE DEF TypeOK, SyncType, CurrentInv, Settled, run, copying
<1>1. PICK c : c = cur
  OBVIOUS
<1>2. cur' = c /\ UNCHANGED <<pc, skip, todo, ran, pending, new, rc, failed, unreadable>>
  BY <1>1
<1>3. ASSUME pc \in {"blobs", "others"} PROVE c \in Groups
  BY <1>1, <1>3
<1>4. pc = "blobs" => BlobsBehind(cur)' \subseteq BlobsBehind(cur)
  <2>. SUFFICES ASSUME pc = "blobs" PROVE BlobsBehind(c)' \subseteq BlobsBehind(c)
    BY <1>1, <1>2
  <2>. QED
    BY <1>3
<1>. QED
  OBVIOUS

\* The steps of the desktop: none while a command runs.
LEMMA DesktopKeepsCurrent ==
    ASSUME Quiet, unreadable' = {}, TypeOK, CurrentInv, Desktop
    PROVE  CurrentInv'
<1>1. DesktopOnly
  BY DEF Desktop, Publish, DeleteRevision, ChangeContent, ChangeMode, ChangeAdapters
<1>2. CASE pc = "idle"
  BY <1>1, <1>2 DEF DesktopOnly, CurrentInv, Running, run, copying
<1>3. CASE UNCHANGED source
  <2>1. \A g \in Groups : /\ OthersBehind(g)' = OthersBehind(g)
                         /\ BlobsBehind(g)' = BlobsBehind(g) /\ Behind(g)' = Behind(g)
    BY <1>1, <1>3, BehindSame DEF DesktopOnly
  <2>. QED
    BY <1>1, <1>3, <2>1, CurrentInvKept DEF DesktopOnly, source, outcome
<1>. QED
  BY <1>2, <1>3 DEF Quiet, AtRest

LEMMA HandPutKeepsCurrent ==
    ASSUME TypeOK, CurrentInv, NEW p \in HandPaths, HandPut(p)
    PROVE  CurrentInv'
<1>1. ASSUME NEW g \in Groups
      PROVE  /\ OthersBehind(g)' \subseteq OthersBehind(g)
             /\ BlobsBehind(g)' \subseteq BlobsBehind(g)
             /\ Behind(g)' \subseteq Behind(g)
  BY BehindShrinks, FaultsAssumption DEF HandPut, TypeOK, MirrorType, Files
<1>. QED
  BY <1>1, CurrentInvKept DEF HandPut, run, copying, outcome, source

LEMMA PruneKeepsCurrent ==
    ASSUME TypeOK, CurrentInv, PruneInv, Prune
    PROVE  CurrentInv'
<1>1. have \ have' \subseteq doomed /\ SyncUntouched
  BY DEF Prune, PruneList, PruneMark, NothingStale, PruneManifest, PrunePublish, KillPrune,
     PruneDelete
<1>2. ASSUME NEW g \in Groups
      PROVE  /\ OthersBehind(g)' \subseteq OthersBehind(g)
             /\ BlobsBehind(g)' \subseteq BlobsBehind(g)
             /\ Behind(g)' \subseteq Behind(g)
  BY <1>1, BehindShrinks DEF PruneInv, SyncUntouched
<1>. QED
  BY <1>1, <1>2, CurrentInvKept DEF SyncUntouched, run, copying, outcome, source

LEMMA SyncKeepsCurrent == TypeOK /\ CurrentInv /\ Sync => CurrentInv'
<1>. SUFFICES ASSUME TypeOK, CurrentInv, Sync PROVE CurrentInv'
  OBVIOUS
<1>. USE PathsAssumption DEF TypeOK, SyncType, CurrentInv, Settled, Running, run, copying, outcome, source
<1>1. CASE Gone /\ UNCHANGED source
  BY <1>1 DEF Gone
<1>2. CASE SyncLock
  BY <1>2 DEF SyncLock
<1>3. ASSUME NEW gs \in Asked, SyncPlan(gs) PROVE CurrentInv'
  BY <1>3, BehindSame DEF SyncPlan
<1>4. ASSUME NEW r \in Repos, StartBlobs(r) PROVE CurrentInv'
  <2>1. BlobsBehind(r)' = BlobsBehind(r) /\ \A g \in Groups : Behind(g)' = Behind(g)
    BY <1>4, BehindSame DEF StartBlobs
  <2>2. \A b \in BlobsBehind(r) : Group[b] = r
    BY DEF BlobsBehind, Of
  <2>. QED
    BY <1>4, <2>1, <2>2 DEF StartBlobs, Groups
<1>5. CASE StartAdapters
  <2>1. /\ OthersBehind(AdapterGroup)' = OthersBehind(AdapterGroup)
        /\ \A g \in Groups : Behind(g)' = Behind(g)
    BY <1>5, BehindSame DEF StartAdapters
  <2>. QED
    BY <1>5, <2>1 DEF StartAdapters, Groups
<1>6. ASSUME NEW b \in Paths, CopyBlob(b) PROVE CurrentInv'
  <2>1. PICK c \in Groups : c = cur /\ c \in Repos
    BY <1>6 DEF CopyBlob, Groups
  <2>2. ASSUME NEW g \in Groups
        PROVE  BlobsBehind(g)' \subseteq BlobsBehind(g) \ {b} /\ Behind(g)' \subseteq Behind(g)
    <3>1. BlobsBehind(g)' \subseteq BlobsBehind(g) /\ Behind(g)' \subseteq Behind(g)
      BY <1>6, BehindShrinks DEF CopyBlob, MirrorType, Files
    <3>2. b \notin BlobsBehind(g)'
      BY <1>6 DEF CopyBlob, BlobsBehind, SameSize, Of, MirrorType, Files
    <3>. QED
      BY <3>1, <3>2
  <2>3. Group[b] = c
    BY <1>6, <2>1 DEF CopyBlob
  <2>4. BlobsBehind(c)' \subseteq BlobsBehind(c) \ {b}
    BY <2>2
  <2>. QED
    BY <1>6, <2>1, <2>2, <2>3, <2>4 DEF CopyBlob
<1>7. ASSUME NEW p \in Paths, CopyOther(p) PROVE CurrentInv'
  <2>1. PICK c \in Groups : c = cur
    BY <1>7 DEF CopyOther
  <2>2. ASSUME NEW g \in Groups
        PROVE  /\ BlobsBehind(g)' \subseteq BlobsBehind(g) /\ Behind(g)' \subseteq Behind(g)
               /\ OthersBehind(g)' \subseteq OthersBehind(g) \ {p}
    <3>1. /\ BlobsBehind(g)' \subseteq BlobsBehind(g) /\ Behind(g)' \subseteq Behind(g)
          /\ OthersBehind(g)' \subseteq OthersBehind(g)
      BY <1>7, BehindShrinks DEF CopyOther, MirrorType, Files
    <3>2. p \notin OthersBehind(g)'
      BY <1>7 DEF CopyOther, OthersBehind, Of, MirrorType, Files
    <3>. QED
      BY <3>1, <3>2
  <2>3. BlobsBehind(c)' \subseteq BlobsBehind(c) /\ OthersBehind(c)' \subseteq OthersBehind(c) \ {p}
    BY <2>2
  <2>. QED
    BY <1>7, <2>1, <2>2, <2>3 DEF CopyOther
<1>8. CASE (\E p \in Paths : CannotRead(p)) \/ Disconnect
  <2>1. UNCHANGED <<source, mirror, pc, run, cur, new, failed>> /\ rc' = TRUE /\ pending' \subseteq pending
    BY <1>8 DEF CannotRead, Disconnect
  <2>2. PICK c : c = cur
    OBVIOUS
  <2>3. BlobsBehind(c)' = BlobsBehind(c) /\ \A g \in Groups : Behind(g)' = Behind(g)
    BY <2>1, BehindSame
  <2>. QED
    BY <2>1, <2>2, <2>3
<1>9. CASE BlobsFailed
  <2>1. \A g \in Groups : Behind(g)' = Behind(g)
    BY <1>9, BehindSame DEF BlobsFailed
  <2>. QED
    BY <1>9, <2>1 DEF BlobsFailed, NextGroup, Groups
<1>10. CASE HashGood
  <2>1. PICK c : c = cur /\ c \in Repos
    BY <1>10 DEF HashGood
  <2>2. /\ \A g \in Groups : Behind(g)' = Behind(g)
        /\ OthersBehind(c)' = OthersBehind(c) /\ BlobsBehind(c)' = BlobsBehind(c)
    BY <1>10, BehindSame DEF HashGood
  <2>. QED
    BY <1>10, <2>1, <2>2 DEF HashGood
<1>11. CASE HashBad
  <2>1. PICK c : c = cur /\ c \in Repos
    BY <1>11 DEF HashBad
  <2>2. ASSUME NEW g \in Groups, g # c PROVE Behind(g)' \subseteq Behind(g)
    <3>1. \A b \in BadBlobs : Group[b] # g
      BY <1>11, <2>1, <2>2 DEF HashBad, BadBlobs
    <3>. QED
      BY <1>11, <3>1, BehindShrinks DEF HashBad, MirrorType
  <2>. QED
    BY <1>11, <2>1, <2>2 DEF HashBad, NextGroup, Groups
<1>12. CASE OthersDone
  <2>1. PICK c \in Groups : c = cur
    BY <1>12 DEF OthersDone
  <2>2. \A g \in Groups : Behind(g)' = Behind(g)
    BY <1>12, BehindSame DEF OthersDone
  <2>3. rc = FALSE => Behind(c) = {}
    BY <1>12, <2>1 DEF OthersDone, Behind
  <2>. QED
    BY <1>12, <2>1, <2>2, <2>3 DEF OthersDone, NextGroup, Groups
<1>13. CASE MergeManifest
  BY <1>13, BehindSame DEF MergeManifest
<1>. QED
  BY <1>1, <1>2, <1>3, <1>4, <1>5, <1>6, <1>7, <1>8, <1>9, <1>10, <1>11, <1>12, <1>13
     DEF Sync, SyncStep, SyncRefuse, PublishManifest, LostManifest, KillSync

LEMMA StepCurrentInv ==
    ASSUME Quiet, unreadable' = {}, TypeOK, PruneInv, CurrentInv, [Next]_vars
    PROVE  CurrentInv'
<1>1. CASE UNCHANGED vars
  <2>1. \A g \in Groups : /\ OthersBehind(g)' = OthersBehind(g)
                         /\ BlobsBehind(g)' = BlobsBehind(g) /\ Behind(g)' = Behind(g)
    BY <1>1, BehindSame DEF vars
  <2>. QED
    BY <1>1, <2>1, CurrentInvKept DEF vars, source, outcome
<1>. QED
  BY <1>1, DesktopKeepsCurrent, HandPutKeepsCurrent, SyncKeepsCurrent, PruneKeepsCurrent DEF Next

\* Only a run that failed nowhere publishes an "ok".
LEMMA OkStep ==
    ASSUME TypeOK, CurrentInv, [Next]_vars,
           pc = "merged", pc' = "idle", manifestTmp # manifestTmp', last' = "ok"
    PROVE  \A g \in ran : Behind(g) = {}
<1>1. failed = {}
  <2>1. CASE Desktop \/ (\E p \in HandPaths : HandPut(p)) \/ Prune \/ UNCHANGED vars
    <3>1. UNCHANGED pc
      BY <2>1
         DEF Desktop, Publish, DeleteRevision, ChangeContent, ChangeMode, ChangeAdapters,
             DesktopOnly,
                  HandPut, Prune, PruneList, PruneMark, NothingStale, PruneManifest, PrunePublish, KillPrune,
                  PruneDelete, SyncUntouched, vars
    <3>. QED
      BY <3>1
  <2>2. CASE PublishManifest
    BY <2>2 DEF PublishManifest
  <2>3. CASE SyncRefuse \/ LostManifest \/ KillSync
    BY <2>3 DEF SyncRefuse, LostManifest, KillSync, records
  <2>4. CASE \/ SyncLock \/ (\E gs \in Asked : SyncPlan(gs)) \/ (\E r \in Repos : StartBlobs(r)) \/ StartAdapters
            \/ (\E p \in Paths : CopyBlob(p) \/ CopyOther(p) \/ CannotRead(p)) \/ Disconnect
            \/ BlobsFailed \/ HashGood \/ HashBad \/ OthersDone \/ MergeManifest
    <3>1. pc' # "idle" \/ pc = pc'
      BY <2>4
         DEF SyncLock, SyncPlan, StartBlobs, StartAdapters, CopyBlob, CopyOther, CannotRead,
             Disconnect,
                  BlobsFailed, HashGood, HashBad, OthersDone, NextGroup, MergeManifest
    <3>. QED
      BY <3>1
  <2>. QED
    BY <2>1, <2>2, <2>3, <2>4 DEF Next, Sync, SyncStep
<1>2. ran \subseteq Groups /\ cur \notin Groups /\ todo = {}
  BY DEF CurrentInv, TypeOK, SyncType
<1>. QED
  BY <1>1, <1>2 DEF CurrentInv, Running, Settled

\* Once no command is under way, and for as long as the desktop changes only
\* between commands and its blobs can be read, a sync that says "ok" leaves
\* nothing behind in any group it was asked for: whatever the desktop did under
\* the syncs before, and whatever was killed, dropped, pruned, quarantined or
\* put there by hand.
THEOREM OkMeansCurrentLater ==
    Spec => [](AtRest /\ unreadable = {} /\ [][Quiet /\ unreadable' = {}]_vars => OkMeansCurrent)
<1>1. IdleInv /\ AtRest /\ unreadable = {} => PruneInv /\ CurrentInv
  BY DEF IdleInv, AtRest, PruneInv, CurrentInv, Running
<1>2. TypeOK /\ PruneInv /\ CurrentInv /\ [Next]_vars /\ [Quiet /\ unreadable' = {}]_vars
        => PruneInv' /\ CurrentInv'
  <2>. SUFFICES ASSUME TypeOK, PruneInv, CurrentInv, [Next]_vars, [Quiet /\ unreadable' = {}]_vars
                PROVE  PruneInv' /\ CurrentInv'
    OBVIOUS
  <2>1. Quiet /\ unreadable' = {}
    BY DEF vars, source, Quiet, CurrentInv
  <2>. QED
    BY <2>1, StepPruneInv, StepCurrentInv
<1>3. TypeOK /\ CurrentInv /\ [Next]_vars
        => [(pc = "merged" /\ pc' = "idle" /\ manifestTmp # manifestTmp' /\ last' = "ok")
              => \A g \in ran : Behind(g) = {}]_vars
  BY OkStep
<1>. QED
  BY <1>1, <1>2, <1>3, IdleCorrect, TypeCorrect, PTL DEF Spec, OkMeansCurrent

\* So on a desktop that no command sees change and whose blobs can be read every
\* "ok" is worth that.
THEOREM OkMeansCurrentHolds == ASSUME Readable PROVE Spec => OkMeansCurrent
<1>1. Init => AtRest /\ unreadable = {}
  BY DEF Init, AtRest
<1>2. unreadable = {} /\ [Next]_vars => [Quiet /\ unreadable' = {}]_vars
  <2>. SUFFICES ASSUME unreadable = {}, [Next]_vars PROVE unreadable' = {}
    BY StillIsQuiet DEF Readable
  <2>1. CASE Desktop
    BY <2>1, FaultsAssumption DEF Desktop, Publish, DeleteRevision, ChangeContent, ChangeMode,
       ChangeAdapters, Readable
  <2>2. CASE ~Desktop
    <3>1. CASE Prune \/ \E p \in HandPaths : HandPut(p)
      BY <3>1 DEF HandPut, Prune, PruneList, PruneMark, NothingStale, PruneManifest, PrunePublish,
         KillPrune, PruneDelete, SyncUntouched, source
    <3>2. CASE Sync
      BY <3>2 DEF Sync, SyncStep, SyncLock, SyncRefuse, SyncPlan, StartBlobs, StartAdapters,
         CopyBlob, CopyOther, CannotRead, Disconnect, BlobsFailed, HashGood, HashBad, OthersDone,
         MergeManifest, PublishManifest, LostManifest, KillSync, source
    <3>. QED
      BY <2>2, <3>1, <3>2 DEF Next, vars, source
  <2>. QED
    BY <2>1, <2>2
<1>3. unreadable = {} /\ [Next]_vars => (unreadable = {})'
  BY <1>2 DEF vars, source
<1>. QED
  BY <1>1, <1>2, <1>3, OkMeansCurrentLater, PTL DEF Spec

-----------------------------------------------------------------------------
(* How far a sync is from its end.                                          *)

\* With n groups to do and k paths to transfer, of fewer than K, where g groups
\* can be asked for: each step of a group weighs more than any transfer.
Left(place, n, k, K, g) ==
    CASE place = "idle"   -> 0
      [] place = "merged" -> 1
      [] place = "next"   -> (3 * n + 1) * K + 1
      [] place = "others" -> (3 * n + 2) * K + 1 + k
      [] place = "blobs"  -> (3 * n + 3) * K + 1 + k
      [] place = "locked" -> (3 * g + 2) * K + 1

LeftOf(place, t, p) ==
    Left(place, Cardinality(t), Cardinality(p), Cardinality(Paths) + 1, Cardinality(Groups))

SyncLeft == LeftOf(pc, todo, pending)

SyncGetsOn ==
    [][pc # "idle" => /\ SyncLeft \in Nat
                      /\ IF Sync THEN SyncLeft' < SyncLeft ELSE SyncLeft' = SyncLeft]_vars

\* What a step weighs, in numbers.
LEMMA LeftOrder ==
    ASSUME NEW n \in Nat, NEW K \in Nat \ {0}, NEW g \in Nat, n <= g,
           NEW k \in Nat, k < K, NEW j \in Nat
    PROVE  /\ Left("idle", n, j, K, g) = 0 /\ Left("merged", n, j, K, g) = 1
           /\ Left("merged", n, j, K, g) < Left("next", n, j, K, g)
           /\ Left("next", n, j, K, g) <= Left("next", n, k, K, g)
           /\ Left("next", n, j, K, g) < Left("others", n, k, K, g)
           /\ Left("others", n, k, K, g) < Left("blobs", n, j, K, g)
           /\ Left("next", n, j, K, g) < Left("blobs", n, k, K, g)
           /\ Left("blobs", n, k, K, g) < Left("next", n + 1, j, K, g)
           /\ Left("others", n, k, K, g) < Left("next", n + 1, j, K, g)
           /\ Left("next", n, j, K, g) < Left("locked", n, k, K, g)
<1>1. PICK x \in Nat, y \in Nat : x = n * K /\ y = g * K
  OBVIOUS
<1>2. x <= y
  <2>1. PICK d \in Nat : g = n + d
    <3>1. g - n \in Nat /\ g = n + (g - n)
      OBVIOUS
    <3> QED
      BY <3>1
  <2>2. g * K = n * K + d * K /\ d * K \in Nat
    BY <2>1
  <2> QED
    BY <1>1, <2>2
<1>3. /\ (3 * n + 1) * K = 3 * x + K
      /\ (3 * n + 2) * K = 3 * x + 2 * K
      /\ (3 * n + 3) * K = 3 * x + 3 * K
      /\ (3 * (n + 1) + 1) * K = 3 * x + 4 * K
      /\ (3 * g + 2) * K = 3 * y + 2 * K
  BY <1>1
<1>4. /\ Left("idle", n, j, K, g) = 0 /\ Left("merged", n, j, K, g) = 1
      /\ \A i \in Nat : /\ Left("next", n, i, K, g) = (3 * n + 1) * K + 1
                        /\ Left("others", n, i, K, g) = (3 * n + 2) * K + 1 + i
                        /\ Left("blobs", n, i, K, g) = (3 * n + 3) * K + 1 + i
                        /\ Left("next", n + 1, i, K, g) = (3 * (n + 1) + 1) * K + 1
                        /\ Left("locked", n, i, K, g) = (3 * g + 2) * K + 1
  BY DEF Left
<1> QED
  BY <1>1, <1>2, <1>3, <1>4

\* The sizes that it is made of.
LEMMA Sizes ==
    ASSUME IsFiniteSet(Paths), NEW t \in SUBSET Groups, NEW p \in SUBSET Paths
    PROVE  /\ Cardinality(Paths) + 1 \in Nat \ {0} /\ Cardinality(Groups) \in Nat
           /\ IsFiniteSet(t) /\ Cardinality(t) \in Nat /\ Cardinality(t) <= Cardinality(Groups)
           /\ IsFiniteSet(p) /\ Cardinality(p) \in Nat /\ Cardinality(p) < Cardinality(Paths) + 1
<1>1. IsFiniteSet(Groups)
  <2>1. Repos \in SUBSET Paths
    BY DEF Paths
  <2>2. IsFiniteSet(Repos)
    BY <2>1, FS_Subset
  <2> QED
    BY <2>2, FS_AddElement DEF Groups
<1>2. Cardinality(Paths) \in Nat /\ Cardinality(Groups) \in Nat
  BY <1>1, FS_CardinalityType
<1>3. IsFiniteSet(t) /\ Cardinality(t) \in Nat /\ Cardinality(t) <= Cardinality(Groups)
  BY <1>1, FS_Subset, FS_CardinalityType
<1>4. IsFiniteSet(p) /\ Cardinality(p) \in Nat /\ Cardinality(p) <= Cardinality(Paths)
  BY FS_Subset, FS_CardinalityType
<1> QED
  BY <1>2, <1>3, <1>4

\* A set of which something is taken away is smaller.
LEMMA Smaller ==
    ASSUME NEW S, IsFiniteSet(S), NEW r \in SUBSET S, r # S
    PROVE  Cardinality(r) < Cardinality(S)
<1>1. /\ Cardinality(r) <= Cardinality(S) /\ Cardinality(r) # Cardinality(S)
      /\ IsFiniteSet(r)
  BY FS_Subset
<1>2. Cardinality(r) \in Nat /\ Cardinality(S) \in Nat
  BY <1>1, FS_CardinalityType
<1> QED
  BY <1>1, <1>2

\* Where it is not nothing it is a number.
LEMMA LeftTyped ==
    ASSUME IsFiniteSet(Paths), NEW t \in SUBSET Groups, NEW p \in SUBSET Paths,
           NEW x \in {"next", "others", "blobs", "locked"}
    PROVE  LeftOf(x, t, p) \in Nat
<1>1. PICK n \in Nat, k \in Nat, K \in Nat, g \in Nat :
        /\ n = Cardinality(t) /\ k = Cardinality(p)
        /\ K = Cardinality(Paths) + 1 /\ g = Cardinality(Groups)
  BY Sizes
<1>2. Left(x, n, k, K, g) \in Nat
  <2>1. PICK a \in Nat, b \in Nat : a = n * K /\ b = g * K
    OBVIOUS
  <2>2. /\ (3 * n + 1) * K = 3 * a + K /\ (3 * n + 2) * K = 3 * a + 2 * K
        /\ (3 * n + 3) * K = 3 * a + 3 * K /\ (3 * g + 2) * K = 3 * b + 2 * K
    BY <2>1
  <2> QED
    BY <2>1, <2>2 DEF Left
<1> QED
  BY <1>1, <1>2, Zenon DEF LeftOf

\* What a step does to it: t are the groups still to do and p the transfers.
LEMMA LeftLess ==
    ASSUME IsFiniteSet(Paths), NEW t \in SUBSET Groups, NEW p \in SUBSET Paths,
           NEW q \in SUBSET Paths
    PROVE  /\ LeftOf("idle", t, q) = 0 /\ LeftOf("merged", t, q) = 1
           /\ 1 < LeftOf("next", t, p)
           /\ LeftOf("next", t, q) < LeftOf("others", t, p)
           /\ LeftOf("next", t, q) < LeftOf("blobs", t, p)
           /\ LeftOf("others", t, q) < LeftOf("blobs", t, p)
           /\ \A u \in SUBSET Groups : LeftOf("next", u, q) < LeftOf("locked", t, p)
           /\ q \subseteq p /\ q # p => /\ LeftOf("blobs", t, q) < LeftOf("blobs", t, p)
                                        /\ LeftOf("others", t, q) < LeftOf("others", t, p)
           /\ \A x \in t : /\ LeftOf("blobs", t \ {x}, q) < LeftOf("next", t, p)
                           /\ LeftOf("others", t \ {x}, q) < LeftOf("next", t, p)
<1> DEFINE K == Cardinality(Paths) + 1
           g == Cardinality(Groups)
<1>1. /\ K \in Nat \ {0} /\ g \in Nat
      /\ \A s \in SUBSET Groups : /\ IsFiniteSet(s) /\ Cardinality(s) \in Nat
                                  /\ Cardinality(s) <= g
      /\ \A s \in SUBSET Paths : /\ IsFiniteSet(s) /\ Cardinality(s) \in Nat
                                 /\ Cardinality(s) < K
  BY Sizes
<1>2. /\ \A pl, s, r : LeftOf(pl, s, r) = Left(pl, Cardinality(s), Cardinality(r), K, g)
  BY DEF LeftOf
<1> HIDE DEF K, g
<1>3. PICK n \in Nat, k \in Nat, j \in Nat :
        /\ n = Cardinality(t) /\ k = Cardinality(p) /\ j = Cardinality(q)
  BY <1>1
<1>4. n <= g /\ k < K /\ j < K
  BY <1>1, <1>3
<1>5. /\ LeftOf("idle", t, q) = 0 /\ LeftOf("merged", t, q) = 1
      /\ 1 < LeftOf("next", t, p)
      /\ LeftOf("next", t, q) < LeftOf("others", t, p)
      /\ LeftOf("next", t, q) < LeftOf("blobs", t, p)
      /\ LeftOf("others", t, q) < LeftOf("blobs", t, p)
  <2>1. /\ Left("idle", n, j, K, g) = 0 /\ Left("merged", n, j, K, g) = 1
        /\ Left("merged", n, k, K, g) = 1 /\ Left("merged", n, k, K, g) < Left("next", n, k, K, g)
        /\ Left("next", n, j, K, g) < Left("others", n, k, K, g)
        /\ Left("next", n, j, K, g) < Left("blobs", n, k, K, g)
        /\ Left("others", n, j, K, g) < Left("blobs", n, k, K, g)
    <3>1. /\ Left("merged", n, k, K, g) = 1 /\ Left("merged", n, k, K, g) < Left("next", n, k, K, g)
      BY <1>1, <1>4, LeftOrder
    <3>2. /\ Left("idle", n, j, K, g) = 0 /\ Left("merged", n, j, K, g) = 1
          /\ Left("next", n, j, K, g) < Left("others", n, k, K, g)
          /\ Left("next", n, j, K, g) < Left("blobs", n, k, K, g)
          /\ Left("others", n, j, K, g) < Left("blobs", n, k, K, g)
      BY <1>1, <1>4, LeftOrder
    <3> QED
      BY <3>1, <3>2
  <2>2. 1 < Left("next", n, k, K, g)
    BY <2>1
  <2> QED
    BY <1>2, <1>3, <2>1, <2>2, Zenon
<1>6. ASSUME NEW u \in SUBSET Groups PROVE LeftOf("next", u, q) < LeftOf("locked", t, p)
  <2>1. PICK m \in Nat : m = Cardinality(u) /\ m <= g
    BY <1>1
  <2>2. /\ Left("next", m, j, K, g) < Left("locked", m, k, K, g)
    BY <1>1, <1>4, <2>1, LeftOrder
  <2>3. Left("locked", m, k, K, g) = Left("locked", n, k, K, g)
    BY DEF Left
  <2> QED
    BY <1>2, <1>3, <2>1, <2>2, <2>3, Zenon
<1>7. ASSUME q \subseteq p, q # p
      PROVE  /\ LeftOf("blobs", t, q) < LeftOf("blobs", t, p)
             /\ LeftOf("others", t, q) < LeftOf("others", t, p)
  <2>1. j < k
    BY <1>1, <1>3, <1>7, Smaller
  <2>2. PICK b \in Nat, o \in Nat : b = (3 * n + 3) * K + 1 /\ o = (3 * n + 2) * K + 1
    BY <1>1
  <2>3. /\ Left("blobs", n, j, K, g) = b + j /\ Left("blobs", n, k, K, g) = b + k
        /\ Left("others", n, j, K, g) = o + j /\ Left("others", n, k, K, g) = o + k
    BY <2>2 DEF Left
  <2>4. /\ Left("blobs", n, j, K, g) < Left("blobs", n, k, K, g)
        /\ Left("others", n, j, K, g) < Left("others", n, k, K, g)
    BY <2>1, <2>2, <2>3
  <2> QED
    BY <1>2, <1>3, <2>4, Zenon
<1>8. ASSUME NEW x \in t
      PROVE  /\ LeftOf("blobs", t \ {x}, q) < LeftOf("next", t, p)
             /\ LeftOf("others", t \ {x}, q) < LeftOf("next", t, p)
  <2>1. Cardinality(t \ {x}) = IF x \in t THEN Cardinality(t) - 1 ELSE Cardinality(t)
    <3>1. IsFiniteSet(t)
      BY <1>1
    <3> QED
      BY <3>1, FS_RemoveElement
  <2>2. PICK m \in Nat : m = Cardinality(t \ {x}) /\ n = m + 1
    <3>1. Cardinality(t \ {x}) = n - 1
      BY <1>8, <1>3, <2>1
    <3>2. t \ {x} \in SUBSET Groups
      OBVIOUS
    <3>3. Cardinality(t \ {x}) \in Nat
      BY <1>1, <3>2
    <3> QED
      BY <3>1, <3>3
  <2>3. m <= g
    BY <1>4, <1>1, <2>2
  <2>4. /\ Left("blobs", m, j, K, g) < Left("next", m + 1, k, K, g)
        /\ Left("others", m, j, K, g) < Left("next", m + 1, k, K, g)
    BY <1>1, <1>4, <2>3, LeftOrder
  <2> QED
    BY <1>2, <1>3, <2>2, <2>4, Zenon
<1> QED
  BY <1>5, <1>6, <1>7, <1>8, Zenon

\* Desktop, people and prunes leave it alone.
LEMMA OthersLeaveIt ==
    ASSUME Desktop \/ (\E p \in HandPaths : HandPut(p)) \/ Prune
    PROVE  SyncLeft' = SyncLeft
<1>1. UNCHANGED <<pc, todo, pending>>
  <2>1. CASE Desktop
    BY <2>1 DEF Desktop, Publish, DeleteRevision, ChangeContent, ChangeMode, ChangeAdapters,
                DesktopOnly, run, copying
  <2>2. CASE \E p \in HandPaths : HandPut(p)
    BY <2>2 DEF HandPut, run, copying
  <2>3. CASE Prune
    BY <2>3 DEF Prune, PruneList, PruneMark, NothingStale, PruneManifest, PrunePublish, KillPrune,
                PruneDelete, SyncUntouched, run, copying
  <2> QED
    BY <2>1, <2>2, <2>3
<1> QED
  BY <1>1 DEF SyncLeft

\* Every step of a sync that runs lowers it, its last one to nothing.
LEMMA SyncLowersIt ==
    ASSUME IsFiniteSet(Paths), TypeOK, TypeOK', pc # "idle", Sync
    PROVE  SyncLeft' < SyncLeft
<1>1. /\ todo \in SUBSET Groups /\ todo' \in SUBSET Groups
      /\ pending \in SUBSET Paths /\ pending' \in SUBSET Paths
      /\ pc \in {"locked", "next", "blobs", "others", "merged"}
  BY DEF TypeOK, SyncType
<1>2. SyncLeft = LeftOf(pc, todo, pending) /\ SyncLeft' = LeftOf(pc', todo', pending')
  BY DEF SyncLeft
<1>3. LeftOf(pc', todo', pending') = 0 => SyncLeft' < SyncLeft
  <2>1. /\ LeftOf("merged", todo, pending) = 1 /\ 1 < LeftOf("next", todo, pending)
        /\ LeftOf("next", todo, pending) < LeftOf("others", todo, pending)
        /\ LeftOf("next", todo, pending) < LeftOf("blobs", todo, pending)
        /\ LeftOf("next", todo, pending) < LeftOf("locked", todo, pending)
    BY <1>1, LeftLess
  <2>2. LeftOf("next", todo, pending) \in Nat /\ \A x \in {"others", "blobs", "locked"} : LeftOf(x, todo, pending) \in Nat
    BY <1>1, LeftTyped
  <2>3. 0 < LeftOf(pc, todo, pending)
    BY <1>1, <2>1, <2>2
  <2> QED
    BY <1>2, <2>3
<1>4. ASSUME Gone PROVE SyncLeft' < SyncLeft
  BY <1>1, <1>3, <1>4, LeftLess DEF Gone
<1>5. ASSUME NextGroup, todo' = todo, pc \in {"blobs", "others"} PROVE SyncLeft' < SyncLeft
  BY <1>1, <1>2, <1>5, LeftLess DEF NextGroup
<1>6. ASSUME NEW gs \in Asked, SyncPlan(gs) PROVE SyncLeft' < SyncLeft
  <2>1. pc = "locked" /\ pc' = "next" /\ pending' = pending
    BY <1>6 DEF SyncPlan, copying
  <2> QED
    BY <1>1, <1>2, <2>1, LeftLess
<1>7. ASSUME NEW r \in Repos, StartBlobs(r) PROVE SyncLeft' < SyncLeft
  <2>1. pc = "next" /\ pc' = "blobs" /\ r \in todo /\ todo' = todo \ {r}
    BY <1>7 DEF StartBlobs
  <2> QED
    BY <1>1, <1>2, <2>1, LeftLess
<1>8. ASSUME StartAdapters PROVE SyncLeft' < SyncLeft
  <2>1. pc = "next" /\ pc' = "others" /\ AdapterGroup \in todo /\ todo' = todo \ {AdapterGroup}
    BY <1>8 DEF StartAdapters
  <2> QED
    BY <1>1, <1>2, <2>1, LeftLess
<1>9. ASSUME NEW p \in Paths, CopyBlob(p) \/ CopyOther(p) \/ CannotRead(p)
      PROVE  SyncLeft' < SyncLeft
  <2>1. /\ pc \in {"blobs", "others"} /\ pc' = pc /\ todo' = todo
        /\ p \in pending /\ pending' = pending \ {p}
    BY <1>9 DEF CopyBlob, CopyOther, CannotRead, run
  <2> QED
    BY <1>1, <1>2, <2>1, LeftLess
<1>10. ASSUME Disconnect PROVE SyncLeft' < SyncLeft
  <2>1. pc \in {"blobs", "others"} /\ pc' = pc /\ todo' = todo /\ pending # {} /\ pending' = {}
    BY <1>10 DEF Disconnect, run
  <2> QED
    BY <1>1, <1>2, <2>1, LeftLess
<1>11. ASSUME BlobsFailed \/ HashBad \/ OthersDone PROVE SyncLeft' < SyncLeft
  BY <1>5, <1>11 DEF BlobsFailed, HashBad, OthersDone, run
<1>12. ASSUME HashGood PROVE SyncLeft' < SyncLeft
  <2>1. pc = "blobs" /\ pc' = "others" /\ todo' = todo
    BY <1>12 DEF HashGood, run
  <2> QED
    BY <1>1, <1>2, <2>1, LeftLess
<1>13. ASSUME MergeManifest PROVE SyncLeft' < SyncLeft
  <2>1. pc = "next" /\ pc' = "merged" /\ todo' = todo /\ pending' = pending
    BY <1>13 DEF MergeManifest, run, copying
  <2> QED
    BY <1>1, <1>2, <2>1, LeftLess
<1>14. ASSUME SyncLock PROVE SyncLeft' < SyncLeft
  BY <1>14 DEF SyncLock
<1>15. ASSUME SyncRefuse \/ PublishManifest \/ LostManifest \/ KillSync PROVE SyncLeft' < SyncLeft
  BY <1>4, <1>15 DEF SyncRefuse, PublishManifest, LostManifest, KillSync
<1> QED
  BY <1>6, <1>7, <1>8, <1>9, <1>10, <1>11, <1>12, <1>13, <1>14, <1>15 DEF Sync, SyncStep

\* No sync goes on for ever, whatever the desktop, people and prunes do meanwhile:
\* from the lock to its end each of its own steps brings it nearer the end, and
\* nothing that anyone else does sets it back (bin/lab 1657-1725).
THEOREM SyncGetsOnHolds == ASSUME IsFiniteSet(Paths) PROVE Spec => SyncGetsOn
<1>1. ASSUME TypeOK, TypeOK', [Next]_vars, pc # "idle", vars' # vars
      PROVE  /\ SyncLeft \in Nat
             /\ IF Sync THEN SyncLeft' < SyncLeft ELSE SyncLeft' = SyncLeft
  <2>1. Next
    BY <1>1
  <2>2. SyncLeft \in Nat
    <3>1. /\ todo \in SUBSET Groups /\ pending \in SUBSET Paths
          /\ pc \in {"locked", "next", "blobs", "others"} \/ pc = "merged"
      BY <1>1 DEF TypeOK, SyncType
    <3> QED
      BY <3>1, LeftTyped, LeftLess DEF SyncLeft
  <2> QED
    BY <1>1, <2>1, <2>2, SyncLowersIt, OthersLeaveIt DEF Next
<1>2. TypeOK /\ TypeOK' /\ [Next]_vars
        => [pc # "idle" => /\ SyncLeft \in Nat
                           /\ IF Sync THEN SyncLeft' < SyncLeft ELSE SyncLeft' = SyncLeft]_vars
  BY <1>1
<1> QED
  BY <1>2, TypeCorrect, PTL DEF Spec, SyncGetsOn

=============================================================================
