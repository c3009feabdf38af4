----------------------------- MODULE UploadProofs -----------------------------
(***************************************************************************)
(* Proofs about UploadStaging, for any processes, uploads and retention      *)
(* time: no request reads a half-written file, and no upload that a client   *)
(* may name is lost to an error or a crash.                                  *)
(***************************************************************************)
EXTENDS UploadStaging, TLAPS

\* A preview-upload before its directory exists, before its file is complete, and
\* from the directory's creation to its answer.
Preview(w) == pc[w] # "idle" /\ req[w] = "preview"
Before(w) == Preview(w) /\ pc[w] \in {"sweep", "remove", "mkdir"}
Staging(w) == Preview(w) /\ pc[w] \in {"open", "rename"}
Owns(w) == Preview(w) /\ pc[w] \in {"open", "rename", "register", "parse", "persist", "answer"}

\* The steps of a request are those of its kind.
KindFits == \A w \in Worker : /\ pc[w] \in {"mkdir", "open", "rename"} => req[w] = "preview"
                              /\ pc[w] = "resolve" => req[w] = "ingest"

\* No two preview-uploads are about the same upload.
OneStager == \A v, w \in Worker : Preview(v) /\ Preview(w) /\ up[v] = up[w] => v = w

\* Until an upload is complete there is no file of its name, and nobody reads it.
NoFileYet == \A w \in Worker : /\ Before(w) => dir[up[w]] = "absent"
                               /\ Staging(w) => dir[up[w]] # "file"
NobodyReads == \A v, w \in Worker : (Before(v) \/ Staging(v)) /\ up[w] = up[v] =>
                                      pc[w] \notin Reading

\* An upload whose preview has not been answered is nobody's to name yet, and is
\* not removed but by a cleanup or by an ingest-upload that guessed its id.
NotGiven == \A w \in Worker : Owns(w) => up[w] \notin given
KeptForAnswer == \A w \in Worker : Owns(w) /\ dir[up[w]] = "absent" =>
                                     gone[up[w]] \in {"consumed", "expired"}

UInv == /\ TypeOK /\ KindFits /\ OneStager /\ NoFileYet /\ NobodyReads /\ NoHalfFile
        /\ NotGiven /\ KeptForAnswer /\ KeptForIngest

-----------------------------------------------------------------------------
\* Every step keeps directories and requests in their ranges.
LEMMA TypeStep ==
  ASSUME UInv, [Next]_vars
  PROVE  TypeOK'
<1>1. ASSUME NEW w \in Worker, StartPreview(w)
      PROVE  TypeOK'
  BY <1>1, NoneIsNoUpload, RetentionPositive
     DEF StartPreview, Begin, Goto, files, UInv, TypeOK, DirState, PC, Reading, Fate
<1>2. ASSUME NEW w \in Worker, StartIngest(w)
      PROVE  TypeOK'
  BY <1>2, NoneIsNoUpload, RetentionPositive
     DEF StartIngest, Begin, Goto, files, UInv, TypeOK, DirState, PC, Reading, Fate
<1>3. ASSUME NEW w \in Worker, Visit(w)
      PROVE  TypeOK'
  BY <1>3, NoneIsNoUpload, RetentionPositive
     DEF Visit, Goto, files, UInv, TypeOK, DirState, PC, Reading, Fate
<1>4. ASSUME NEW w \in Worker, RemoveExpired(w)
      PROVE  TypeOK'
  <2>. USE DEF UInv, TypeOK, RemoveExpired, RemoveTree
  <2>1. dir' \in [Upload -> DirState]
    BY <1>4 DEF DirState
  <2>2. age' \in [Upload -> 0..(Retention + 1)]
    <3>1. age' = [age EXCEPT ![victim[w]] = 0] /\ age \in [Upload -> 0..(Retention + 1)]
      BY <1>4
    <3>2. 0 \in 0..(Retention + 1)
      BY RetentionPositive
    <3>. DEFINE T == 0..(Retention + 1)
    <3>3. age \in [Upload -> T] /\ 0 \in T
      BY <3>1, <3>2
    <3>. HIDE DEF T
    <3>4. [age EXCEPT ![victim[w]] = 0] \in [Upload -> T]
      BY <3>3, Zenon
    <3>5. QED
      BY <3>1, <3>4, Zenon DEF T
  <2>3. gone' \in [Upload -> Fate]
    BY <1>4 DEF Fate
  <2>4. /\ pc' \in [Worker -> PC] /\ victim' \in [Worker -> Upload \cup {None}]
        /\ \A v \in Worker : up'[v] = None <=> pc'[v] = "idle"
    BY <1>4 DEF PC, Goto
  <2>5. QED
    BY <1>4, <2>1, <2>2, <2>3, <2>4
<1>5. ASSUME NEW w \in Worker, EndSweep(w)
      PROVE  TypeOK'
  BY <1>5, NoneIsNoUpload, RetentionPositive
     DEF EndSweep, Goto, files, UInv, TypeOK, DirState, PC, Reading, Fate
<1>6. ASSUME NEW w \in Worker, Mkdir(w)
      PROVE  TypeOK'
  BY <1>6, NoneIsNoUpload, RetentionPositive
     DEF Mkdir, Goto, files, UInv, TypeOK, DirState, PC, Reading, Fate
<1>7. ASSUME NEW w \in Worker, OpenPart(w)
      PROVE  TypeOK'
  BY <1>7, NoneIsNoUpload, RetentionPositive
     DEF OpenPart, Goto, files, UInv, TypeOK, DirState, PC, Reading, Fate
<1>8. ASSUME NEW w \in Worker, Rename(w)
      PROVE  TypeOK'
  BY <1>8, NoneIsNoUpload, RetentionPositive
     DEF Rename, Goto, files, UInv, TypeOK, DirState, PC, Reading, Fate
<1>9. ASSUME NEW w \in Worker, StageFails(w)
      PROVE  TypeOK'
  BY <1>9, NoneIsNoUpload, RetentionPositive
     DEF StageFails, RemoveTree, End, Goto, files, UInv, TypeOK, DirState, PC,
         Reading, Fate
<1>10. ASSUME NEW w \in Worker, Resolve(w)
      PROVE  TypeOK'
  BY <1>10, NoneIsNoUpload, RetentionPositive
     DEF Resolve, End, Goto, files, UInv, TypeOK, DirState, PC, Reading, Fate
<1>11. ASSUME NEW w \in Worker, Register(w)
      PROVE  TypeOK'
  BY <1>11, NoneIsNoUpload, RetentionPositive
     DEF Register, Goto, files, UInv, TypeOK, DirState, PC, Reading, Fate
<1>12. ASSUME NEW w \in Worker, Parse(w)
      PROVE  TypeOK'
  BY <1>12, NoneIsNoUpload, RetentionPositive
     DEF Parse, Goto, files, UInv, TypeOK, DirState, PC, Reading, Fate
<1>13. ASSUME NEW w \in Worker, StopEarly(w)
      PROVE  TypeOK'
  BY <1>13, NoneIsNoUpload, RetentionPositive
     DEF StopEarly, Goto, files, UInv, TypeOK, DirState, PC, Reading, Fate
<1>14. ASSUME NEW w \in Worker, Persist(w)
      PROVE  TypeOK'
  BY <1>14, NoneIsNoUpload, RetentionPositive
     DEF Persist, Goto, files, UInv, TypeOK, DirState, PC, Reading, Fate
<1>15. ASSUME NEW w \in Worker, Raise(w)
      PROVE  TypeOK'
  BY <1>15, NoneIsNoUpload, RetentionPositive
     DEF Raise, RemoveTree, End, Goto, files, UInv, TypeOK, DirState, PC, Reading,
         Fate
<1>16. ASSUME NEW w \in Worker, Answer(w)
      PROVE  TypeOK'
  BY <1>16, NoneIsNoUpload, RetentionPositive
     DEF Answer, RemoveTree, End, Goto, files, UInv, TypeOK, DirState, PC, Reading,
         Fate
<1>17. ASSUME NEW w \in Worker, Crash(w)
      PROVE  TypeOK'
  BY <1>17, NoneIsNoUpload, RetentionPositive
     DEF Crash, End, Goto, files, UInv, TypeOK, DirState, PC, Reading, Fate
<1>18. ASSUME Tick
      PROVE  TypeOK'
  BY <1>18, NoneIsNoUpload, RetentionPositive
     DEF Tick, request, Goto, files, UInv, TypeOK, DirState, PC, Reading, Fate
<1>19. CASE UNCHANGED vars
  BY <1>19
     DEF vars, files, request, UInv, TypeOK, DirState, PC, Reading, Fate
<1>20. QED
  BY <1>1, <1>2, <1>3, <1>4, <1>5, <1>6, <1>7, <1>8, <1>9,
     <1>10, <1>11, <1>12, <1>13, <1>14, <1>15, <1>16, <1>17, <1>18, <1>19
     DEF Next, Continue

\* Every step is one of the request's kind.
LEMMA KindStep ==
  ASSUME UInv, [Next]_vars
  PROVE  KindFits'
<1>1. ASSUME NEW w \in Worker, StartPreview(w)
      PROVE  KindFits'
  BY <1>1, NoneIsNoUpload
     DEF StartPreview, Begin, FreshUpload, Goto, files, UInv, TypeOK, KindFits,
         Reading, PC
<1>2. ASSUME NEW w \in Worker, StartIngest(w)
      PROVE  KindFits'
  BY <1>2, NoneIsNoUpload
     DEF StartIngest, Begin, Goto, files, UInv, TypeOK, KindFits, Reading, PC
<1>3. ASSUME NEW w \in Worker, Visit(w)
      PROVE  KindFits'
  BY <1>3, NoneIsNoUpload
     DEF Visit, Goto, files, UInv, TypeOK, KindFits, Reading, PC
<1>4. ASSUME NEW w \in Worker, RemoveExpired(w)
      PROVE  KindFits'
  BY <1>4, NoneIsNoUpload
     DEF RemoveExpired, RemoveTree, Goto, files, UInv, TypeOK, KindFits, Reading, PC
<1>5. ASSUME NEW w \in Worker, EndSweep(w)
      PROVE  KindFits'
  BY <1>5, NoneIsNoUpload
     DEF EndSweep, Goto, files, UInv, TypeOK, KindFits, Reading, PC
<1>6. ASSUME NEW w \in Worker, Mkdir(w)
      PROVE  KindFits'
  BY <1>6, NoneIsNoUpload
     DEF Mkdir, Goto, files, UInv, TypeOK, KindFits, Reading, PC
<1>7. ASSUME NEW w \in Worker, OpenPart(w)
      PROVE  KindFits'
  BY <1>7, NoneIsNoUpload
     DEF OpenPart, Goto, files, UInv, TypeOK, KindFits, Reading, PC
<1>8. ASSUME NEW w \in Worker, Rename(w)
      PROVE  KindFits'
  BY <1>8, NoneIsNoUpload
     DEF Rename, Goto, files, UInv, TypeOK, KindFits, Reading, PC
<1>9. ASSUME NEW w \in Worker, StageFails(w)
      PROVE  KindFits'
  BY <1>9, NoneIsNoUpload
     DEF StageFails, RemoveTree, End, Goto, files, UInv, TypeOK, KindFits, Reading,
         PC
<1>10. ASSUME NEW w \in Worker, Resolve(w)
      PROVE  KindFits'
  BY <1>10, NoneIsNoUpload
     DEF Resolve, End, Goto, files, UInv, TypeOK, KindFits, Reading, PC
<1>11. ASSUME NEW w \in Worker, Register(w)
      PROVE  KindFits'
  BY <1>11, NoneIsNoUpload
     DEF Register, Goto, files, UInv, TypeOK, KindFits, Reading, PC
<1>12. ASSUME NEW w \in Worker, Parse(w)
      PROVE  KindFits'
  BY <1>12, NoneIsNoUpload
     DEF Parse, Goto, files, UInv, TypeOK, KindFits, Reading, PC
<1>13. ASSUME NEW w \in Worker, StopEarly(w)
      PROVE  KindFits'
  BY <1>13, NoneIsNoUpload
     DEF StopEarly, Goto, files, UInv, TypeOK, KindFits, Reading, PC
<1>14. ASSUME NEW w \in Worker, Persist(w)
      PROVE  KindFits'
  BY <1>14, NoneIsNoUpload
     DEF Persist, Goto, files, UInv, TypeOK, KindFits, Reading, PC
<1>15. ASSUME NEW w \in Worker, Raise(w)
      PROVE  KindFits'
  BY <1>15, NoneIsNoUpload
     DEF Raise, RemoveTree, End, Goto, files, UInv, TypeOK, KindFits, Reading, PC
<1>16. ASSUME NEW w \in Worker, Answer(w)
      PROVE  KindFits'
  BY <1>16, NoneIsNoUpload
     DEF Answer, RemoveTree, End, Goto, files, UInv, TypeOK, KindFits, Reading, PC
<1>17. ASSUME NEW w \in Worker, Crash(w)
      PROVE  KindFits'
  BY <1>17, NoneIsNoUpload
     DEF Crash, End, Goto, files, UInv, TypeOK, KindFits, Reading, PC
<1>18. ASSUME Tick
      PROVE  KindFits'
  BY <1>18, NoneIsNoUpload
     DEF Tick, request, Goto, files, UInv, TypeOK, KindFits, Reading, PC
<1>19. CASE UNCHANGED vars
  BY <1>19
     DEF vars, files, request, UInv, TypeOK, KindFits, Reading, PC
<1>20. QED
  BY <1>1, <1>2, <1>3, <1>4, <1>5, <1>6, <1>7, <1>8, <1>9,
     <1>10, <1>11, <1>12, <1>13, <1>14, <1>15, <1>16, <1>17, <1>18, <1>19
     DEF Next, Continue

\* An id is used again only once nobody works on it.
LEMMA OneStagerStep ==
  ASSUME UInv, [Next]_vars
  PROVE  OneStager'
<1>1. ASSUME NEW w \in Worker, StartPreview(w)
      PROVE  OneStager'
  BY <1>1, NoneIsNoUpload
     DEF StartPreview, Begin, FreshUpload, Goto, files, UInv, TypeOK, OneStager,
         Preview, Reading, KindFits
<1>2. ASSUME NEW w \in Worker, StartIngest(w)
      PROVE  OneStager'
  BY <1>2, NoneIsNoUpload
     DEF StartIngest, Begin, Goto, files, UInv, TypeOK, OneStager, Preview, Reading,
         KindFits
<1>3. ASSUME NEW w \in Worker, Visit(w)
      PROVE  OneStager'
  BY <1>3, NoneIsNoUpload
     DEF Visit, Goto, files, UInv, TypeOK, OneStager, Preview, Reading, KindFits
<1>4. ASSUME NEW w \in Worker, RemoveExpired(w)
      PROVE  OneStager'
  BY <1>4, NoneIsNoUpload
     DEF RemoveExpired, RemoveTree, Goto, files, UInv, TypeOK, OneStager, Preview,
         Reading, KindFits
<1>5. ASSUME NEW w \in Worker, EndSweep(w)
      PROVE  OneStager'
  BY <1>5, NoneIsNoUpload
     DEF EndSweep, Goto, files, UInv, TypeOK, OneStager, Preview, Reading, KindFits
<1>6. ASSUME NEW w \in Worker, Mkdir(w)
      PROVE  OneStager'
  BY <1>6, NoneIsNoUpload
     DEF Mkdir, Goto, files, UInv, TypeOK, OneStager, Preview, Reading, KindFits
<1>7. ASSUME NEW w \in Worker, OpenPart(w)
      PROVE  OneStager'
  BY <1>7, NoneIsNoUpload
     DEF OpenPart, Goto, files, UInv, TypeOK, OneStager, Preview, Reading, KindFits
<1>8. ASSUME NEW w \in Worker, Rename(w)
      PROVE  OneStager'
  BY <1>8, NoneIsNoUpload
     DEF Rename, Goto, files, UInv, TypeOK, OneStager, Preview, Reading, KindFits
<1>9. ASSUME NEW w \in Worker, StageFails(w)
      PROVE  OneStager'
  BY <1>9, NoneIsNoUpload
     DEF StageFails, RemoveTree, End, Goto, files, UInv, TypeOK, OneStager, Preview,
         Reading, KindFits
<1>10. ASSUME NEW w \in Worker, Resolve(w)
      PROVE  OneStager'
  BY <1>10, NoneIsNoUpload
     DEF Resolve, End, Goto, files, UInv, TypeOK, OneStager, Preview, Reading,
         KindFits
<1>11. ASSUME NEW w \in Worker, Register(w)
      PROVE  OneStager'
  BY <1>11, NoneIsNoUpload
     DEF Register, Goto, files, UInv, TypeOK, OneStager, Preview, Reading, KindFits
<1>12. ASSUME NEW w \in Worker, Parse(w)
      PROVE  OneStager'
  BY <1>12, NoneIsNoUpload
     DEF Parse, Goto, files, UInv, TypeOK, OneStager, Preview, Reading, KindFits
<1>13. ASSUME NEW w \in Worker, StopEarly(w)
      PROVE  OneStager'
  BY <1>13, NoneIsNoUpload
     DEF StopEarly, Goto, files, UInv, TypeOK, OneStager, Preview, Reading, KindFits
<1>14. ASSUME NEW w \in Worker, Persist(w)
      PROVE  OneStager'
  BY <1>14, NoneIsNoUpload
     DEF Persist, Goto, files, UInv, TypeOK, OneStager, Preview, Reading, KindFits
<1>15. ASSUME NEW w \in Worker, Raise(w)
      PROVE  OneStager'
  BY <1>15, NoneIsNoUpload
     DEF Raise, RemoveTree, End, Goto, files, UInv, TypeOK, OneStager, Preview,
         Reading, KindFits
<1>16. ASSUME NEW w \in Worker, Answer(w)
      PROVE  OneStager'
  BY <1>16, NoneIsNoUpload
     DEF Answer, RemoveTree, End, Goto, files, UInv, TypeOK, OneStager, Preview,
         Reading, KindFits
<1>17. ASSUME NEW w \in Worker, Crash(w)
      PROVE  OneStager'
  BY <1>17, NoneIsNoUpload
     DEF Crash, End, Goto, files, UInv, TypeOK, OneStager, Preview, Reading,
         KindFits
<1>18. ASSUME Tick
      PROVE  OneStager'
  BY <1>18, NoneIsNoUpload
     DEF Tick, request, Goto, files, UInv, TypeOK, OneStager, Preview, Reading,
         KindFits
<1>19. CASE UNCHANGED vars
  BY <1>19
     DEF vars, files, request, UInv, TypeOK, OneStager, Preview, Reading, KindFits
<1>20. QED
  BY <1>1, <1>2, <1>3, <1>4, <1>5, <1>6, <1>7, <1>8, <1>9,
     <1>10, <1>11, <1>12, <1>13, <1>14, <1>15, <1>16, <1>17, <1>18, <1>19
     DEF Next, Continue

\* Only the request that stages an upload makes its directory and its file.
LEMMA NoFileYetStep ==
  ASSUME UInv, [Next]_vars
  PROVE  NoFileYet'
<1>1. ASSUME NEW w \in Worker, StartPreview(w)
      PROVE  NoFileYet'
  BY <1>1, NoneIsNoUpload
     DEF StartPreview, Begin, FreshUpload, Goto, files, UInv, TypeOK, NoFileYet,
         Before, Staging, OneStager, Preview, KindFits, Reading, Expired
<1>2. ASSUME NEW w \in Worker, StartIngest(w)
      PROVE  NoFileYet'
  BY <1>2, NoneIsNoUpload
     DEF StartIngest, Begin, Goto, files, UInv, TypeOK, NoFileYet, Before, Staging,
         OneStager, Preview, KindFits, Reading, Expired
<1>3. ASSUME NEW w \in Worker, Visit(w)
      PROVE  NoFileYet'
  BY <1>3, NoneIsNoUpload
     DEF Visit, Goto, files, UInv, TypeOK, NoFileYet, Before, Staging, OneStager,
         Preview, KindFits, Reading, Expired
<1>4. ASSUME NEW w \in Worker, RemoveExpired(w)
      PROVE  NoFileYet'
  BY <1>4, NoneIsNoUpload
     DEF RemoveExpired, RemoveTree, Goto, files, UInv, TypeOK, NoFileYet, Before,
         Staging, OneStager, Preview, KindFits, Reading, Expired
<1>5. ASSUME NEW w \in Worker, EndSweep(w)
      PROVE  NoFileYet'
  BY <1>5, NoneIsNoUpload
     DEF EndSweep, Goto, files, UInv, TypeOK, NoFileYet, Before, Staging, OneStager,
         Preview, KindFits, Reading, Expired
<1>6. ASSUME NEW w \in Worker, Mkdir(w)
      PROVE  NoFileYet'
  BY <1>6, NoneIsNoUpload
     DEF Mkdir, Goto, files, UInv, TypeOK, NoFileYet, Before, Staging, OneStager,
         Preview, KindFits, Reading, Expired
<1>7. ASSUME NEW w \in Worker, OpenPart(w)
      PROVE  NoFileYet'
  BY <1>7, NoneIsNoUpload
     DEF OpenPart, Goto, files, UInv, TypeOK, NoFileYet, Before, Staging, OneStager,
         Preview, KindFits, Reading, Expired
<1>8. ASSUME NEW w \in Worker, Rename(w)
      PROVE  NoFileYet'
  BY <1>8, NoneIsNoUpload
     DEF Rename, Goto, files, UInv, TypeOK, NoFileYet, Before, Staging, OneStager,
         Preview, KindFits, Reading, Expired
<1>9. ASSUME NEW w \in Worker, StageFails(w)
      PROVE  NoFileYet'
  BY <1>9, NoneIsNoUpload
     DEF StageFails, RemoveTree, End, Goto, files, UInv, TypeOK, NoFileYet, Before,
         Staging, OneStager, Preview, KindFits, Reading, Expired
<1>10. ASSUME NEW w \in Worker, Resolve(w)
      PROVE  NoFileYet'
  BY <1>10, NoneIsNoUpload
     DEF Resolve, End, Goto, files, UInv, TypeOK, NoFileYet, Before, Staging,
         OneStager, Preview, KindFits, Reading, Expired
<1>11. ASSUME NEW w \in Worker, Register(w)
      PROVE  NoFileYet'
  BY <1>11, NoneIsNoUpload
     DEF Register, Goto, files, UInv, TypeOK, NoFileYet, Before, Staging, OneStager,
         Preview, KindFits, Reading, Expired
<1>12. ASSUME NEW w \in Worker, Parse(w)
      PROVE  NoFileYet'
  BY <1>12, NoneIsNoUpload
     DEF Parse, Goto, files, UInv, TypeOK, NoFileYet, Before, Staging, OneStager,
         Preview, KindFits, Reading, Expired
<1>13. ASSUME NEW w \in Worker, StopEarly(w)
      PROVE  NoFileYet'
  BY <1>13, NoneIsNoUpload
     DEF StopEarly, Goto, files, UInv, TypeOK, NoFileYet, Before, Staging,
         OneStager, Preview, KindFits, Reading, Expired
<1>14. ASSUME NEW w \in Worker, Persist(w)
      PROVE  NoFileYet'
  BY <1>14, NoneIsNoUpload
     DEF Persist, Goto, files, UInv, TypeOK, NoFileYet, Before, Staging, OneStager,
         Preview, KindFits, Reading, Expired
<1>15. ASSUME NEW w \in Worker, Raise(w)
      PROVE  NoFileYet'
  BY <1>15, NoneIsNoUpload
     DEF Raise, RemoveTree, End, Goto, files, UInv, TypeOK, NoFileYet, Before,
         Staging, OneStager, Preview, KindFits, Reading, Expired
<1>16. ASSUME NEW w \in Worker, Answer(w)
      PROVE  NoFileYet'
  BY <1>16, NoneIsNoUpload
     DEF Answer, RemoveTree, End, Goto, files, UInv, TypeOK, NoFileYet, Before,
         Staging, OneStager, Preview, KindFits, Reading, Expired
<1>17. ASSUME NEW w \in Worker, Crash(w)
      PROVE  NoFileYet'
  BY <1>17, NoneIsNoUpload
     DEF Crash, End, Goto, files, UInv, TypeOK, NoFileYet, Before, Staging,
         OneStager, Preview, KindFits, Reading, Expired
<1>18. ASSUME Tick
      PROVE  NoFileYet'
  BY <1>18, NoneIsNoUpload
     DEF Tick, request, Goto, files, UInv, TypeOK, NoFileYet, Before, Staging,
         OneStager, Preview, KindFits, Reading, Expired
<1>19. CASE UNCHANGED vars
  BY <1>19
     DEF vars, files, request, UInv, TypeOK, NoFileYet, Before, Staging, OneStager,
         Preview, KindFits, Reading, Expired
<1>20. QED
  BY <1>1, <1>2, <1>3, <1>4, <1>5, <1>6, <1>7, <1>8, <1>9,
     <1>10, <1>11, <1>12, <1>13, <1>14, <1>15, <1>16, <1>17, <1>18, <1>19
     DEF Next, Continue

\* Nobody finds a file to read before it is complete.
LEMMA NobodyReadsStep ==
  ASSUME UInv, [Next]_vars
  PROVE  NobodyReads'
<1>1. ASSUME NEW w \in Worker, StartPreview(w)
      PROVE  NobodyReads'
  BY <1>1, NoneIsNoUpload
     DEF StartPreview, Begin, FreshUpload, Goto, files, UInv, TypeOK, NobodyReads,
         NoFileYet, Before, Staging, OneStager, Preview, KindFits, Reading
<1>2. ASSUME NEW w \in Worker, StartIngest(w)
      PROVE  NobodyReads'
  BY <1>2, NoneIsNoUpload
     DEF StartIngest, Begin, Goto, files, UInv, TypeOK, NobodyReads, NoFileYet,
         Before, Staging, OneStager, Preview, KindFits, Reading
<1>3. ASSUME NEW w \in Worker, Visit(w)
      PROVE  NobodyReads'
  BY <1>3, NoneIsNoUpload
     DEF Visit, Goto, files, UInv, TypeOK, NobodyReads, NoFileYet, Before, Staging,
         OneStager, Preview, KindFits, Reading
<1>4. ASSUME NEW w \in Worker, RemoveExpired(w)
      PROVE  NobodyReads'
  BY <1>4, NoneIsNoUpload
     DEF RemoveExpired, RemoveTree, Goto, files, UInv, TypeOK, NobodyReads,
         NoFileYet, Before, Staging, OneStager, Preview, KindFits, Reading
<1>5. ASSUME NEW w \in Worker, EndSweep(w)
      PROVE  NobodyReads'
  BY <1>5, NoneIsNoUpload
     DEF EndSweep, Goto, files, UInv, TypeOK, NobodyReads, NoFileYet, Before,
         Staging, OneStager, Preview, KindFits, Reading
<1>6. ASSUME NEW w \in Worker, Mkdir(w)
      PROVE  NobodyReads'
  BY <1>6, NoneIsNoUpload
     DEF Mkdir, Goto, files, UInv, TypeOK, NobodyReads, NoFileYet, Before, Staging,
         OneStager, Preview, KindFits, Reading
<1>7. ASSUME NEW w \in Worker, OpenPart(w)
      PROVE  NobodyReads'
  BY <1>7, NoneIsNoUpload
     DEF OpenPart, Goto, files, UInv, TypeOK, NobodyReads, NoFileYet, Before,
         Staging, OneStager, Preview, KindFits, Reading
<1>8. ASSUME NEW w \in Worker, Rename(w)
      PROVE  NobodyReads'
  BY <1>8, NoneIsNoUpload
     DEF Rename, Goto, files, UInv, TypeOK, NobodyReads, NoFileYet, Before, Staging,
         OneStager, Preview, KindFits, Reading
<1>9. ASSUME NEW w \in Worker, StageFails(w)
      PROVE  NobodyReads'
  BY <1>9, NoneIsNoUpload
     DEF StageFails, RemoveTree, End, Goto, files, UInv, TypeOK, NobodyReads,
         NoFileYet, Before, Staging, OneStager, Preview, KindFits, Reading
<1>10. ASSUME NEW w \in Worker, Resolve(w)
      PROVE  NobodyReads'
  BY <1>10, NoneIsNoUpload
     DEF Resolve, End, Goto, files, UInv, TypeOK, NobodyReads, NoFileYet, Before,
         Staging, OneStager, Preview, KindFits, Reading
<1>11. ASSUME NEW w \in Worker, Register(w)
      PROVE  NobodyReads'
  BY <1>11, NoneIsNoUpload
     DEF Register, Goto, files, UInv, TypeOK, NobodyReads, NoFileYet, Before,
         Staging, OneStager, Preview, KindFits, Reading
<1>12. ASSUME NEW w \in Worker, Parse(w)
      PROVE  NobodyReads'
  BY <1>12, NoneIsNoUpload
     DEF Parse, Goto, files, UInv, TypeOK, NobodyReads, NoFileYet, Before, Staging,
         OneStager, Preview, KindFits, Reading
<1>13. ASSUME NEW w \in Worker, StopEarly(w)
      PROVE  NobodyReads'
  BY <1>13, NoneIsNoUpload
     DEF StopEarly, Goto, files, UInv, TypeOK, NobodyReads, NoFileYet, Before,
         Staging, OneStager, Preview, KindFits, Reading
<1>14. ASSUME NEW w \in Worker, Persist(w)
      PROVE  NobodyReads'
  BY <1>14, NoneIsNoUpload
     DEF Persist, Goto, files, UInv, TypeOK, NobodyReads, NoFileYet, Before,
         Staging, OneStager, Preview, KindFits, Reading
<1>15. ASSUME NEW w \in Worker, Raise(w)
      PROVE  NobodyReads'
  BY <1>15, NoneIsNoUpload
     DEF Raise, RemoveTree, End, Goto, files, UInv, TypeOK, NobodyReads, NoFileYet,
         Before, Staging, OneStager, Preview, KindFits, Reading
<1>16. ASSUME NEW w \in Worker, Answer(w)
      PROVE  NobodyReads'
  BY <1>16, NoneIsNoUpload
     DEF Answer, RemoveTree, End, Goto, files, UInv, TypeOK, NobodyReads, NoFileYet,
         Before, Staging, OneStager, Preview, KindFits, Reading
<1>17. ASSUME NEW w \in Worker, Crash(w)
      PROVE  NobodyReads'
  BY <1>17, NoneIsNoUpload
     DEF Crash, End, Goto, files, UInv, TypeOK, NobodyReads, NoFileYet, Before,
         Staging, OneStager, Preview, KindFits, Reading
<1>18. ASSUME Tick
      PROVE  NobodyReads'
  BY <1>18, NoneIsNoUpload
     DEF Tick, request, Goto, files, UInv, TypeOK, NobodyReads, NoFileYet, Before,
         Staging, OneStager, Preview, KindFits, Reading
<1>19. CASE UNCHANGED vars
  BY <1>19
     DEF vars, files, request, UInv, TypeOK, NobodyReads, NoFileYet, Before,
         Staging, OneStager, Preview, KindFits, Reading
<1>20. QED
  BY <1>1, <1>2, <1>3, <1>4, <1>5, <1>6, <1>7, <1>8, <1>9,
     <1>10, <1>11, <1>12, <1>13, <1>14, <1>15, <1>16, <1>17, <1>18, <1>19
     DEF Next, Continue

\* A directory that is read does not become one that is being filled.
LEMMA NoHalfStep ==
  ASSUME UInv, [Next]_vars
  PROVE  NoHalfFile'
<1>1. ASSUME NEW w \in Worker, StartPreview(w)
      PROVE  NoHalfFile'
  BY <1>1, NoneIsNoUpload
     DEF StartPreview, Begin, FreshUpload, Goto, files, UInv, TypeOK, NoHalfFile,
         NobodyReads, Before, Staging, Preview, KindFits, Reading
<1>2. ASSUME NEW w \in Worker, StartIngest(w)
      PROVE  NoHalfFile'
  BY <1>2, NoneIsNoUpload
     DEF StartIngest, Begin, Goto, files, UInv, TypeOK, NoHalfFile, NobodyReads,
         Before, Staging, Preview, KindFits, Reading
<1>3. ASSUME NEW w \in Worker, Visit(w)
      PROVE  NoHalfFile'
  BY <1>3, NoneIsNoUpload
     DEF Visit, Goto, files, UInv, TypeOK, NoHalfFile, NobodyReads, Before, Staging,
         Preview, KindFits, Reading
<1>4. ASSUME NEW w \in Worker, RemoveExpired(w)
      PROVE  NoHalfFile'
  BY <1>4, NoneIsNoUpload
     DEF RemoveExpired, RemoveTree, Goto, files, UInv, TypeOK, NoHalfFile,
         NobodyReads, Before, Staging, Preview, KindFits, Reading
<1>5. ASSUME NEW w \in Worker, EndSweep(w)
      PROVE  NoHalfFile'
  BY <1>5, NoneIsNoUpload
     DEF EndSweep, Goto, files, UInv, TypeOK, NoHalfFile, NobodyReads, Before,
         Staging, Preview, KindFits, Reading
<1>6. ASSUME NEW w \in Worker, Mkdir(w)
      PROVE  NoHalfFile'
  BY <1>6, NoneIsNoUpload
     DEF Mkdir, Goto, files, UInv, TypeOK, NoHalfFile, NobodyReads, Before, Staging,
         Preview, KindFits, Reading
<1>7. ASSUME NEW w \in Worker, OpenPart(w)
      PROVE  NoHalfFile'
  BY <1>7, NoneIsNoUpload
     DEF OpenPart, Goto, files, UInv, TypeOK, NoHalfFile, NobodyReads, Before,
         Staging, Preview, KindFits, Reading
<1>8. ASSUME NEW w \in Worker, Rename(w)
      PROVE  NoHalfFile'
  BY <1>8, NoneIsNoUpload
     DEF Rename, Goto, files, UInv, TypeOK, NoHalfFile, NobodyReads, Before,
         Staging, Preview, KindFits, Reading
<1>9. ASSUME NEW w \in Worker, StageFails(w)
      PROVE  NoHalfFile'
  BY <1>9, NoneIsNoUpload
     DEF StageFails, RemoveTree, End, Goto, files, UInv, TypeOK, NoHalfFile,
         NobodyReads, Before, Staging, Preview, KindFits, Reading
<1>10. ASSUME NEW w \in Worker, Resolve(w)
      PROVE  NoHalfFile'
  BY <1>10, NoneIsNoUpload
     DEF Resolve, End, Goto, files, UInv, TypeOK, NoHalfFile, NobodyReads, Before,
         Staging, Preview, KindFits, Reading
<1>11. ASSUME NEW w \in Worker, Register(w)
      PROVE  NoHalfFile'
  BY <1>11, NoneIsNoUpload
     DEF Register, Goto, files, UInv, TypeOK, NoHalfFile, NobodyReads, Before,
         Staging, Preview, KindFits, Reading
<1>12. ASSUME NEW w \in Worker, Parse(w)
      PROVE  NoHalfFile'
  BY <1>12, NoneIsNoUpload
     DEF Parse, Goto, files, UInv, TypeOK, NoHalfFile, NobodyReads, Before, Staging,
         Preview, KindFits, Reading
<1>13. ASSUME NEW w \in Worker, StopEarly(w)
      PROVE  NoHalfFile'
  BY <1>13, NoneIsNoUpload
     DEF StopEarly, Goto, files, UInv, TypeOK, NoHalfFile, NobodyReads, Before,
         Staging, Preview, KindFits, Reading
<1>14. ASSUME NEW w \in Worker, Persist(w)
      PROVE  NoHalfFile'
  BY <1>14, NoneIsNoUpload
     DEF Persist, Goto, files, UInv, TypeOK, NoHalfFile, NobodyReads, Before,
         Staging, Preview, KindFits, Reading
<1>15. ASSUME NEW w \in Worker, Raise(w)
      PROVE  NoHalfFile'
  BY <1>15, NoneIsNoUpload
     DEF Raise, RemoveTree, End, Goto, files, UInv, TypeOK, NoHalfFile, NobodyReads,
         Before, Staging, Preview, KindFits, Reading
<1>16. ASSUME NEW w \in Worker, Answer(w)
      PROVE  NoHalfFile'
  BY <1>16, NoneIsNoUpload
     DEF Answer, RemoveTree, End, Goto, files, UInv, TypeOK, NoHalfFile,
         NobodyReads, Before, Staging, Preview, KindFits, Reading
<1>17. ASSUME NEW w \in Worker, Crash(w)
      PROVE  NoHalfFile'
  BY <1>17, NoneIsNoUpload
     DEF Crash, End, Goto, files, UInv, TypeOK, NoHalfFile, NobodyReads, Before,
         Staging, Preview, KindFits, Reading
<1>18. ASSUME Tick
      PROVE  NoHalfFile'
  BY <1>18, NoneIsNoUpload
     DEF Tick, request, Goto, files, UInv, TypeOK, NoHalfFile, NobodyReads, Before,
         Staging, Preview, KindFits, Reading
<1>19. CASE UNCHANGED vars
  BY <1>19
     DEF vars, files, request, UInv, TypeOK, NoHalfFile, NobodyReads, Before,
         Staging, Preview, KindFits, Reading
<1>20. QED
  BY <1>1, <1>2, <1>3, <1>4, <1>5, <1>6, <1>7, <1>8, <1>9,
     <1>10, <1>11, <1>12, <1>13, <1>14, <1>15, <1>16, <1>17, <1>18, <1>19
     DEF Next, Continue

\* An id is returned by the request that staged the upload.
LEMMA NotGivenStep ==
  ASSUME UInv, [Next]_vars
  PROVE  NotGiven'
<1>1. ASSUME NEW w \in Worker, StartPreview(w)
      PROVE  NotGiven'
  BY <1>1, NoneIsNoUpload
     DEF StartPreview, Begin, FreshUpload, Goto, files, UInv, TypeOK, NotGiven,
         Owns, Before, OneStager, Preview, KindFits, Reading
<1>2. ASSUME NEW w \in Worker, StartIngest(w)
      PROVE  NotGiven'
  BY <1>2, NoneIsNoUpload
     DEF StartIngest, Begin, Goto, files, UInv, TypeOK, NotGiven, Owns, Before,
         OneStager, Preview, KindFits, Reading
<1>3. ASSUME NEW w \in Worker, Visit(w)
      PROVE  NotGiven'
  BY <1>3, NoneIsNoUpload
     DEF Visit, Goto, files, UInv, TypeOK, NotGiven, Owns, Before, OneStager,
         Preview, KindFits, Reading
<1>4. ASSUME NEW w \in Worker, RemoveExpired(w)
      PROVE  NotGiven'
  BY <1>4, NoneIsNoUpload
     DEF RemoveExpired, RemoveTree, Goto, files, UInv, TypeOK, NotGiven, Owns,
         Before, OneStager, Preview, KindFits, Reading
<1>5. ASSUME NEW w \in Worker, EndSweep(w)
      PROVE  NotGiven'
  BY <1>5, NoneIsNoUpload
     DEF EndSweep, Goto, files, UInv, TypeOK, NotGiven, Owns, Before, OneStager,
         Preview, KindFits, Reading
<1>6. ASSUME NEW w \in Worker, Mkdir(w)
      PROVE  NotGiven'
  BY <1>6, NoneIsNoUpload
     DEF Mkdir, Goto, files, UInv, TypeOK, NotGiven, Owns, Before, OneStager,
         Preview, KindFits, Reading
<1>7. ASSUME NEW w \in Worker, OpenPart(w)
      PROVE  NotGiven'
  BY <1>7, NoneIsNoUpload
     DEF OpenPart, Goto, files, UInv, TypeOK, NotGiven, Owns, Before, OneStager,
         Preview, KindFits, Reading
<1>8. ASSUME NEW w \in Worker, Rename(w)
      PROVE  NotGiven'
  BY <1>8, NoneIsNoUpload
     DEF Rename, Goto, files, UInv, TypeOK, NotGiven, Owns, Before, OneStager,
         Preview, KindFits, Reading
<1>9. ASSUME NEW w \in Worker, StageFails(w)
      PROVE  NotGiven'
  BY <1>9, NoneIsNoUpload
     DEF StageFails, RemoveTree, End, Goto, files, UInv, TypeOK, NotGiven, Owns,
         Before, OneStager, Preview, KindFits, Reading
<1>10. ASSUME NEW w \in Worker, Resolve(w)
      PROVE  NotGiven'
  BY <1>10, NoneIsNoUpload
     DEF Resolve, End, Goto, files, UInv, TypeOK, NotGiven, Owns, Before, OneStager,
         Preview, KindFits, Reading
<1>11. ASSUME NEW w \in Worker, Register(w)
      PROVE  NotGiven'
  BY <1>11, NoneIsNoUpload
     DEF Register, Goto, files, UInv, TypeOK, NotGiven, Owns, Before, OneStager,
         Preview, KindFits, Reading
<1>12. ASSUME NEW w \in Worker, Parse(w)
      PROVE  NotGiven'
  BY <1>12, NoneIsNoUpload
     DEF Parse, Goto, files, UInv, TypeOK, NotGiven, Owns, Before, OneStager,
         Preview, KindFits, Reading
<1>13. ASSUME NEW w \in Worker, StopEarly(w)
      PROVE  NotGiven'
  BY <1>13, NoneIsNoUpload
     DEF StopEarly, Goto, files, UInv, TypeOK, NotGiven, Owns, Before, OneStager,
         Preview, KindFits, Reading
<1>14. ASSUME NEW w \in Worker, Persist(w)
      PROVE  NotGiven'
  BY <1>14, NoneIsNoUpload
     DEF Persist, Goto, files, UInv, TypeOK, NotGiven, Owns, Before, OneStager,
         Preview, KindFits, Reading
<1>15. ASSUME NEW w \in Worker, Raise(w)
      PROVE  NotGiven'
  BY <1>15, NoneIsNoUpload
     DEF Raise, RemoveTree, End, Goto, files, UInv, TypeOK, NotGiven, Owns, Before,
         OneStager, Preview, KindFits, Reading
<1>16. ASSUME NEW w \in Worker, Answer(w)
      PROVE  NotGiven'
  BY <1>16, NoneIsNoUpload
     DEF Answer, RemoveTree, End, Goto, files, UInv, TypeOK, NotGiven, Owns, Before,
         OneStager, Preview, KindFits, Reading
<1>17. ASSUME NEW w \in Worker, Crash(w)
      PROVE  NotGiven'
  BY <1>17, NoneIsNoUpload
     DEF Crash, End, Goto, files, UInv, TypeOK, NotGiven, Owns, Before, OneStager,
         Preview, KindFits, Reading
<1>18. ASSUME Tick
      PROVE  NotGiven'
  BY <1>18, NoneIsNoUpload
     DEF Tick, request, Goto, files, UInv, TypeOK, NotGiven, Owns, Before,
         OneStager, Preview, KindFits, Reading
<1>19. CASE UNCHANGED vars
  BY <1>19
     DEF vars, files, request, UInv, TypeOK, NotGiven, Owns, Before, OneStager,
         Preview, KindFits, Reading
<1>20. QED
  BY <1>1, <1>2, <1>3, <1>4, <1>5, <1>6, <1>7, <1>8, <1>9,
     <1>10, <1>11, <1>12, <1>13, <1>14, <1>15, <1>16, <1>17, <1>18, <1>19
     DEF Next, Continue

\* Nobody but its own request removes an upload as failed.
LEMMA KeptForAnswerStep ==
  ASSUME UInv, [Next]_vars
  PROVE  KeptForAnswer'
<1>1. ASSUME NEW w \in Worker, StartPreview(w)
      PROVE  KeptForAnswer'
  BY <1>1, NoneIsNoUpload
     DEF StartPreview, Begin, FreshUpload, Goto, files, UInv, TypeOK, KeptForAnswer,
         Owns, OneStager, Preview, KindFits, Reading
<1>2. ASSUME NEW w \in Worker, StartIngest(w)
      PROVE  KeptForAnswer'
  BY <1>2, NoneIsNoUpload
     DEF StartIngest, Begin, Goto, files, UInv, TypeOK, KeptForAnswer, Owns,
         OneStager, Preview, KindFits, Reading
<1>3. ASSUME NEW w \in Worker, Visit(w)
      PROVE  KeptForAnswer'
  BY <1>3, NoneIsNoUpload
     DEF Visit, Goto, files, UInv, TypeOK, KeptForAnswer, Owns, OneStager, Preview,
         KindFits, Reading
<1>4. ASSUME NEW w \in Worker, RemoveExpired(w)
      PROVE  KeptForAnswer'
  BY <1>4, NoneIsNoUpload
     DEF RemoveExpired, RemoveTree, Goto, files, UInv, TypeOK, KeptForAnswer, Owns,
         OneStager, Preview, KindFits, Reading
<1>5. ASSUME NEW w \in Worker, EndSweep(w)
      PROVE  KeptForAnswer'
  BY <1>5, NoneIsNoUpload
     DEF EndSweep, Goto, files, UInv, TypeOK, KeptForAnswer, Owns, OneStager,
         Preview, KindFits, Reading
<1>6. ASSUME NEW w \in Worker, Mkdir(w)
      PROVE  KeptForAnswer'
  BY <1>6, NoneIsNoUpload
     DEF Mkdir, Goto, files, UInv, TypeOK, KeptForAnswer, Owns, OneStager, Preview,
         KindFits, Reading
<1>7. ASSUME NEW w \in Worker, OpenPart(w)
      PROVE  KeptForAnswer'
  BY <1>7, NoneIsNoUpload
     DEF OpenPart, Goto, files, UInv, TypeOK, KeptForAnswer, Owns, OneStager,
         Preview, KindFits, Reading
<1>8. ASSUME NEW w \in Worker, Rename(w)
      PROVE  KeptForAnswer'
  BY <1>8, NoneIsNoUpload
     DEF Rename, Goto, files, UInv, TypeOK, KeptForAnswer, Owns, OneStager, Preview,
         KindFits, Reading
<1>9. ASSUME NEW w \in Worker, StageFails(w)
      PROVE  KeptForAnswer'
  BY <1>9, NoneIsNoUpload
     DEF StageFails, RemoveTree, End, Goto, files, UInv, TypeOK, KeptForAnswer,
         Owns, OneStager, Preview, KindFits, Reading
<1>10. ASSUME NEW w \in Worker, Resolve(w)
      PROVE  KeptForAnswer'
  BY <1>10, NoneIsNoUpload
     DEF Resolve, End, Goto, files, UInv, TypeOK, KeptForAnswer, Owns, OneStager,
         Preview, KindFits, Reading
<1>11. ASSUME NEW w \in Worker, Register(w)
      PROVE  KeptForAnswer'
  BY <1>11, NoneIsNoUpload
     DEF Register, Goto, files, UInv, TypeOK, KeptForAnswer, Owns, OneStager,
         Preview, KindFits, Reading
<1>12. ASSUME NEW w \in Worker, Parse(w)
      PROVE  KeptForAnswer'
  BY <1>12, NoneIsNoUpload
     DEF Parse, Goto, files, UInv, TypeOK, KeptForAnswer, Owns, OneStager, Preview,
         KindFits, Reading
<1>13. ASSUME NEW w \in Worker, StopEarly(w)
      PROVE  KeptForAnswer'
  BY <1>13, NoneIsNoUpload
     DEF StopEarly, Goto, files, UInv, TypeOK, KeptForAnswer, Owns, OneStager,
         Preview, KindFits, Reading
<1>14. ASSUME NEW w \in Worker, Persist(w)
      PROVE  KeptForAnswer'
  BY <1>14, NoneIsNoUpload
     DEF Persist, Goto, files, UInv, TypeOK, KeptForAnswer, Owns, OneStager,
         Preview, KindFits, Reading
<1>15. ASSUME NEW w \in Worker, Raise(w)
      PROVE  KeptForAnswer'
  BY <1>15, NoneIsNoUpload
     DEF Raise, RemoveTree, End, Goto, files, UInv, TypeOK, KeptForAnswer, Owns,
         OneStager, Preview, KindFits, Reading
<1>16. ASSUME NEW w \in Worker, Answer(w)
      PROVE  KeptForAnswer'
  BY <1>16, NoneIsNoUpload
     DEF Answer, RemoveTree, End, Goto, files, UInv, TypeOK, KeptForAnswer, Owns,
         OneStager, Preview, KindFits, Reading
<1>17. ASSUME NEW w \in Worker, Crash(w)
      PROVE  KeptForAnswer'
  BY <1>17, NoneIsNoUpload
     DEF Crash, End, Goto, files, UInv, TypeOK, KeptForAnswer, Owns, OneStager,
         Preview, KindFits, Reading
<1>18. ASSUME Tick
      PROVE  KeptForAnswer'
  BY <1>18, NoneIsNoUpload
     DEF Tick, request, Goto, files, UInv, TypeOK, KeptForAnswer, Owns, OneStager,
         Preview, KindFits, Reading
<1>19. CASE UNCHANGED vars
  BY <1>19
     DEF vars, files, request, UInv, TypeOK, KeptForAnswer, Owns, OneStager,
         Preview, KindFits, Reading
<1>20. QED
  BY <1>1, <1>2, <1>3, <1>4, <1>5, <1>6, <1>7, <1>8, <1>9,
     <1>10, <1>11, <1>12, <1>13, <1>14, <1>15, <1>16, <1>17, <1>18, <1>19
     DEF Next, Continue

\* An upload whose id was returned is not removed as failed.
LEMMA KeptStep ==
  ASSUME UInv, [Next]_vars
  PROVE  KeptForIngest'
<1>1. ASSUME NEW w \in Worker, StartPreview(w)
      PROVE  KeptForIngest'
  BY <1>1, NoneIsNoUpload
     DEF StartPreview, Begin, FreshUpload, Goto, files, UInv, TypeOK, KeptForIngest,
         KeptForAnswer, NotGiven, Owns, Preview, KindFits, Reading
<1>2. ASSUME NEW w \in Worker, StartIngest(w)
      PROVE  KeptForIngest'
  BY <1>2, NoneIsNoUpload
     DEF StartIngest, Begin, Goto, files, UInv, TypeOK, KeptForIngest,
         KeptForAnswer, NotGiven, Owns, Preview, KindFits, Reading
<1>3. ASSUME NEW w \in Worker, Visit(w)
      PROVE  KeptForIngest'
  BY <1>3, NoneIsNoUpload
     DEF Visit, Goto, files, UInv, TypeOK, KeptForIngest, KeptForAnswer, NotGiven,
         Owns, Preview, KindFits, Reading
<1>4. ASSUME NEW w \in Worker, RemoveExpired(w)
      PROVE  KeptForIngest'
  BY <1>4, NoneIsNoUpload
     DEF RemoveExpired, RemoveTree, Goto, files, UInv, TypeOK, KeptForIngest,
         KeptForAnswer, NotGiven, Owns, Preview, KindFits, Reading
<1>5. ASSUME NEW w \in Worker, EndSweep(w)
      PROVE  KeptForIngest'
  BY <1>5, NoneIsNoUpload
     DEF EndSweep, Goto, files, UInv, TypeOK, KeptForIngest, KeptForAnswer,
         NotGiven, Owns, Preview, KindFits, Reading
<1>6. ASSUME NEW w \in Worker, Mkdir(w)
      PROVE  KeptForIngest'
  BY <1>6, NoneIsNoUpload
     DEF Mkdir, Goto, files, UInv, TypeOK, KeptForIngest, KeptForAnswer, NotGiven,
         Owns, Preview, KindFits, Reading
<1>7. ASSUME NEW w \in Worker, OpenPart(w)
      PROVE  KeptForIngest'
  BY <1>7, NoneIsNoUpload
     DEF OpenPart, Goto, files, UInv, TypeOK, KeptForIngest, KeptForAnswer,
         NotGiven, Owns, Preview, KindFits, Reading
<1>8. ASSUME NEW w \in Worker, Rename(w)
      PROVE  KeptForIngest'
  BY <1>8, NoneIsNoUpload
     DEF Rename, Goto, files, UInv, TypeOK, KeptForIngest, KeptForAnswer, NotGiven,
         Owns, Preview, KindFits, Reading
<1>9. ASSUME NEW w \in Worker, StageFails(w)
      PROVE  KeptForIngest'
  BY <1>9, NoneIsNoUpload
     DEF StageFails, RemoveTree, End, Goto, files, UInv, TypeOK, KeptForIngest,
         KeptForAnswer, NotGiven, Owns, Preview, KindFits, Reading
<1>10. ASSUME NEW w \in Worker, Resolve(w)
      PROVE  KeptForIngest'
  BY <1>10, NoneIsNoUpload
     DEF Resolve, End, Goto, files, UInv, TypeOK, KeptForIngest, KeptForAnswer,
         NotGiven, Owns, Preview, KindFits, Reading
<1>11. ASSUME NEW w \in Worker, Register(w)
      PROVE  KeptForIngest'
  BY <1>11, NoneIsNoUpload
     DEF Register, Goto, files, UInv, TypeOK, KeptForIngest, KeptForAnswer,
         NotGiven, Owns, Preview, KindFits, Reading
<1>12. ASSUME NEW w \in Worker, Parse(w)
      PROVE  KeptForIngest'
  BY <1>12, NoneIsNoUpload
     DEF Parse, Goto, files, UInv, TypeOK, KeptForIngest, KeptForAnswer, NotGiven,
         Owns, Preview, KindFits, Reading
<1>13. ASSUME NEW w \in Worker, StopEarly(w)
      PROVE  KeptForIngest'
  BY <1>13, NoneIsNoUpload
     DEF StopEarly, Goto, files, UInv, TypeOK, KeptForIngest, KeptForAnswer,
         NotGiven, Owns, Preview, KindFits, Reading
<1>14. ASSUME NEW w \in Worker, Persist(w)
      PROVE  KeptForIngest'
  BY <1>14, NoneIsNoUpload
     DEF Persist, Goto, files, UInv, TypeOK, KeptForIngest, KeptForAnswer, NotGiven,
         Owns, Preview, KindFits, Reading
<1>15. ASSUME NEW w \in Worker, Raise(w)
      PROVE  KeptForIngest'
  BY <1>15, NoneIsNoUpload
     DEF Raise, RemoveTree, End, Goto, files, UInv, TypeOK, KeptForIngest,
         KeptForAnswer, NotGiven, Owns, Preview, KindFits, Reading
<1>16. ASSUME NEW w \in Worker, Answer(w)
      PROVE  KeptForIngest'
  BY <1>16, NoneIsNoUpload
     DEF Answer, RemoveTree, End, Goto, files, UInv, TypeOK, KeptForIngest,
         KeptForAnswer, NotGiven, Owns, Preview, KindFits, Reading
<1>17. ASSUME NEW w \in Worker, Crash(w)
      PROVE  KeptForIngest'
  BY <1>17, NoneIsNoUpload
     DEF Crash, End, Goto, files, UInv, TypeOK, KeptForIngest, KeptForAnswer,
         NotGiven, Owns, Preview, KindFits, Reading
<1>18. ASSUME Tick
      PROVE  KeptForIngest'
  BY <1>18, NoneIsNoUpload
     DEF Tick, request, Goto, files, UInv, TypeOK, KeptForIngest, KeptForAnswer,
         NotGiven, Owns, Preview, KindFits, Reading
<1>19. CASE UNCHANGED vars
  BY <1>19
     DEF vars, files, request, UInv, TypeOK, KeptForIngest, KeptForAnswer, NotGiven,
         Owns, Preview, KindFits, Reading
<1>20. QED
  BY <1>1, <1>2, <1>3, <1>4, <1>5, <1>6, <1>7, <1>8, <1>9,
     <1>10, <1>11, <1>12, <1>13, <1>14, <1>15, <1>16, <1>17, <1>18, <1>19
     DEF Next, Continue


\* The invariant of the staging area (knowledge_upload_service.py): who works on
\* an upload, in which state, and why it may be gone.
THEOREM UploadInvariant == Spec => []UInv
<1>1. Init => UInv
  BY NoneIsNoUpload, RetentionPositive
     DEF Init, UInv, TypeOK, DirState, PC, Fate, KindFits, OneStager, NoFileYet,
         NobodyReads, NoHalfFile, NotGiven, KeptForAnswer, KeptForIngest, Preview,
         Before, Staging, Owns, Reading
<1>2. UInv /\ [Next]_vars => UInv'
  BY TypeStep, KindStep, OneStagerStep, NoFileYetStep, NobodyReadsStep, NoHalfStep,
     NotGivenStep, KeptForAnswerStep, KeptStep
     DEF UInv
<1>3. QED
  BY <1>1, <1>2, PTL DEF Spec

\* Types, for any processes and uploads.
THEOREM UploadTypes == Spec => []TypeOK
<1>1. UInv => TypeOK
  BY DEF UInv
<1>2. QED
  BY <1>1, UploadInvariant, PTL

\* Whatever id a client names, and whatever a crash left behind, the pipeline
\* reads complete files.
THEOREM WholeFiles == Spec => []NoHalfFile
<1>1. UInv => NoHalfFile
  BY DEF UInv
<1>2. QED
  BY <1>1, UploadInvariant, PTL

\* An upload whose id was returned goes only with an answered ingest-upload or
\* when its time is over.
THEOREM UploadsKept == Spec => []KeptForIngest
<1>1. UInv => KeptForIngest
  BY DEF UInv
<1>2. QED
  BY <1>1, UploadInvariant, PTL
=============================================================================
