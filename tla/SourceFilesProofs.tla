--------------------------- MODULE SourceFilesProofs ---------------------------
(***************************************************************************)
(* Proofs about SourceFiles, for any processes, paths and contents and any  *)
(* number of conversions that outlive their run: a text that is not that of *)
(* its hash goes back to a change of the file, and an incomplete converted  *)
(* file to a conversion that is going on or did not end well.               *)
(***************************************************************************)
EXTENDS SourceFiles, TLAPS

\* The text t is that of hash h, or a file with that hash was changed in time.
Fits(t, h) == t = h \/ h \in edited

\* What a run still has to read, has read, what was converted, and what Word
\* may still write, are what the hash names unless the file was changed.
ReadsFit == \A w \in Worker : MayRead(w) =>
              content[path[w]] = None \/ Fits(content[path[w]], hash[w])
HeldFits == \A w \in Worker : held[w] # None => Fits(held[w], hash[w])
DocxFits == \A h \in Content : docx[h] \in Content => Fits(docx[h], h)
LateFits == \A c \in late : Fits(c.text, c.hash)

\* Only a .doc is converted.
OnlyDocs == \A w \in Worker : pc[w] \in Converting => kind[path[w]] = "doc"

\* An incomplete converted file is being written, or was given up; what Word
\* still writes was.
HalfFits == \A h \in Content : docx[h] = Half =>
              h \in cut \/ \E w \in Worker : pc[w] = "saving" /\ hash[w] = h
LateIsCut == \A c \in late : c.hash \in cut

SInv == /\ TypeOK /\ OnlyDocs
        /\ ReadsFit /\ HeldFits /\ DocxFits /\ LateFits /\ TextIsOfItsFile
        /\ HalfFits /\ LateIsCut

-----------------------------------------------------------------------------
\* Every step keeps files, runs and versions in their ranges.
LEMMA TypeStep ==
  ASSUME SInv, [Next]_vars
  PROVE  TypeOK'
<1>1. ASSUME NEW w \in Worker, NEW p \in Path, Register(w, p)
      PROVE  TypeOK'
  BY <1>1, Distinct
     DEF Register, Goto, run, disk, SInv, TypeOK, PC, Converting, Source
<1>2. ASSUME NEW w \in Worker, Normalize(w)
      PROVE  TypeOK'
  BY <1>2, Distinct
     DEF Normalize, Goto, run, disk, SInv, TypeOK, PC, Converting, Source
<1>3. ASSUME NEW w \in Worker, Parse(w)
      PROVE  TypeOK'
  BY <1>3, Distinct DEF Parse, Goto, run, disk, SInv, TypeOK, PC, Converting, Source
<1>4. ASSUME NEW w \in Worker, Ocr(w)
      PROVE  TypeOK'
  BY <1>4, Distinct DEF Ocr, Goto, run, disk, SInv, TypeOK, PC, Converting, Source
<1>5. ASSUME NEW w \in Worker, Persist(w)
      PROVE  TypeOK'
  BY <1>5, Distinct
     DEF Persist, End, Goto, run, disk, SInv, TypeOK, PC, Converting, Source
<1>6. ASSUME NEW w \in Worker, StopsEarly(w)
      PROVE  TypeOK'
  BY <1>6, Distinct
     DEF StopsEarly, End, Goto, run, disk, SInv, TypeOK, PC, Converting, Source
<1>7. ASSUME NEW w \in Worker, OpenSource(w)
      PROVE  TypeOK'
  BY <1>7, Distinct
     DEF OpenSource, Goto, run, disk, SInv, TypeOK, PC, Converting, Source
<1>8. ASSUME NEW w \in Worker, BeginSave(w)
      PROVE  TypeOK'
  BY <1>8, Distinct
     DEF BeginSave, Goto, run, disk, SInv, TypeOK, PC, Converting, Source
<1>9. ASSUME NEW w \in Worker, EndSave(w)
      PROVE  TypeOK'
  BY <1>9, Distinct
     DEF EndSave, Goto, run, disk, SInv, TypeOK, PC, Converting, Source
<1>10. ASSUME NEW w \in Worker, ConvertFails(w)
      PROVE  TypeOK'
  BY <1>10, Distinct
     DEF ConvertFails, End, CutShort, Goto, run, disk, SInv, TypeOK, PC,
         Converting, Source
<1>11. ASSUME NEW w \in Worker, pc[w] \in Converting, GiveUp(w)
      PROVE  TypeOK'
  BY <1>11, Distinct
     DEF GiveUp, End, CutShort, Goto, run, disk, SInv, TypeOK, PC, Converting,
         Source
<1>12. ASSUME NEW p \in Path, NEW c \in Content \cup {None}, Edit(p, c)
      PROVE  TypeOK'
  BY <1>12, Distinct DEF Edit, Goto, run, disk, SInv, TypeOK, PC, Converting, Source
<1>13. ASSUME NEW d \in [hash : Content, text : Content], LateSave(d)
      PROVE  TypeOK'
  BY <1>13, Distinct
     DEF LateSave, Goto, run, disk, SInv, TypeOK, PC, Converting, Source
<1>14. CASE UNCHANGED vars
  BY <1>14 DEF vars, SInv, TypeOK, PC, Converting, Source
<1>15. QED
  BY <1>1, <1>2, <1>3, <1>4, <1>5, <1>6, <1>7, <1>8, <1>9, <1>10, <1>11, <1>12, <1>13, <1>14
     DEF Next, ServerStep, WordStep, TimesOut, Crash

\* No step takes another file to the conversion.
LEMMA OnlyDocsStep ==
  ASSUME SInv, [Next]_vars
  PROVE  OnlyDocs'
<1>1. ASSUME NEW w \in Worker, NEW p \in Path, Register(w, p)
      PROVE  OnlyDocs'
  BY <1>1, Distinct
     DEF Register, Goto, run, disk, SInv, TypeOK, OnlyDocs, Converting
<1>2. ASSUME NEW w \in Worker, Normalize(w)
      PROVE  OnlyDocs'
  BY <1>2, Distinct
     DEF Normalize, Goto, run, disk, SInv, TypeOK, OnlyDocs, Converting
<1>3. ASSUME NEW w \in Worker, Parse(w)
      PROVE  OnlyDocs'
  BY <1>3, Distinct DEF Parse, Goto, run, disk, SInv, TypeOK, OnlyDocs, Converting
<1>4. ASSUME NEW w \in Worker, Ocr(w)
      PROVE  OnlyDocs'
  BY <1>4, Distinct DEF Ocr, Goto, run, disk, SInv, TypeOK, OnlyDocs, Converting
<1>5. ASSUME NEW w \in Worker, Persist(w)
      PROVE  OnlyDocs'
  BY <1>5, Distinct
     DEF Persist, End, Goto, run, disk, SInv, TypeOK, OnlyDocs, Converting
<1>6. ASSUME NEW w \in Worker, StopsEarly(w)
      PROVE  OnlyDocs'
  BY <1>6, Distinct
     DEF StopsEarly, End, Goto, run, disk, SInv, TypeOK, OnlyDocs, Converting
<1>7. ASSUME NEW w \in Worker, OpenSource(w)
      PROVE  OnlyDocs'
  BY <1>7, Distinct
     DEF OpenSource, Goto, run, disk, SInv, TypeOK, OnlyDocs, Converting
<1>8. ASSUME NEW w \in Worker, BeginSave(w)
      PROVE  OnlyDocs'
  BY <1>8, Distinct
     DEF BeginSave, Goto, run, disk, SInv, TypeOK, OnlyDocs, Converting
<1>9. ASSUME NEW w \in Worker, EndSave(w)
      PROVE  OnlyDocs'
  BY <1>9, Distinct DEF EndSave, Goto, run, disk, SInv, TypeOK, OnlyDocs, Converting
<1>10. ASSUME NEW w \in Worker, ConvertFails(w)
      PROVE  OnlyDocs'
  BY <1>10, Distinct
     DEF ConvertFails, End, CutShort, Goto, run, disk, SInv, TypeOK, OnlyDocs,
         Converting
<1>11. ASSUME NEW w \in Worker, pc[w] \in Converting, GiveUp(w)
      PROVE  OnlyDocs'
  BY <1>11, Distinct
     DEF GiveUp, End, CutShort, Goto, run, disk, SInv, TypeOK, OnlyDocs,
         Converting
<1>12. ASSUME NEW p \in Path, NEW c \in Content \cup {None}, Edit(p, c)
      PROVE  OnlyDocs'
  BY <1>12, Distinct DEF Edit, Goto, run, disk, SInv, TypeOK, OnlyDocs, Converting
<1>13. ASSUME NEW d \in [hash : Content, text : Content], LateSave(d)
      PROVE  OnlyDocs'
  BY <1>13, Distinct
     DEF LateSave, Goto, run, disk, SInv, TypeOK, OnlyDocs, Converting
<1>14. CASE UNCHANGED vars
  BY <1>14 DEF vars, SInv, TypeOK, OnlyDocs, Converting
<1>15. QED
  BY <1>1, <1>2, <1>3, <1>4, <1>5, <1>6, <1>7, <1>8, <1>9, <1>10, <1>11, <1>12, <1>13, <1>14
     DEF Next, ServerStep, WordStep, TimesOut, Crash

\* A run that has still to read its file was noted when the file changed.
LEMMA ReadsStep ==
  ASSUME SInv, [Next]_vars
  PROVE  ReadsFit'
<1>1. ASSUME NEW w \in Worker, NEW p \in Path, Register(w, p)
      PROVE  ReadsFit'
  BY <1>1, Distinct
     DEF Register, Goto, run, disk, SInv, TypeOK, ReadsFit, MayRead, Fits,
         Converting
<1>2. ASSUME NEW w \in Worker, Normalize(w)
      PROVE  ReadsFit'
  BY <1>2, Distinct
     DEF Normalize, Goto, run, disk, SInv, TypeOK, ReadsFit, MayRead, Fits,
         Converting
<1>3. ASSUME NEW w \in Worker, Parse(w)
      PROVE  ReadsFit'
  BY <1>3, Distinct
     DEF Parse, Goto, run, disk, SInv, TypeOK, ReadsFit, MayRead, Fits,
         Converting
<1>4. ASSUME NEW w \in Worker, Ocr(w)
      PROVE  ReadsFit'
  BY <1>4, Distinct
     DEF Ocr, Goto, run, disk, SInv, TypeOK, ReadsFit, MayRead, Fits, Converting
<1>5. ASSUME NEW w \in Worker, Persist(w)
      PROVE  ReadsFit'
  BY <1>5, Distinct
     DEF Persist, End, Goto, run, disk, SInv, TypeOK, ReadsFit, MayRead, Fits,
         Converting
<1>6. ASSUME NEW w \in Worker, StopsEarly(w)
      PROVE  ReadsFit'
  BY <1>6, Distinct
     DEF StopsEarly, End, Goto, run, disk, SInv, TypeOK, ReadsFit, MayRead,
         Fits, Converting
<1>7. ASSUME NEW w \in Worker, OpenSource(w)
      PROVE  ReadsFit'
  BY <1>7, Distinct
     DEF OpenSource, Goto, run, disk, SInv, TypeOK, ReadsFit, MayRead, Fits,
         Converting
<1>8. ASSUME NEW w \in Worker, BeginSave(w)
      PROVE  ReadsFit'
  BY <1>8, Distinct
     DEF BeginSave, Goto, run, disk, SInv, TypeOK, ReadsFit, MayRead, Fits,
         Converting
<1>9. ASSUME NEW w \in Worker, EndSave(w)
      PROVE  ReadsFit'
  BY <1>9, Distinct
     DEF EndSave, Goto, run, disk, SInv, TypeOK, ReadsFit, MayRead, Fits,
         Converting, OnlyDocs
<1>10. ASSUME NEW w \in Worker, ConvertFails(w)
      PROVE  ReadsFit'
  BY <1>10, Distinct
     DEF ConvertFails, End, CutShort, Goto, run, disk, SInv, TypeOK, ReadsFit,
         MayRead, Fits, Converting
<1>11. ASSUME NEW w \in Worker, pc[w] \in Converting, GiveUp(w)
      PROVE  ReadsFit'
  BY <1>11, Distinct
     DEF GiveUp, End, CutShort, Goto, run, disk, SInv, TypeOK, ReadsFit,
         MayRead, Fits, Converting
<1>12. ASSUME NEW p \in Path, NEW c \in Content \cup {None}, Edit(p, c)
      PROVE  ReadsFit'
  BY <1>12, Distinct
     DEF Edit, Goto, run, disk, SInv, TypeOK, ReadsFit, MayRead, Fits,
         Converting
<1>13. ASSUME NEW d \in [hash : Content, text : Content], LateSave(d)
      PROVE  ReadsFit'
  BY <1>13, Distinct
     DEF LateSave, Goto, run, disk, SInv, TypeOK, ReadsFit, MayRead, Fits,
         Converting
<1>14. CASE UNCHANGED vars
  BY <1>14 DEF vars, SInv, TypeOK, ReadsFit, MayRead, Fits, Converting
<1>15. QED
  BY <1>1, <1>2, <1>3, <1>4, <1>5, <1>6, <1>7, <1>8, <1>9, <1>10, <1>11, <1>12, <1>13, <1>14
     DEF Next, ServerStep, WordStep, TimesOut, Crash

\* What a run holds it has read from a file or a conversion that fits.
LEMMA HeldStep ==
  ASSUME SInv, [Next]_vars
  PROVE  HeldFits'
<1>1. ASSUME NEW w \in Worker, NEW p \in Path, Register(w, p)
      PROVE  HeldFits'
  BY <1>1, Distinct
     DEF Register, Goto, run, disk, SInv, TypeOK, ReadsFit, HeldFits, DocxFits,
         MayRead, Fits, Converting, Source
<1>2. ASSUME NEW w \in Worker, Normalize(w)
      PROVE  HeldFits'
  BY <1>2, Distinct
     DEF Normalize, Goto, run, disk, SInv, TypeOK, ReadsFit, HeldFits, DocxFits,
         MayRead, Fits, Converting, Source
<1>3. ASSUME NEW w \in Worker, Parse(w)
      PROVE  HeldFits'
  BY <1>3, Distinct
     DEF Parse, Goto, run, disk, SInv, TypeOK, ReadsFit, HeldFits, DocxFits,
         MayRead, Fits, Converting, Source
<1>4. ASSUME NEW w \in Worker, Ocr(w)
      PROVE  HeldFits'
  BY <1>4, Distinct
     DEF Ocr, Goto, run, disk, SInv, TypeOK, ReadsFit, HeldFits, DocxFits,
         MayRead, Fits, Converting, Source
<1>5. ASSUME NEW w \in Worker, Persist(w)
      PROVE  HeldFits'
  BY <1>5, Distinct
     DEF Persist, End, Goto, run, disk, SInv, TypeOK, ReadsFit, HeldFits,
         DocxFits, MayRead, Fits, Converting, Source
<1>6. ASSUME NEW w \in Worker, StopsEarly(w)
      PROVE  HeldFits'
  BY <1>6, Distinct
     DEF StopsEarly, End, Goto, run, disk, SInv, TypeOK, ReadsFit, HeldFits,
         DocxFits, MayRead, Fits, Converting, Source
<1>7. ASSUME NEW w \in Worker, OpenSource(w)
      PROVE  HeldFits'
  BY <1>7, Distinct
     DEF OpenSource, Goto, run, disk, SInv, TypeOK, ReadsFit, HeldFits,
         DocxFits, MayRead, Fits, Converting, Source
<1>8. ASSUME NEW w \in Worker, BeginSave(w)
      PROVE  HeldFits'
  BY <1>8, Distinct
     DEF BeginSave, Goto, run, disk, SInv, TypeOK, ReadsFit, HeldFits, DocxFits,
         MayRead, Fits, Converting, Source
<1>9. ASSUME NEW w \in Worker, EndSave(w)
      PROVE  HeldFits'
  BY <1>9, Distinct
     DEF EndSave, Goto, run, disk, SInv, TypeOK, ReadsFit, HeldFits, DocxFits,
         MayRead, Fits, Converting, Source
<1>10. ASSUME NEW w \in Worker, ConvertFails(w)
      PROVE  HeldFits'
  BY <1>10, Distinct
     DEF ConvertFails, End, CutShort, Goto, run, disk, SInv, TypeOK, ReadsFit,
         HeldFits, DocxFits, MayRead, Fits, Converting, Source
<1>11. ASSUME NEW w \in Worker, pc[w] \in Converting, GiveUp(w)
      PROVE  HeldFits'
  BY <1>11, Distinct
     DEF GiveUp, End, CutShort, Goto, run, disk, SInv, TypeOK, ReadsFit,
         HeldFits, DocxFits, MayRead, Fits, Converting, Source
<1>12. ASSUME NEW p \in Path, NEW c \in Content \cup {None}, Edit(p, c)
      PROVE  HeldFits'
  BY <1>12, Distinct
     DEF Edit, Goto, run, disk, SInv, TypeOK, ReadsFit, HeldFits, DocxFits,
         MayRead, Fits, Converting, Source
<1>13. ASSUME NEW d \in [hash : Content, text : Content], LateSave(d)
      PROVE  HeldFits'
  BY <1>13, Distinct
     DEF LateSave, Goto, run, disk, SInv, TypeOK, ReadsFit, HeldFits, DocxFits,
         MayRead, Fits, Converting, Source
<1>14. CASE UNCHANGED vars
  BY <1>14
     DEF vars, SInv, TypeOK, ReadsFit, HeldFits, DocxFits, MayRead, Fits,
         Converting, Source
<1>15. QED
  BY <1>1, <1>2, <1>3, <1>4, <1>5, <1>6, <1>7, <1>8, <1>9, <1>10, <1>11, <1>12, <1>13, <1>14
     DEF Next, ServerStep, WordStep, TimesOut, Crash

\* What is converted was held by a run, or opened by a Word that outlived it.
LEMMA DocxStep ==
  ASSUME SInv, [Next]_vars
  PROVE  DocxFits'
<1>1. ASSUME NEW w \in Worker, NEW p \in Path, Register(w, p)
      PROVE  DocxFits'
  BY <1>1, Distinct
     DEF Register, Goto, run, disk, SInv, TypeOK, DocxFits, HeldFits, LateFits,
         Fits, Converting
<1>2. ASSUME NEW w \in Worker, Normalize(w)
      PROVE  DocxFits'
  BY <1>2, Distinct
     DEF Normalize, Goto, run, disk, SInv, TypeOK, DocxFits, HeldFits, LateFits,
         Fits, Converting
<1>3. ASSUME NEW w \in Worker, Parse(w)
      PROVE  DocxFits'
  BY <1>3, Distinct
     DEF Parse, Goto, run, disk, SInv, TypeOK, DocxFits, HeldFits, LateFits,
         Fits, Converting
<1>4. ASSUME NEW w \in Worker, Ocr(w)
      PROVE  DocxFits'
  BY <1>4, Distinct
     DEF Ocr, Goto, run, disk, SInv, TypeOK, DocxFits, HeldFits, LateFits, Fits,
         Converting
<1>5. ASSUME NEW w \in Worker, Persist(w)
      PROVE  DocxFits'
  BY <1>5, Distinct
     DEF Persist, End, Goto, run, disk, SInv, TypeOK, DocxFits, HeldFits,
         LateFits, Fits, Converting
<1>6. ASSUME NEW w \in Worker, StopsEarly(w)
      PROVE  DocxFits'
  BY <1>6, Distinct
     DEF StopsEarly, End, Goto, run, disk, SInv, TypeOK, DocxFits, HeldFits,
         LateFits, Fits, Converting
<1>7. ASSUME NEW w \in Worker, OpenSource(w)
      PROVE  DocxFits'
  BY <1>7, Distinct
     DEF OpenSource, Goto, run, disk, SInv, TypeOK, DocxFits, HeldFits,
         LateFits, Fits, Converting
<1>8. ASSUME NEW w \in Worker, BeginSave(w)
      PROVE  DocxFits'
  BY <1>8, Distinct
     DEF BeginSave, Goto, run, disk, SInv, TypeOK, DocxFits, HeldFits, LateFits,
         Fits, Converting
<1>9. ASSUME NEW w \in Worker, EndSave(w)
      PROVE  DocxFits'
  BY <1>9, Distinct
     DEF EndSave, Goto, run, disk, SInv, TypeOK, DocxFits, HeldFits, LateFits,
         Fits, Converting
<1>10. ASSUME NEW w \in Worker, ConvertFails(w)
      PROVE  DocxFits'
  BY <1>10, Distinct
     DEF ConvertFails, End, CutShort, Goto, run, disk, SInv, TypeOK, DocxFits,
         HeldFits, LateFits, Fits, Converting
<1>11. ASSUME NEW w \in Worker, pc[w] \in Converting, GiveUp(w)
      PROVE  DocxFits'
  BY <1>11, Distinct
     DEF GiveUp, End, CutShort, Goto, run, disk, SInv, TypeOK, DocxFits,
         HeldFits, LateFits, Fits, Converting
<1>12. ASSUME NEW p \in Path, NEW c \in Content \cup {None}, Edit(p, c)
      PROVE  DocxFits'
  BY <1>12, Distinct
     DEF Edit, Goto, run, disk, SInv, TypeOK, DocxFits, HeldFits, LateFits,
         Fits, Converting
<1>13. ASSUME NEW d \in [hash : Content, text : Content], LateSave(d)
      PROVE  DocxFits'
  BY <1>13, Distinct
     DEF LateSave, Goto, run, disk, SInv, TypeOK, DocxFits, HeldFits, LateFits,
         Fits, Converting
<1>14. CASE UNCHANGED vars
  BY <1>14 DEF vars, SInv, TypeOK, DocxFits, HeldFits, LateFits, Fits, Converting
<1>15. QED
  BY <1>1, <1>2, <1>3, <1>4, <1>5, <1>6, <1>7, <1>8, <1>9, <1>10, <1>11, <1>12, <1>13, <1>14
     DEF Next, ServerStep, WordStep, TimesOut, Crash

\* A Word that outlives its run has opened what the run held.
LEMMA LateStep ==
  ASSUME SInv, [Next]_vars
  PROVE  LateFits'
<1>1. ASSUME NEW w \in Worker, NEW p \in Path, Register(w, p)
      PROVE  LateFits'
  BY <1>1, Distinct
     DEF Register, Goto, run, disk, SInv, TypeOK, LateFits, HeldFits, Fits,
         Converting
<1>2. ASSUME NEW w \in Worker, Normalize(w)
      PROVE  LateFits'
  BY <1>2, Distinct
     DEF Normalize, Goto, run, disk, SInv, TypeOK, LateFits, HeldFits, Fits,
         Converting
<1>3. ASSUME NEW w \in Worker, Parse(w)
      PROVE  LateFits'
  BY <1>3, Distinct
     DEF Parse, Goto, run, disk, SInv, TypeOK, LateFits, HeldFits, Fits,
         Converting
<1>4. ASSUME NEW w \in Worker, Ocr(w)
      PROVE  LateFits'
  BY <1>4, Distinct
     DEF Ocr, Goto, run, disk, SInv, TypeOK, LateFits, HeldFits, Fits,
         Converting
<1>5. ASSUME NEW w \in Worker, Persist(w)
      PROVE  LateFits'
  BY <1>5, Distinct
     DEF Persist, End, Goto, run, disk, SInv, TypeOK, LateFits, HeldFits, Fits,
         Converting
<1>6. ASSUME NEW w \in Worker, StopsEarly(w)
      PROVE  LateFits'
  BY <1>6, Distinct
     DEF StopsEarly, End, Goto, run, disk, SInv, TypeOK, LateFits, HeldFits,
         Fits, Converting
<1>7. ASSUME NEW w \in Worker, OpenSource(w)
      PROVE  LateFits'
  BY <1>7, Distinct
     DEF OpenSource, Goto, run, disk, SInv, TypeOK, LateFits, HeldFits, Fits,
         Converting
<1>8. ASSUME NEW w \in Worker, BeginSave(w)
      PROVE  LateFits'
  BY <1>8, Distinct
     DEF BeginSave, Goto, run, disk, SInv, TypeOK, LateFits, HeldFits, Fits,
         Converting
<1>9. ASSUME NEW w \in Worker, EndSave(w)
      PROVE  LateFits'
  BY <1>9, Distinct
     DEF EndSave, Goto, run, disk, SInv, TypeOK, LateFits, HeldFits, Fits,
         Converting
<1>10. ASSUME NEW w \in Worker, ConvertFails(w)
      PROVE  LateFits'
  BY <1>10, Distinct
     DEF ConvertFails, End, CutShort, Goto, run, disk, SInv, TypeOK, LateFits,
         HeldFits, Fits, Converting
<1>11. ASSUME NEW w \in Worker, pc[w] \in Converting, GiveUp(w)
      PROVE  LateFits'
  BY <1>11, Distinct
     DEF GiveUp, End, CutShort, Goto, run, disk, SInv, TypeOK, LateFits,
         HeldFits, Fits, Converting
<1>12. ASSUME NEW p \in Path, NEW c \in Content \cup {None}, Edit(p, c)
      PROVE  LateFits'
  BY <1>12, Distinct
     DEF Edit, Goto, run, disk, SInv, TypeOK, LateFits, HeldFits, Fits,
         Converting
<1>13. ASSUME NEW d \in [hash : Content, text : Content], LateSave(d)
      PROVE  LateFits'
  BY <1>13, Distinct
     DEF LateSave, Goto, run, disk, SInv, TypeOK, LateFits, HeldFits, Fits,
         Converting
<1>14. CASE UNCHANGED vars
  BY <1>14 DEF vars, SInv, TypeOK, LateFits, HeldFits, Fits, Converting
<1>15. QED
  BY <1>1, <1>2, <1>3, <1>4, <1>5, <1>6, <1>7, <1>8, <1>9, <1>10, <1>11, <1>12, <1>13, <1>14
     DEF Next, ServerStep, WordStep, TimesOut, Crash

\* A version is stored with what its run holds.
LEMMA TextStep ==
  ASSUME SInv, [Next]_vars
  PROVE  TextIsOfItsFile'
<1>1. ASSUME NEW w \in Worker, NEW p \in Path, Register(w, p)
      PROVE  TextIsOfItsFile'
  BY <1>1, Distinct
     DEF Register, Goto, run, disk, SInv, TypeOK, TextIsOfItsFile, HeldFits,
         Fits, Converting
<1>2. ASSUME NEW w \in Worker, Normalize(w)
      PROVE  TextIsOfItsFile'
  BY <1>2, Distinct
     DEF Normalize, Goto, run, disk, SInv, TypeOK, TextIsOfItsFile, HeldFits,
         Fits, Converting
<1>3. ASSUME NEW w \in Worker, Parse(w)
      PROVE  TextIsOfItsFile'
  BY <1>3, Distinct
     DEF Parse, Goto, run, disk, SInv, TypeOK, TextIsOfItsFile, HeldFits, Fits,
         Converting
<1>4. ASSUME NEW w \in Worker, Ocr(w)
      PROVE  TextIsOfItsFile'
  BY <1>4, Distinct
     DEF Ocr, Goto, run, disk, SInv, TypeOK, TextIsOfItsFile, HeldFits, Fits,
         Converting
<1>5. ASSUME NEW w \in Worker, Persist(w)
      PROVE  TextIsOfItsFile'
  BY <1>5, Distinct
     DEF Persist, End, Goto, run, disk, SInv, TypeOK, TextIsOfItsFile, HeldFits,
         Fits, Converting
<1>6. ASSUME NEW w \in Worker, StopsEarly(w)
      PROVE  TextIsOfItsFile'
  BY <1>6, Distinct
     DEF StopsEarly, End, Goto, run, disk, SInv, TypeOK, TextIsOfItsFile,
         HeldFits, Fits, Converting
<1>7. ASSUME NEW w \in Worker, OpenSource(w)
      PROVE  TextIsOfItsFile'
  BY <1>7, Distinct
     DEF OpenSource, Goto, run, disk, SInv, TypeOK, TextIsOfItsFile, HeldFits,
         Fits, Converting
<1>8. ASSUME NEW w \in Worker, BeginSave(w)
      PROVE  TextIsOfItsFile'
  BY <1>8, Distinct
     DEF BeginSave, Goto, run, disk, SInv, TypeOK, TextIsOfItsFile, HeldFits,
         Fits, Converting
<1>9. ASSUME NEW w \in Worker, EndSave(w)
      PROVE  TextIsOfItsFile'
  BY <1>9, Distinct
     DEF EndSave, Goto, run, disk, SInv, TypeOK, TextIsOfItsFile, HeldFits,
         Fits, Converting
<1>10. ASSUME NEW w \in Worker, ConvertFails(w)
      PROVE  TextIsOfItsFile'
  BY <1>10, Distinct
     DEF ConvertFails, End, CutShort, Goto, run, disk, SInv, TypeOK,
         TextIsOfItsFile, HeldFits, Fits, Converting
<1>11. ASSUME NEW w \in Worker, pc[w] \in Converting, GiveUp(w)
      PROVE  TextIsOfItsFile'
  BY <1>11, Distinct
     DEF GiveUp, End, CutShort, Goto, run, disk, SInv, TypeOK, TextIsOfItsFile,
         HeldFits, Fits, Converting
<1>12. ASSUME NEW p \in Path, NEW c \in Content \cup {None}, Edit(p, c)
      PROVE  TextIsOfItsFile'
  BY <1>12, Distinct
     DEF Edit, Goto, run, disk, SInv, TypeOK, TextIsOfItsFile, HeldFits, Fits,
         Converting
<1>13. ASSUME NEW d \in [hash : Content, text : Content], LateSave(d)
      PROVE  TextIsOfItsFile'
  BY <1>13, Distinct
     DEF LateSave, Goto, run, disk, SInv, TypeOK, TextIsOfItsFile, HeldFits,
         Fits, Converting
<1>14. CASE UNCHANGED vars
  BY <1>14 DEF vars, SInv, TypeOK, TextIsOfItsFile, HeldFits, Fits, Converting
<1>15. QED
  BY <1>1, <1>2, <1>3, <1>4, <1>5, <1>6, <1>7, <1>8, <1>9, <1>10, <1>11, <1>12, <1>13, <1>14
     DEF Next, ServerStep, WordStep, TimesOut, Crash

\* A run that leaves an incomplete file behind it notes that.
LEMMA HalfStep ==
  ASSUME SInv, [Next]_vars
  PROVE  HalfFits'
<1>1. ASSUME NEW w \in Worker, NEW p \in Path, Register(w, p)
      PROVE  HalfFits'
  BY <1>1, Distinct
     DEF Register, Goto, run, disk, SInv, TypeOK, HalfFits, LateIsCut,
         Converting
<1>2. ASSUME NEW w \in Worker, Normalize(w)
      PROVE  HalfFits'
  BY <1>2, Distinct
     DEF Normalize, Goto, run, disk, SInv, TypeOK, HalfFits, LateIsCut,
         Converting
<1>3. ASSUME NEW w \in Worker, Parse(w)
      PROVE  HalfFits'
  BY <1>3, Distinct
     DEF Parse, Goto, run, disk, SInv, TypeOK, HalfFits, LateIsCut, Converting
<1>4. ASSUME NEW w \in Worker, Ocr(w)
      PROVE  HalfFits'
  BY <1>4, Distinct
     DEF Ocr, Goto, run, disk, SInv, TypeOK, HalfFits, LateIsCut, Converting
<1>5. ASSUME NEW w \in Worker, Persist(w)
      PROVE  HalfFits'
  BY <1>5, Distinct
     DEF Persist, End, Goto, run, disk, SInv, TypeOK, HalfFits, LateIsCut,
         Converting
<1>6. ASSUME NEW w \in Worker, StopsEarly(w)
      PROVE  HalfFits'
  BY <1>6, Distinct
     DEF StopsEarly, End, Goto, run, disk, SInv, TypeOK, HalfFits, LateIsCut,
         Converting
<1>7. ASSUME NEW w \in Worker, OpenSource(w)
      PROVE  HalfFits'
  BY <1>7, Distinct
     DEF OpenSource, Goto, run, disk, SInv, TypeOK, HalfFits, LateIsCut,
         Converting
<1>8. ASSUME NEW w \in Worker, BeginSave(w)
      PROVE  HalfFits'
  BY <1>8, Distinct
     DEF BeginSave, Goto, run, disk, SInv, TypeOK, HalfFits, LateIsCut,
         Converting
<1>9. ASSUME NEW w \in Worker, EndSave(w)
      PROVE  HalfFits'
  BY <1>9, Distinct
     DEF EndSave, Goto, run, disk, SInv, TypeOK, HalfFits, LateIsCut,
         Converting, SavedByOther
<1>10. ASSUME NEW w \in Worker, ConvertFails(w)
      PROVE  HalfFits'
  BY <1>10, Distinct
     DEF ConvertFails, End, CutShort, Goto, run, disk, SInv, TypeOK, HalfFits,
         LateIsCut, Converting
<1>11. ASSUME NEW w \in Worker, pc[w] \in Converting, GiveUp(w)
      PROVE  HalfFits'
  BY <1>11, Distinct
     DEF GiveUp, End, CutShort, Goto, run, disk, SInv, TypeOK, HalfFits,
         LateIsCut, Converting
<1>12. ASSUME NEW p \in Path, NEW c \in Content \cup {None}, Edit(p, c)
      PROVE  HalfFits'
  BY <1>12, Distinct
     DEF Edit, Goto, run, disk, SInv, TypeOK, HalfFits, LateIsCut, Converting
<1>13. ASSUME NEW d \in [hash : Content, text : Content], LateSave(d)
      PROVE  HalfFits'
  BY <1>13, Distinct
     DEF LateSave, Goto, run, disk, SInv, TypeOK, HalfFits, LateIsCut,
         Converting
<1>14. CASE UNCHANGED vars
  BY <1>14 DEF vars, SInv, TypeOK, HalfFits, LateIsCut, Converting
<1>15. QED
  BY <1>1, <1>2, <1>3, <1>4, <1>5, <1>6, <1>7, <1>8, <1>9, <1>10, <1>11, <1>12, <1>13, <1>14
     DEF Next, ServerStep, WordStep, TimesOut, Crash

\* So does one that leaves a Word behind it.
LEMMA LateIsCutStep ==
  ASSUME SInv, [Next]_vars
  PROVE  LateIsCut'
<1>1. ASSUME NEW w \in Worker, NEW p \in Path, Register(w, p)
      PROVE  LateIsCut'
  BY <1>1, Distinct
     DEF Register, Goto, run, disk, SInv, TypeOK, LateIsCut, Converting
<1>2. ASSUME NEW w \in Worker, Normalize(w)
      PROVE  LateIsCut'
  BY <1>2, Distinct
     DEF Normalize, Goto, run, disk, SInv, TypeOK, LateIsCut, Converting
<1>3. ASSUME NEW w \in Worker, Parse(w)
      PROVE  LateIsCut'
  BY <1>3, Distinct DEF Parse, Goto, run, disk, SInv, TypeOK, LateIsCut, Converting
<1>4. ASSUME NEW w \in Worker, Ocr(w)
      PROVE  LateIsCut'
  BY <1>4, Distinct DEF Ocr, Goto, run, disk, SInv, TypeOK, LateIsCut, Converting
<1>5. ASSUME NEW w \in Worker, Persist(w)
      PROVE  LateIsCut'
  BY <1>5, Distinct
     DEF Persist, End, Goto, run, disk, SInv, TypeOK, LateIsCut, Converting
<1>6. ASSUME NEW w \in Worker, StopsEarly(w)
      PROVE  LateIsCut'
  BY <1>6, Distinct
     DEF StopsEarly, End, Goto, run, disk, SInv, TypeOK, LateIsCut, Converting
<1>7. ASSUME NEW w \in Worker, OpenSource(w)
      PROVE  LateIsCut'
  BY <1>7, Distinct
     DEF OpenSource, Goto, run, disk, SInv, TypeOK, LateIsCut, Converting
<1>8. ASSUME NEW w \in Worker, BeginSave(w)
      PROVE  LateIsCut'
  BY <1>8, Distinct
     DEF BeginSave, Goto, run, disk, SInv, TypeOK, LateIsCut, Converting
<1>9. ASSUME NEW w \in Worker, EndSave(w)
      PROVE  LateIsCut'
  BY <1>9, Distinct
     DEF EndSave, Goto, run, disk, SInv, TypeOK, LateIsCut, Converting
<1>10. ASSUME NEW w \in Worker, ConvertFails(w)
      PROVE  LateIsCut'
  BY <1>10, Distinct
     DEF ConvertFails, End, CutShort, Goto, run, disk, SInv, TypeOK, LateIsCut,
         Converting
<1>11. ASSUME NEW w \in Worker, pc[w] \in Converting, GiveUp(w)
      PROVE  LateIsCut'
  BY <1>11, Distinct
     DEF GiveUp, End, CutShort, Goto, run, disk, SInv, TypeOK, LateIsCut,
         Converting
<1>12. ASSUME NEW p \in Path, NEW c \in Content \cup {None}, Edit(p, c)
      PROVE  LateIsCut'
  BY <1>12, Distinct DEF Edit, Goto, run, disk, SInv, TypeOK, LateIsCut, Converting
<1>13. ASSUME NEW d \in [hash : Content, text : Content], LateSave(d)
      PROVE  LateIsCut'
  BY <1>13, Distinct
     DEF LateSave, Goto, run, disk, SInv, TypeOK, LateIsCut, Converting
<1>14. CASE UNCHANGED vars
  BY <1>14 DEF vars, SInv, TypeOK, LateIsCut, Converting
<1>15. QED
  BY <1>1, <1>2, <1>3, <1>4, <1>5, <1>6, <1>7, <1>8, <1>9, <1>10, <1>11, <1>12, <1>13, <1>14
     DEF Next, ServerStep, WordStep, TimesOut, Crash


\* The invariant: of what a run reads, holds, converts, leaves behind and stores
\* (policy_normalizer.py, pipeline.py), all is as the hash says or explained.
THEOREM SourceInvariant == Spec => []SInv
<1>1. Init => SInv
  BY Distinct
     DEF Init, SInv, TypeOK, OnlyDocs, ReadsFit, HeldFits, DocxFits, LateFits,
     TextIsOfItsFile, HalfFits, LateIsCut, MayRead, Fits, PC, Converting
<1>2. SInv /\ [Next]_vars => SInv'
  BY TypeStep, OnlyDocsStep, ReadsStep, HeldStep, DocxStep, LateStep, TextStep, HalfStep, LateIsCutStep
     DEF SInv
<1>3. QED
  BY <1>1, <1>2, PTL DEF Spec

\* Types, for any processes, paths and contents.
THEOREM TypeCorrect == Spec => []TypeOK
<1>1. SInv => TypeOK
  BY DEF SInv
<1>2. QED
  BY <1>1, SourceInvariant, PTL

\* A version of policy_persistence_gateway.py whose text is not that of the file
\* its file_hash names goes back to a change between register_file and a read.
THEOREM TextCorrect == Spec => []TextIsOfItsFile
<1>1. SInv => TextIsOfItsFile
  BY DEF SInv
<1>2. QED
  BY <1>1, SourceInvariant, PTL

\* The .docx that normalize takes for a finished one (policy_normalizer.py:37)
\* is incomplete only while another run writes it or after a bad end.
THEOREM HalfCorrect == Spec => []HalfIsExplained
<1>1. SInv => HalfIsExplained
  BY Distinct DEF SInv, TypeOK, HalfFits, HalfIsExplained, SavedByOther, Source
<1>2. QED
  BY <1>1, SourceInvariant, PTL
=============================================================================
