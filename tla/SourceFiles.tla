------------------------------ MODULE SourceFiles ------------------------------
(***************************************************************************)
(* What the pipeline reads from disk.  A run hashes its source file when it *)
(* registers it and reads the file again stages later: once to parse it, and *)
(* a scanned PDF once more to send it to the OCR service.  A legacy .doc is  *)
(* converted by Word into a file that is named after the hash, and that     *)
(* every later run of the same content takes as it finds it.  Files are     *)
(* edited, server processes die, conversions hang, and Word, a process of   *)
(* its own, may finish one that the server has given up.                    *)
(*                                                                         *)
(* All files here have one name: the name of the converted file and the     *)
(* document that is written contain it, so other names never interfere.     *)
(***************************************************************************)
EXTENDS Naturals, FiniteSets

CONSTANTS Worker,   \* server processes; each runs one request at a time
          Path,     \* places of files with that name
          Content,  \* file contents: what sha256 tells apart
          None,     \* no file
          Half,     \* a file that is not complete
          MaxLate   \* bound on the conversions that outlive their run at once

ASSUME Distinct == /\ None \notin Path \cup Content
                   /\ Half \notin Content \cup {None}
ASSUME MaxLateAssumption == MaxLate \in Nat

VARIABLES
  kind,     \* of the file at each path: a .doc, a PDF of images, another
  content,  \* what is at each path now
  docx,     \* the converted file of each hash
  pc,       \* the step a worker's run takes next
  path,     \* its source file
  hash,     \* the sha256 it registered
  held,     \* what it, or Word for it, has read
  late,     \* conversions given up that Word may still finish
  cut,      \* hashes of which a conversion did not end well
  edited,   \* hashes of runs whose file changed before they had read it
  stored    \* versions: their file_hash and their text

disk == <<kind, content, docx>>
run == <<pc, path, hash, held>>
vars == <<kind, content, docx, pc, path, hash, held, late, cut, edited, stored>>

PC == {"idle", "normalize", "convert", "save", "saving", "parse", "ocr", "persist"}
Converting == {"convert", "save", "saving"}

Init == /\ kind \in [Path -> {"doc", "scan", "other"}]
        /\ content = [p \in Path |-> None]
        /\ docx = [h \in Content |-> None]
        /\ pc = [w \in Worker |-> "idle"]
        /\ path = [w \in Worker |-> None]
        /\ hash = [w \in Worker |-> None]
        /\ held = [w \in Worker |-> None]
        /\ late = {}
        /\ cut = {}
        /\ edited = {}
        /\ stored = {}

Goto(w, next) == pc' = [pc EXCEPT ![w] = next]

\* The run ends and forgets its file.
End(w) == /\ Goto(w, "idle")
          /\ path' = [path EXCEPT ![w] = None]
          /\ hash' = [hash EXCEPT ![w] = None]
          /\ held' = [held EXCEPT ![w] = None]

-----------------------------------------------------------------------------
\* The run will read its source again: to convert it, to parse it, to send it.
MayRead(w) == \/ pc[w] \in {"normalize", "convert", "ocr"}
              \/ pc[w] = "parse" /\ kind[path[w]] # "doc"

\* Somebody writes, replaces or removes a file.
Edit(p, c) ==
  /\ c # content[p]
  /\ content' = [content EXCEPT ![p] = c]
  /\ edited' = edited \cup {hash[w] : w \in {u \in Worker : /\ MayRead(u)
                                                            /\ path[u] = p
                                                            /\ c \notin {None, hash[u]}}}
  /\ UNCHANGED <<kind, docx, run, late, cut, stored>>

-----------------------------------------------------------------------------
\* The file exists, is hashed and passes the intake.
Register(w, p) ==
  /\ pc[w] = "idle"
  /\ content[p] # None
  /\ path' = [path EXCEPT ![w] = p]
  /\ hash' = [hash EXCEPT ![w] = content[p]]
  /\ Goto(w, "normalize")
  /\ UNCHANGED <<disk, held, late, cut, edited, stored>>

\* Only a .doc is converted, and not if the converted file exists.
Normalize(w) ==
  /\ pc[w] = "normalize"
  /\ Goto(w, IF kind[path[w]] = "doc" /\ docx[hash[w]] = None THEN "convert" ELSE "parse")
  /\ UNCHANGED <<disk, path, hash, held, late, cut, edited, stored>>

\* Documents.Open
OpenSource(w) ==
  /\ pc[w] = "convert"
  /\ content[path[w]] # None
  /\ held' = [held EXCEPT ![w] = content[path[w]]]
  /\ Goto(w, "save")
  /\ UNCHANGED <<disk, path, hash, late, cut, edited, stored>>

\* Faulty variant: the run goes on without waiting for the script's end.
BeginSaveNoWait(w) ==
  /\ pc[w] = "save"
  /\ docx' = [docx EXCEPT ![hash[w]] = Half]
  /\ Goto(w, "parse")
  /\ UNCHANGED <<kind, content, path, hash, held, late, cut, edited, stored>>

\* SaveAs creates the file that others take for the converted one ...
BeginSave(w) ==
  /\ pc[w] = "save"
  /\ docx' = [docx EXCEPT ![hash[w]] = Half]
  /\ Goto(w, "saving")
  /\ UNCHANGED <<kind, content, path, hash, held, late, cut, edited, stored>>

\* Another run is writing the converted file, too.
SavedByOther(w) == \E u \in Worker \ {w} : pc[u] = "saving" /\ hash[u] = hash[w]

\* ... and completes it.
EndSave(w) ==
  /\ pc[w] = "saving"
  /\ docx' = [docx EXCEPT ![hash[w]] = IF SavedByOther(w) THEN Half ELSE held[w]]
  /\ held' = [held EXCEPT ![w] = None]
  /\ Goto(w, "parse")
  /\ UNCHANGED <<kind, content, path, hash, late, cut, edited, stored>>

\* A conversion that had begun to write does not end well.
CutShort(w) == cut' = cut \cup (IF pc[w] = "convert" THEN {} ELSE {hash[w]})

\* Word reports an error; what it wrote stays.  The stage fails, the run stops.
ConvertFails(w) ==
  /\ pc[w] \in Converting
  /\ CutShort(w)
  /\ End(w)
  /\ UNCHANGED <<disk, late, edited, stored>>

\* The script is killed; Word may live on with what it has opened.
GiveUp(w) ==
  /\ CutShort(w)
  /\ \/ UNCHANGED late
     \/ /\ pc[w] # "convert"
        /\ Cardinality(late) < MaxLate
        /\ late' = late \cup {[hash |-> hash[w], text |-> held[w]]}
  /\ End(w)
  /\ UNCHANGED <<disk, edited, stored>>

\* Faulty variant: there is no time limit.
TimesOutNever(w) == FALSE /\ GiveUp(w)

\* The script has run for 180 seconds.
TimesOut(w) == pc[w] \in Converting /\ GiveUp(w)

\* Word goes on with a conversion that was given up, and leaves it at some point.
LateSave(c) ==
  /\ c \in late
  /\ \/ docx' = [docx EXCEPT ![c.hash] = Half] /\ UNCHANGED late
     \/ docx' = [docx EXCEPT ![c.hash] = c.text] /\ late' = late \ {c}
     \/ UNCHANGED docx /\ late' = late \ {c}
  /\ UNCHANGED <<kind, content, run, cut, edited, stored>>

-----------------------------------------------------------------------------
\* Faulty variant: the converted file is named after the source alone.
SourceAny(w) ==
  IF kind[path[w]] = "doc" /\ \E h \in Content : docx[h] \in Content
  THEN docx[CHOOSE h \in Content : docx[h] \in Content] ELSE content[path[w]]

\* The file that is parsed, and sent to the OCR service.
Source(w) == IF kind[path[w]] = "doc" THEN docx[hash[w]] ELSE content[path[w]]

\* A file that is missing or not complete cannot be opened as a document.  The
\* text of a scanned PDF is still to be read, by the OCR service.
Parse(w) ==
  /\ pc[w] = "parse"
  /\ Source(w) \in Content
  /\ IF kind[path[w]] = "scan"
     THEN Goto(w, "ocr") /\ UNCHANGED held
     ELSE Goto(w, "persist") /\ held' = [held EXCEPT ![w] = Source(w)]
  /\ UNCHANGED <<disk, path, hash, late, cut, edited, stored>>

\* The file is read once more, for all pages; a container serves one request.
Ocr(w) ==
  /\ pc[w] = "ocr"
  /\ Source(w) \in Content
  /\ held' = [held EXCEPT ![w] = Source(w)]
  /\ Goto(w, "persist")
  /\ UNCHANGED <<disk, path, hash, late, cut, edited, stored>>

\* UNIQUE (policy_id, file_hash)
Persist(w) ==
  /\ pc[w] = "persist"
  /\ \A s \in stored : s.hash # hash[w]
  /\ stored' = stored \cup {[hash |-> hash[w], text |-> held[w]]}
  /\ End(w)
  /\ UNCHANGED <<disk, late, cut, edited>>

\* A stage fails or raises, or a preview ends, or the server process dies.
StopsEarly(w) ==
  /\ pc[w] \in {"normalize", "parse", "ocr", "persist"}
  /\ End(w)
  /\ UNCHANGED <<disk, late, cut, edited, stored>>

\* The server process dies during a conversion; its script dies with it or not.
Crash(w) == pc[w] \in Converting /\ GiveUp(w)

ServerStep(w) == Normalize(w) \/ Parse(w) \/ Ocr(w) \/ Persist(w) \/ StopsEarly(w)
WordStep(w) == OpenSource(w) \/ BeginSave(w) \/ EndSave(w) \/ ConvertFails(w)

Next == \/ \E w \in Worker : \/ \E p \in Path : Register(w, p)
                             \/ ServerStep(w) \/ WordStep(w)
                             \/ TimesOut(w) \/ Crash(w)
        \/ \E p \in Path, c \in Content \cup {None} : Edit(p, c)
        \/ \E c \in [hash : Content, text : Content] : LateSave(c)

Spec == Init /\ [][Next]_vars

\* The server goes on with a run; the clock runs.  Word need not go on.
FairSpec == /\ Spec
            /\ \A w \in Worker : WF_vars(ServerStep(w)) /\ WF_vars(TimesOut(w))

-----------------------------------------------------------------------------
\* Files, runs and versions hold what they should; a run has a file and a hash.
TypeOK == /\ kind \in [Path -> {"doc", "scan", "other"}]
          /\ content \in [Path -> Content \cup {None}]
          /\ docx \in [Content -> Content \cup {None, Half}]
          /\ pc \in [Worker -> PC]
          /\ path \in [Worker -> Path \cup {None}]
          /\ hash \in [Worker -> Content \cup {None}]
          /\ held \in [Worker -> Content \cup {None}]
          /\ \A w \in Worker : (pc[w] = "idle") = (hash[w] = None)
          /\ \A w \in Worker : (pc[w] = "idle") = (path[w] = None)
          /\ \A w \in Worker : (pc[w] \in {"save", "saving", "persist"}) = (held[w] # None)
          /\ late \subseteq [hash : Content, text : Content]
          /\ cut \subseteq Content
          /\ edited \subseteq Content
          /\ stored \subseteq [hash : Content, text : Content]

\* The text of a version is that of the file its file_hash names, unless a file
\* with that hash was changed between the hashing and the reading of some run:
\* of any run, because what one converts the later ones take.
TextIsOfItsFile == \A s \in stored : s.text # s.hash => s.hash \in edited

\* A run finds an incomplete converted file only while another run is writing
\* it, or after a conversion of the same content that did not end well.
HalfIsExplained ==
  \A w \in Worker : pc[w] = "parse" /\ Source(w) = Half =>
    hash[w] \in cut \/ SavedByOther(w)

\* A conversion that Word never ends does not hold up its run for ever.
RunsEnd == \A w \in Worker : pc[w] # "idle" ~> pc[w] = "idle"
=============================================================================
