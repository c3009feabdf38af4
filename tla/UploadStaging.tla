----------------------------- MODULE UploadStaging -----------------------------
(***************************************************************************)
(* The staging area of uploaded files.  preview-upload stores a file in a   *)
(* directory of its own and previews it; ingest-upload finds the directory  *)
(* by its id, ingests the file and deletes the directory.  Both first clean *)
(* up directories older than the retention time.  The requests of several   *)
(* processes share the directory tree and nothing else; a process may die   *)
(* between any two steps.                                                   *)
(***************************************************************************)
EXTENDS Naturals

CONSTANTS Worker,     \* server processes; each runs one request at a time
          Upload,     \* upload ids; an id is used again once nothing is left of it
          Retention,  \* retention time, in ticks
          None        \* no upload

ASSUME RetentionPositive == Retention \in Nat \ {0}
ASSUME NoneIsNoUpload == None \notin Upload

VARIABLES
  dir,     \* each upload's directory
  age,     \* ticks since the directory was last modified
  pc,      \* the step a worker's request takes next
  req,     \* whether it is a preview-upload or an ingest-upload
  up,      \* the upload it is about
  todo,    \* expired directories its cleanup has yet to visit
  victim,  \* the directory its cleanup found expired
  given,   \* uploads whose id was returned to a client
  stored,  \* uploads with a version in the knowledge base
  gone     \* how the directory was last removed

files == <<dir, age, gone>>
request == <<pc, req, up, todo, victim>>
vars == <<dir, age, pc, req, up, todo, victim, given, stored, gone>>

DirState == {"absent", "empty", "part", "file"}
PC == {"idle", "sweep", "remove", "mkdir", "open", "rename", "resolve",
       "register", "parse", "persist", "answer"}
Reading == {"register", "parse", "persist"}
Fate == {"never", "rejected", "failed", "consumed", "expired"}

Init == /\ dir = [u \in Upload |-> "absent"]
        /\ age = [u \in Upload |-> 0]
        /\ pc = [w \in Worker |-> "idle"]
        /\ req = [w \in Worker |-> "preview"]
        /\ up = [w \in Worker |-> None]
        /\ todo = [w \in Worker |-> {}]
        /\ victim = [w \in Worker |-> None]
        /\ given = {}
        /\ stored = {}
        /\ gone = [u \in Upload |-> "never"]

-----------------------------------------------------------------------------
\* Faulty variant: the cleanup looks for complete files.
ExpiredWhole(u) == dir[u] = "file" /\ age[u] > Retention

Expired(u) == dir[u] # "absent" /\ age[u] > Retention

\* uuid4 never repeats an id that something still knows.
FreshUpload(u) == /\ dir[u] = "absent"
                  /\ \A w \in Worker : up[w] # u /\ victim[w] # u /\ u \notin todo[w]

Goto(w, next) == pc' = [pc EXCEPT ![w] = next]

\* The request is over; the process forgets it.
End(w) == /\ Goto(w, "idle")
          /\ up' = [up EXCEPT ![w] = None]
          /\ todo' = [todo EXCEPT ![w] = {}]
          /\ victim' = [victim EXCEPT ![w] = None]
          /\ UNCHANGED req

\* shutil.rmtree, with errors ignored: also when there is nothing to remove.
RemoveTree(u, why) ==
  /\ dir' = [dir EXCEPT ![u] = "absent"]
  /\ age' = [age EXCEPT ![u] = 0]
  /\ gone' = IF dir[u] = "absent" THEN gone ELSE [gone EXCEPT ![u] = why]

-----------------------------------------------------------------------------
(* Both requests begin with cleanup_expired, which fixes its reference time  *)
(* at the start: directories that become old or are created later are kept. *)

Begin(w, kind, u) ==
  /\ pc[w] = "idle"
  /\ Goto(w, "sweep")
  /\ req' = [req EXCEPT ![w] = kind]
  /\ up' = [up EXCEPT ![w] = u]
  /\ todo' = [todo EXCEPT ![w] = {d \in Upload : Expired(d)}]
  /\ UNCHANGED <<files, victim, given, stored>>

StartPreview(w) == \E u \in Upload : FreshUpload(u) /\ Begin(w, "preview", u)

\* A client may name any id, its own or not; what is no id is refused.
StartIngest(w) == \E u \in Upload : Begin(w, "ingest", u)

\* stat: gone or modified since, it is left alone.
Visit(w) ==
  /\ pc[w] = "sweep"
  /\ \E d \in todo[w] :
       /\ todo' = [todo EXCEPT ![w] = @ \ {d}]
       /\ IF Expired(d)
          THEN Goto(w, "remove") /\ victim' = [victim EXCEPT ![w] = d]
          ELSE UNCHANGED <<pc, victim>>
  /\ UNCHANGED <<files, req, up, given, stored>>

RemoveExpired(w) ==
  /\ pc[w] = "remove"
  /\ RemoveTree(victim[w], "expired")
  /\ Goto(w, "sweep")
  /\ victim' = [victim EXCEPT ![w] = None]
  /\ UNCHANGED <<req, up, todo, given, stored>>

EndSweep(w) ==
  /\ pc[w] = "sweep"
  /\ todo[w] = {}
  /\ Goto(w, IF req[w] = "preview" THEN "mkdir" ELSE "resolve")
  /\ UNCHANGED <<files, req, up, todo, victim, given, stored>>

-----------------------------------------------------------------------------
(* stage_upload: a hidden partial file, renamed when it is complete.  The    *)
(* directory's modification time is that of its last new or renamed entry.  *)

Mkdir(w) ==
  /\ pc[w] = "mkdir"
  /\ dir' = [dir EXCEPT ![up[w]] = "empty"]
  /\ age' = [age EXCEPT ![up[w]] = 0]
  /\ gone' = [gone EXCEPT ![up[w]] = "never"]
  /\ given' = given \ {up[w]}
  /\ stored' = stored \ {up[w]}
  /\ Goto(w, "open")
  /\ UNCHANGED <<req, up, todo, victim>>

OpenPart(w) ==
  /\ pc[w] = "open"
  /\ dir[up[w]] = "empty"
  /\ dir' = [dir EXCEPT ![up[w]] = "part"]
  /\ age' = [age EXCEPT ![up[w]] = 0]
  /\ Goto(w, "rename")
  /\ UNCHANGED <<req, up, todo, victim, given, stored, gone>>

\* The copy is complete, not empty and not too large.
Rename(w) ==
  /\ pc[w] = "rename"
  /\ dir[up[w]] = "part"
  /\ dir' = [dir EXCEPT ![up[w]] = "file"]
  /\ age' = [age EXCEPT ![up[w]] = 0]
  /\ Goto(w, "register")
  /\ UNCHANGED <<req, up, todo, victim, given, stored, gone>>

\* Too large, empty, or an OSError: for one, somebody removed the directory.
StageFails(w) ==
  /\ pc[w] \in {"open", "rename"}
  /\ RemoveTree(up[w], "rejected")
  /\ End(w)
  /\ UNCHANGED <<given, stored>>

-----------------------------------------------------------------------------
\* Faulty variant: any file will do, also a partial one.
ResolveAny(w) ==
  /\ pc[w] = "resolve"
  /\ IF dir[up[w]] \in {"part", "file"}
     THEN Goto(w, "register") /\ UNCHANGED <<req, up, todo, victim>>
     ELSE End(w)
  /\ UNCHANGED <<files, given, stored>>

\* resolve_upload: the directory's one file that is not a partial one; none is
\* a FileNotFoundError.
Resolve(w) ==
  /\ pc[w] = "resolve"
  /\ IF dir[up[w]] = "file"
     THEN Goto(w, "register") /\ UNCHANGED <<req, up, todo, victim>>
     ELSE End(w)
  /\ UNCHANGED <<files, given, stored>>

\* The pipeline opens the file to hash it, and again to parse it.
Register(w) ==
  /\ pc[w] = "register"
  /\ dir[up[w]] # "absent"
  /\ Goto(w, "parse")
  /\ UNCHANGED <<files, req, up, todo, victim, given, stored>>

Parse(w) ==
  /\ pc[w] = "parse"
  /\ dir[up[w]] # "absent"
  /\ Goto(w, IF req[w] = "ingest" THEN "persist" ELSE "answer")
  /\ UNCHANGED <<files, req, up, todo, victim, given, stored>>

\* A stage fails and stops the pipeline, which returns a response: the intake
\* is refused, the file cannot be parsed, no text is found in it.
StopEarly(w) ==
  /\ pc[w] \in {"parse", "persist"}
  /\ Goto(w, "answer")
  /\ UNCHANGED <<files, req, up, todo, victim, given, stored>>

Persist(w) ==
  /\ pc[w] = "persist"
  /\ stored' = stored \cup {up[w]}
  /\ Goto(w, "answer")
  /\ UNCHANGED <<files, req, up, todo, victim, given>>

\* Faulty variant: a failed ingest-upload discards the upload, too.
RaiseDiscarding(w) ==
  /\ pc[w] \in Reading \cup {"answer"}
  /\ RemoveTree(up[w], "failed")
  /\ End(w)
  /\ UNCHANGED <<given, stored>>

\* An exception leaves the pipeline.  Of the kinds preview-upload handles, it
\* discards the upload it staged; ingest-upload keeps it in any case.  After
\* the commit, reading the stored rows back may still fail.
Raise(w) ==
  /\ pc[w] \in Reading \cup {"answer"}
  /\ \/ req[w] = "preview" /\ RemoveTree(up[w], "failed")
     \/ UNCHANGED files
  /\ End(w)
  /\ UNCHANGED <<given, stored>>

\* preview-upload returns the id.  ingest-upload discards the upload whatever
\* the response says.
Answer(w) ==
  /\ pc[w] = "answer"
  /\ IF req[w] = "preview"
     THEN given' = given \cup {up[w]} /\ UNCHANGED files
     ELSE RemoveTree(up[w], "consumed") /\ UNCHANGED given
  /\ End(w)
  /\ UNCHANGED stored

-----------------------------------------------------------------------------
\* The process dies; the files stay as they are.
Crash(w) == /\ pc[w] # "idle"
            /\ End(w)
            /\ UNCHANGED <<files, given, stored>>

\* Time passes for every directory; beyond Retention + 1 it makes no difference.
Tick == /\ \E u \in Upload : dir[u] # "absent" /\ age[u] <= Retention
        /\ age' = [u \in Upload |-> IF dir[u] # "absent" /\ age[u] <= Retention
                                    THEN age[u] + 1 ELSE age[u]]
        /\ UNCHANGED <<dir, gone, request, given, stored>>

Continue(w) == \/ Visit(w) \/ RemoveExpired(w) \/ EndSweep(w)
               \/ Mkdir(w) \/ OpenPart(w) \/ Rename(w) \/ StageFails(w)
               \/ Resolve(w) \/ Register(w) \/ Parse(w) \/ StopEarly(w)
               \/ Persist(w) \/ Raise(w) \/ Answer(w)

Next == Tick \/ \E w \in Worker :
                  StartPreview(w) \/ StartIngest(w) \/ Continue(w) \/ Crash(w)

Spec == Init /\ [][Next]_vars

\* Time passes, and a process that does not die goes on with its request.
Fairness == WF_vars(Tick) /\ \A w \in Worker : WF_vars(Continue(w))
FairSpec == Spec /\ Fairness

-----------------------------------------------------------------------------
\* Directories, requests and sets hold what they should; a request is about an
\* upload from its first step to its last.
TypeOK == /\ dir \in [Upload -> DirState]
          /\ age \in [Upload -> 0..(Retention + 1)]
          /\ pc \in [Worker -> PC]
          /\ req \in [Worker -> {"preview", "ingest"}]
          /\ up \in [Worker -> Upload \cup {None}]
          /\ todo \in [Worker -> SUBSET Upload]
          /\ victim \in [Worker -> Upload \cup {None}]
          /\ given \subseteq Upload
          /\ stored \subseteq Upload
          /\ gone \in [Upload -> Fate]
          /\ \A w \in Worker : up[w] = None <=> pc[w] = "idle"

\* The pipeline never reads a half-written file, whoever names the id, and
\* whatever a crash left behind.
NoHalfFile == \A w \in Worker : pc[w] \in Reading => dir[up[w]] \in {"file", "absent"}

\* An upload whose id a client holds is there until an ingest-upload of it has
\* answered or a cleanup found it expired: errors and crashes do not lose it.
KeptForIngest ==
  \A u \in given : dir[u] = "absent" => gone[u] \in {"consumed", "expired"}

\* What a crashed process left behind does not stay: if cleanups go on being
\* completed, every directory is removed some day.
NothingStays ==
  []<>(\E w \in Worker : pc[w] \in {"mkdir", "resolve"}) =>
    \A u \in Upload : dir[u] # "absent" ~> dir[u] = "absent"

\* The file a stored version names as its source is there for a retry, once the
\* request that stored it is over.
RetrySourceExists == \A u \in stored : (\A w \in Worker : up[w] # u) => dir[u] = "file"
=============================================================================
