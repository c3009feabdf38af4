----------------------------- MODULE ImportSession -----------------------------
(***************************************************************************)
(* The import dialog of the knowledge base page and the server behind it.   *)
(* The page previews a file, has the user confirm, ingests the upload and,   *)
(* once it is stored, activates the version: three requests, of which it    *)
(* waits for one at a time and for a limited time only.  The server's       *)
(* handlers call the pipeline without yielding, so it serves one request at *)
(* a time, and those that nobody waits for any more as well.                *)
(*                                                                         *)
(* There is one file; a second version of it is refused by file_hash.       *)
(***************************************************************************)
EXTENDS IngestionPipeline

CONSTANTS Upload,      \* what stage_upload may name uploads
          None,        \* no upload
          MaxRequests  \* bound on the requests at the server

ASSUME SessionAssumption == None \notin Upload /\ MaxRequests \in Nat

VARIABLES
  preview,   \* what the dialog asks to confirm; None while it shows the form
  requests,  \* those at the server, in the order they were sent
  upload,    \* of each upload: "unused", "staged" or "gone"
  version,   \* of the file: "none", "draft" or "active"
  told,      \* the page has said that the document is published
  lost       \* the page will not publish the draft: it does not know of it, or
             \* its attempt has failed

page == <<preview, told>>
pipeline == vars
server == <<upload, version, lost>>
sessionVars == <<page, requests, server, pipeline>>

Request == [kind : {"preview", "ingest", "activate"}, upload : Upload \cup {None},
            awaited : BOOLEAN, served : BOOLEAN]

SessionInit == /\ Init
               /\ preview = None
               /\ requests = <<>>
               /\ upload = [u \in Upload |-> "unused"]
               /\ version = "none"
               /\ told = FALSE
               /\ lost = FALSE

-----------------------------------------------------------------------------
\* The page.

\* confirmLoading: the dialog's button does nothing while a request is awaited.
Waiting == \E i \in 1..Len(requests) : requests[i].awaited

Sent(kind, u) == [kind |-> kind, upload |-> u, awaited |-> TRUE, served |-> FALSE]

Send(kind, u) == /\ ~Waiting
                 /\ Len(requests) < MaxRequests
                 /\ requests' = Append(requests, Sent(kind, u))
                 /\ UNCHANGED <<page, server, pipeline>>

SubmitForm == preview = None /\ Send("preview", None)

\* The button is disabled for a file that was not allowed.
Confirm == preview # None /\ preview.allowed /\ Send("ingest", preview.upload)

\* The button that leads back, or closes the dialog, works at any time; what is
\* awaited stays so.
Cancel == /\ preview # None
          /\ preview' = None
          /\ UNCHANGED <<told, requests, server, pipeline>>

\* axios gives up after requestTimeoutMs; the handler goes on.
TimesOut == \E i \in 1..Len(requests) :
              /\ requests[i].awaited
              /\ requests' = [requests EXCEPT ![i].awaited = FALSE]
              /\ UNCHANGED <<page, server, pipeline>>

\* A request does not get through.
Lose == \E i \in 1..Len(requests) :
          /\ ~requests[i].served
          /\ requests' = RemoveAt(requests, i)
          /\ lost' = (lost \/ requests[i].kind = "activate")
          /\ UNCHANGED <<page, upload, version, pipeline>>

-----------------------------------------------------------------------------
\* The server.

Busy == \E i \in 1..Len(requests) : requests[i].served

Take(i) == requests' = [requests EXCEPT ![i].served = TRUE]

\* The upload is staged and previewed.
AcceptPreview(i) ==
  /\ requests[i].kind = "preview"
  /\ \E u \in Upload : /\ upload[u] = "unused"
                       /\ upload' = [upload EXCEPT ![u] = "staged"]
                       /\ requests' = [requests EXCEPT ![i].served = TRUE, ![i].upload = u]
  /\ Start("preview")
  /\ UNCHANGED <<page, version, lost>>

\* The upload is looked up by its id.
AcceptIngest(i) ==
  /\ requests[i].kind = "ingest"
  /\ upload[requests[i].upload] = "staged"
  /\ Take(i)
  /\ Start("ingest")
  /\ UNCHANGED <<page, server>>

\* The upload cannot be staged, or is not there any more.
Refuse(i) ==
  /\ \/ requests[i].kind = "preview"
     \/ requests[i].kind = "ingest" /\ upload[requests[i].upload] # "staged"
  /\ requests' = RemoveAt(requests, i)
  /\ UNCHANGED <<page, server, pipeline>>

\* activate_version; then the page says so and closes the dialog.
Activate(i) ==
  /\ requests[i].kind = "activate"
  /\ version' = "active"
  /\ requests' = RemoveAt(requests, i)
  /\ IF requests[i].awaited THEN told' = TRUE /\ preview' = None ELSE UNCHANGED page
  /\ UNCHANGED <<upload, lost, pipeline>>

\* An error, although the transaction may have committed.
ActivateFails(i) ==
  /\ requests[i].kind = "activate"
  /\ version' \in {version, "active"}
  /\ requests' = RemoveAt(requests, i)
  /\ lost' = TRUE
  /\ UNCHANGED <<page, upload, pipeline>>

\* The run goes on.  It stores a draft, unless the file has a version already:
\* then storing raises.
Run == /\ Stage
       /\ stored' /\ ~stored => version = "none"
       /\ version' = IF stored' /\ ~stored THEN "draft" ELSE version
       /\ UNCHANGED <<page, requests, upload, lost>>

\* The answer of a preview is what the dialog asks to confirm.
Allowed == ~(stop /\ Last(log).stage = "intake_validation")

\* Whatever the preview finds, its upload stays; some exceptions take it away.
PreviewEnds(i) ==
  /\ requests[i].kind = "preview"
  /\ \/ /\ outcome = "answered"
        /\ preview' = IF requests[i].awaited
                      THEN [upload |-> requests[i].upload, allowed |-> Allowed]
                      ELSE preview
        /\ UNCHANGED upload
     \/ /\ outcome = "raised"
        /\ upload' \in {upload, [upload EXCEPT ![requests[i].upload] = "gone"]}
        /\ UNCHANGED preview
  /\ requests' = RemoveAt(requests, i)
  /\ Rest
  /\ UNCHANGED <<told, version, lost>>

\* Faulty variant: the page says published as soon as the version is stored.
IngestAnsweredEarly(i) ==
  /\ outcome = "answered"
  /\ upload' = [upload EXCEPT ![requests[i].upload] = "gone"]
  /\ requests' = IF requests[i].awaited /\ answer = "persisted"
                 THEN Append(RemoveAt(requests, i), Sent("activate", None))
                 ELSE RemoveAt(requests, i)
  /\ told' = (told \/ (requests[i].awaited /\ answer = "persisted"))
  /\ UNCHANGED preview
  /\ lost' = (lost \/ (stored /\ ~requests[i].awaited))

\* Faulty variant: the user has left the dialog's confirmation, so it does not go on.
IngestAnsweredShown(i) ==
  /\ outcome = "answered"
  /\ upload' = [upload EXCEPT ![requests[i].upload] = "gone"]
  /\ requests' = IF requests[i].awaited /\ answer = "persisted" /\ preview # None
                 THEN Append(RemoveAt(requests, i), Sent("activate", None))
                 ELSE RemoveAt(requests, i)
  /\ lost' = (lost \/ (stored /\ ~requests[i].awaited))
  /\ UNCHANGED page

\* The upload goes, stored or not.  A page that waits activates what was stored.
IngestAnswered(i) ==
  /\ outcome = "answered"
  /\ upload' = [upload EXCEPT ![requests[i].upload] = "gone"]
  /\ requests' = IF requests[i].awaited /\ answer = "persisted"
                 THEN Append(RemoveAt(requests, i), Sent("activate", None))
                 ELSE RemoveAt(requests, i)
  /\ lost' = (lost \/ (stored /\ ~requests[i].awaited))
  /\ UNCHANGED page

\* An error, although the transaction may have committed; the upload stays.
IngestRaised(i) ==
  /\ outcome = "raised"
  /\ requests' = RemoveAt(requests, i)
  /\ lost' = (lost \/ stored)
  /\ UNCHANGED <<page, upload>>

IngestEnds(i) ==
  /\ requests[i].kind = "ingest"
  /\ IngestAnswered(i) \/ IngestRaised(i)
  /\ Rest
  /\ UNCHANGED version

\* Faulty variant: an activation that nobody waits for is left where it is.
ServeActivateAwaited ==
  /\ ~Busy
  /\ \E i \in 1..Len(requests) : /\ requests[i].awaited
                                 /\ Activate(i) \/ ActivateFails(i)

ServeActivate == /\ ~Busy
                 /\ \E i \in 1..Len(requests) : Activate(i) \/ ActivateFails(i)

ServerStep ==
  \/ /\ ~Busy
     /\ \E i \in 1..Len(requests) : AcceptPreview(i) \/ AcceptIngest(i) \/ Refuse(i)
  \/ ServeActivate
  \/ Run
  \/ \E i \in 1..Len(requests) : /\ requests[i].served
                                 /\ PreviewEnds(i) \/ IngestEnds(i)

SessionNext == SubmitForm \/ Confirm \/ Cancel \/ TimesOut \/ Lose \/ ServerStep

SessionSpec == SessionInit /\ [][SessionNext]_sessionVars

\* The server goes on with what it has been sent, and its event loop does not pass
\* over an activation for ever: what has arrived waits in a queue.
SessionFairSpec == /\ SessionSpec
                   /\ WF_sessionVars(ServerStep)
                   /\ SF_sessionVars(ServeActivate)

-----------------------------------------------------------------------------
\* The page's and the server's variables are within their types.
SessionTypeOK ==
  /\ TypeOK
  /\ preview \in {None} \cup [upload : Upload, allowed : BOOLEAN]
  /\ requests \in Seq(Request)
  /\ upload \in [Upload -> {"unused", "staged", "gone"}]
  /\ version \in {"none", "draft", "active"}
  /\ told \in BOOLEAN /\ lost \in BOOLEAN

\* The page says that a document is stored and published only when it is.
ToldPublished == told => version = "active"

\* A version that is stored, not published, and not about to be, has been lost
\* sight of in one of these ways: the ingest was answered too late or with an
\* error after its commit, or the activation failed or did not arrive.  Nothing
\* else the user does in the dialog leaves a draft behind.
DraftExplained ==
  version = "draft" =>
    lost \/ \E i \in 1..Len(requests) :
              \/ requests[i].kind = "activate"
              \/ requests[i].kind = "ingest" /\ requests[i].awaited
              \/ requests[i].kind = "ingest" /\ requests[i].served

\* A stored version is published in the end, or is lost sight of.
DraftSettles == version = "draft" ~> version = "active" \/ lost
=============================================================================
