--------------------------- MODULE AttachmentViewer ---------------------------
(***************************************************************************)
(* The attachments of a note in the editor of the web client: the tiles    *)
(* and the lightbox of its images, the pills and the preview of its        *)
(* documents, and the addresses they fetch and share.                      *)
(*                                                                         *)
(* An address is the attachment it leads to and its disposition.  An image *)
(* is its place among the images, from 1.                                  *)
(***************************************************************************)
EXTENDS Integers, FiniteSets

CONSTANTS
  ImageCount, MaxTiles,   \* the grid has at most MaxTiles tiles (4 in the code)
  Pdfs, OtherFiles,
  NoFile,
  MaxClicks,              \* bound: previews and downloads waiting at a time
  MaxFaults               \* bound: requests lost

VARIABLES
  attachments,     \* the list of the note's attachments: loading, shown, or failed
  downloadUrls,    \* key -> the address kept under it
  tiles,           \* image -> what its tile shows
  lightboxOpen, lightboxIndex,
  loadedUrls,      \* image -> the address the lightbox keeps for it
  wanted,          \* the image the lightbox waits for, 0 when it waits for none
  previewOpen, previewAttachment, previewLoading,
  requests,        \* what was clicked for and is not answered
  faults

lightboxVars == <<lightboxOpen, lightboxIndex, loadedUrls, wanted>>
previewVars == <<previewOpen, previewAttachment, previewLoading>>
vars == <<attachments, downloadUrls, tiles, lightboxVars, previewVars, requests, faults>>

Images == 1..ImageCount
Documents == Pdfs \cup OtherFiles
Files == Images \cup Documents
Key == [of : Files, preview : BOOLEAN]
KeyOf(f, preview) == [of |-> f, preview |-> preview]
NoUrl == KeyOf(NoFile, FALSE)
Url == Key \cup {NoUrl}
Request == [kind : {"preview", "download"}, file : Files]

TypeOK ==
  /\ attachments \in {"loading", "shown", "failed"}
  /\ downloadUrls \in [Key -> Url]
  /\ tiles \in [Images -> {"absent", "loading", "image", "error"}]
  /\ lightboxOpen \in BOOLEAN /\ lightboxIndex \in Images
  /\ loadedUrls \in [Images -> Url]
  /\ wanted \in Images \cup {0}
  /\ previewOpen \in BOOLEAN /\ previewLoading \in BOOLEAN
  /\ previewAttachment \in Documents \cup {NoFile}
  /\ requests \subseteq Request
  /\ faults \in 0..MaxFaults

Init ==
  /\ attachments = "loading"
  /\ downloadUrls = [k \in Key |-> NoUrl]
  /\ tiles = [i \in Images |-> "absent"]
  /\ lightboxOpen = FALSE /\ lightboxIndex = 1
  /\ loadedUrls = [i \in Images |-> NoUrl] /\ wanted = 0
  /\ previewOpen = FALSE /\ previewAttachment = NoFile /\ previewLoading = FALSE
  /\ requests = {} /\ faults = 0

Fault == faults < MaxFaults /\ faults' = faults + 1
NoDialog == ~lightboxOpen /\ ~previewOpen

-----------------------------------------------------------------------------
(* The list, and the tiles that mount with it                              *)

\* The effect of the lightbox looks at a new image, not at the end of a wait.
ImageToFetchOnce(index, loaded, waiting) ==
  IF loaded[index] = NoUrl /\ waiting = 0 /\ index # wanted THEN index ELSE waiting

\* The effect of the lightbox, open or not: the current image is fetched
\* unless it is there or the lightbox waits already.
ImageToFetch(index, loaded, waiting) ==
  IF loaded[index] = NoUrl /\ waiting = 0 THEN index ELSE waiting

ListAnswered ==
  /\ attachments = "loading"
  /\ attachments' = "shown"
  /\ tiles' = [i \in Images |-> IF i <= MaxTiles THEN "loading" ELSE "absent"]
  /\ wanted' = ImageToFetch(lightboxIndex, loadedUrls, wanted)
  /\ UNCHANGED <<downloadUrls, lightboxOpen, lightboxIndex, loadedUrls, previewVars, requests, faults>>

ListFailed ==
  /\ attachments = "loading" /\ Fault
  /\ attachments' = "failed"
  /\ UNCHANGED <<downloadUrls, tiles, lightboxVars, previewVars, requests>>

\* Only the editor opened anew reads the list again.
Reopen ==
  /\ attachments = "failed"
  /\ attachments' = "loading"
  /\ UNCHANGED <<downloadUrls, tiles, lightboxVars, previewVars, requests, faults>>

TileAnswered(i) ==
  /\ tiles[i] = "loading"
  /\ tiles' = [tiles EXCEPT ![i] = "image"]
  /\ downloadUrls' = [downloadUrls EXCEPT ![KeyOf(i, FALSE)] = KeyOf(i, FALSE)]
  /\ UNCHANGED <<attachments, lightboxVars, previewVars, requests, faults>>

TileFailed(i) ==
  /\ tiles[i] = "loading" /\ Fault
  /\ tiles' = [tiles EXCEPT ![i] = "error"]
  /\ UNCHANGED <<attachments, downloadUrls, lightboxVars, previewVars, requests>>

-----------------------------------------------------------------------------
(* The lightbox                                                            *)

GoTo(i) ==
  /\ lightboxIndex' = i
  /\ wanted' = ImageToFetch(i, loadedUrls, wanted)
  /\ UNCHANGED <<attachments, downloadUrls, tiles, loadedUrls, previewVars, requests, faults>>

ImageClick(i) ==
  /\ attachments = "shown" /\ NoDialog /\ tiles[i] # "absent"
  /\ lightboxOpen' = TRUE
  /\ GoTo(i)

Prev == lightboxOpen /\ lightboxIndex > 1 /\ GoTo(lightboxIndex - 1) /\ UNCHANGED lightboxOpen
NextImage == lightboxOpen /\ lightboxIndex < ImageCount /\ GoTo(lightboxIndex + 1) /\ UNCHANGED lightboxOpen

CloseLightbox ==
  /\ lightboxOpen
  /\ lightboxOpen' = FALSE
  /\ UNCHANGED <<attachments, downloadUrls, tiles, lightboxIndex, loadedUrls, wanted, previewVars, requests, faults>>

ImageAnswered ==
  /\ wanted # 0
  /\ loadedUrls' = [loadedUrls EXCEPT ![wanted] = KeyOf(wanted, FALSE)]
  /\ wanted' = ImageToFetch(lightboxIndex, loadedUrls', 0)
  /\ downloadUrls' = [downloadUrls EXCEPT ![KeyOf(wanted, FALSE)] = KeyOf(wanted, FALSE)]
  /\ UNCHANGED <<attachments, tiles, lightboxOpen, lightboxIndex, previewVars, requests, faults>>

\* The end of the wait runs the effect again: it asks once more, at once.  An
\* address kept by the page cannot fail.
ImageFailed ==
  /\ wanted # 0 /\ downloadUrls[KeyOf(wanted, FALSE)] = NoUrl /\ Fault
  /\ wanted' = ImageToFetch(lightboxIndex, loadedUrls, 0)
  /\ UNCHANGED <<attachments, downloadUrls, tiles, lightboxOpen, lightboxIndex, loadedUrls, previewVars, requests>>

-----------------------------------------------------------------------------
(* Documents, and downloads                                                *)

KeyFor(r) == KeyOf(r.file, r.kind = "preview" /\ r.file \in Pdfs)

DocumentPreview(f) ==
  /\ attachments = "shown" /\ NoDialog /\ Cardinality(requests) < MaxClicks
  /\ previewAttachment' = f /\ previewOpen' = TRUE /\ previewLoading' = TRUE
  /\ requests' = requests \cup {[kind |-> "preview", file |-> f]}
  /\ UNCHANGED <<attachments, downloadUrls, tiles, lightboxVars, faults>>

ClosePreview ==
  /\ previewOpen
  /\ previewOpen' = FALSE
  /\ UNCHANGED <<attachments, downloadUrls, tiles, lightboxVars, previewAttachment, previewLoading, requests, faults>>

\* From a pill, from the preview of that document, or from the lightbox at that image.
Download(f) ==
  /\ attachments = "shown" /\ Cardinality(requests) < MaxClicks
  /\ \/ f \in Documents /\ ~lightboxOpen /\ (previewOpen => f = previewAttachment)
     \/ f \in Images /\ lightboxOpen /\ f = lightboxIndex
  /\ requests' = requests \cup {[kind |-> "download", file |-> f]}
  /\ UNCHANGED <<attachments, downloadUrls, tiles, lightboxVars, previewVars, faults>>

\* The address that is kept under the key, or a new one.
UrlFor(r) == IF downloadUrls[KeyFor(r)] # NoUrl THEN downloadUrls[KeyFor(r)] ELSE KeyFor(r)

\* The preview keeps its address for the document shown by now.
RequestAnsweredCurrent(r) ==
  /\ requests' = requests \ {r}
  /\ IF r.kind = "preview"
     THEN /\ downloadUrls' = [downloadUrls EXCEPT ![KeyFor(r)] = UrlFor(r),
                                                   ![KeyOf(previewAttachment, FALSE)] = UrlFor(r)]
          /\ previewLoading' = FALSE
     ELSE /\ downloadUrls' = [downloadUrls EXCEPT ![KeyFor(r)] = UrlFor(r)]
          /\ UNCHANGED previewLoading
  /\ UNCHANGED <<attachments, tiles, lightboxVars, previewOpen, previewAttachment, faults>>

\* The address of a preview is kept under the key of the download as well; a
\* download opens a window with its address.
RequestAnswered(r) ==
  /\ requests' = requests \ {r}
  /\ IF r.kind = "preview"
     THEN /\ downloadUrls' = [downloadUrls EXCEPT ![KeyFor(r)] = UrlFor(r),
                                                   ![KeyOf(r.file, FALSE)] = UrlFor(r)]
          /\ previewLoading' = FALSE
     ELSE /\ downloadUrls' = [downloadUrls EXCEPT ![KeyFor(r)] = UrlFor(r)]
          /\ UNCHANGED previewLoading
  /\ UNCHANGED <<attachments, tiles, lightboxVars, previewOpen, previewAttachment, faults>>

RequestFailed(r) ==
  /\ downloadUrls[KeyFor(r)] = NoUrl /\ Fault
  /\ requests' = requests \ {r}
  /\ previewLoading' = (previewLoading /\ r.kind # "preview")
  /\ UNCHANGED <<attachments, downloadUrls, tiles, lightboxVars, previewOpen, previewAttachment>>

-----------------------------------------------------------------------------
User ==
  \/ Reopen \/ Prev \/ NextImage \/ CloseLightbox \/ ClosePreview
  \/ \E i \in Images : ImageClick(i)
  \/ \E f \in Documents : DocumentPreview(f)
  \/ \E f \in Files : Download(f)

Faults == ListFailed \/ ImageFailed \/ (\E i \in Images : TileFailed(i)) \/ \E r \in requests : RequestFailed(r)

Next ==
  \/ User \/ Faults \/ ListAnswered \/ ImageAnswered
  \/ \E i \in Images : TileAnswered(i)
  \/ \E r \in requests : RequestAnswered(r)

\* What the lightbox waits for is answered or lost.
Progress == ImageAnswered \/ ImageFailed

-----------------------------------------------------------------------------
\* However late an address comes, and whatever is shown by then, it is kept for
\* the attachment it leads to: no lightbox or preview shows another one, and no
\* window is opened with another's
\* (fetchDownloadUrl, handleDocumentPreview, the effect of AttachmentLightbox).
UrlsOfTheirFile ==
  /\ \A i \in Images : loadedUrls[i] = NoUrl \/ loadedUrls[i].of = i
  /\ \A k \in Key : downloadUrls[k] = NoUrl \/ downloadUrls[k].of = k.of
  /\ \A r \in requests : UrlFor(r).of = r.file
=============================================================================
