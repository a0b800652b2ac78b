-------------------------- MODULE ClientPagesProofs --------------------------
(***************************************************************************)
(* What each page of the clients promises, for any notes, files, tags and  *)
(* requests: an invariant of each page by itself, and the steps of the     *)
(* clients as steps of one page at a time.                                 *)
(***************************************************************************)
EXTENDS ClientPages, Sequences, FiniteSetTheorems, TLAPS

\* A step of the clients is a step of at most one page: to every other page it
\* is a stutter.
LEMMA PageSteps ==
  ASSUME [Next]_vars
  PROVE  /\ [Library!Next]_libraryVars /\ [Attachments!Next]_attachmentVars
         /\ [Account!Next]_accountVars /\ [TagPage!Next]_tagPageVars
         /\ [Picker!Next]_pickerVars /\ [Search!Next]_searchVars
         /\ [MobileNote!Next]_mobileNoteVars /\ [MobileList!Next]_mobileListVars
         /\ route' = route
  BY DEF Next, OnLibrary, OnAttachments, OnAccount, OnTags, OnPicker, OnSearch, OnMobileNote, OnMobileList,
         vars, webVars, mobileVars

-----------------------------------------------------------------------------
(* The attachments                                                         *)

\* What a click opens follows from what is kept.
UrlsInv ==
  /\ \A i \in Attachments!Images : loadedUrls[i] = Attachments!NoUrl \/ loadedUrls[i].of = i
  /\ \A k \in Attachments!Key : downloadUrls[k] = Attachments!NoUrl \/ downloadUrls[k].of = k.of

AttachmentsInv == Attachments!TypeOK /\ UrlsInv

LEMMA AttachmentKeys ==
  /\ \A f, preview : Attachments!KeyOf(f, preview).of = f
  /\ \A f \in Attachments!Files, preview \in BOOLEAN :
       Attachments!KeyOf(f, preview) \in Attachments!Key
  /\ Attachments!Key \subseteq Attachments!Url /\ Attachments!NoUrl \in Attachments!Url
  BY DEF Attachments!KeyOf, Attachments!Key, Attachments!Url

LEMMA AttachmentsInit == Init => AttachmentsInv
<1> SUFFICES ASSUME Attachments!Init PROVE AttachmentsInv
  BY DEF Init
<1>1. 1 \in Attachments!Images /\ 0 \in 0..MaxFaults
  BY ClientPagesAssumption DEF Attachments!Images
<1>2. Attachments!NoUrl \in Attachments!Url
  BY AttachmentKeys
<1> QED
  BY <1>1, <1>2 DEF AttachmentsInv, UrlsInv, Attachments!Init, Attachments!TypeOK

\* The address a file is opened or previewed with leads to it.
LEMMA UrlOfFile ==
  ASSUME AttachmentsInv, NEW r \in fileRequests
  PROVE  /\ r \in Attachments!Request /\ r.file \in Attachments!Files
         /\ Attachments!KeyFor(r) \in Attachments!Key /\ Attachments!KeyFor(r).of = r.file
         /\ Attachments!KeyOf(r.file, FALSE) \in Attachments!Key
         /\ Attachments!UrlFor(r) \in Attachments!Url /\ Attachments!UrlFor(r).of = r.file
<1>1. r \in Attachments!Request /\ r.file \in Attachments!Files
  BY DEF AttachmentsInv, Attachments!TypeOK, Attachments!Request
<1>2. Attachments!KeyFor(r) \in Attachments!Key /\ Attachments!KeyFor(r).of = r.file
      /\ Attachments!KeyOf(r.file, FALSE) \in Attachments!Key
  BY <1>1, AttachmentKeys DEF Attachments!KeyFor
<1>3. Attachments!UrlFor(r) \in Attachments!Url /\ Attachments!UrlFor(r).of = r.file
  BY <1>2, AttachmentKeys
     DEF Attachments!UrlFor, AttachmentsInv, Attachments!TypeOK, UrlsInv
<1> QED
  BY <1>1, <1>2, <1>3

\* An address kept under a key of its file stays right, and so do the others.
LEMMA AddressKept ==
  ASSUME AttachmentsInv, NEW k \in Attachments!Key, NEW u \in Attachments!Url, u.of = k.of,
         NEW urls \in [Attachments!Key -> Attachments!Url],
         \A j \in Attachments!Key : urls[j] = Attachments!NoUrl \/ urls[j].of = j.of
  PROVE  /\ [urls EXCEPT ![k] = u] \in [Attachments!Key -> Attachments!Url]
         /\ \A j \in Attachments!Key :
              [urls EXCEPT ![k] = u][j] = Attachments!NoUrl \/ [urls EXCEPT ![k] = u][j].of = j.of
  OBVIOUS

LEMMA AttachmentsStep == AttachmentsInv /\ [Attachments!Next]_attachmentVars => AttachmentsInv'
<1> SUFFICES ASSUME AttachmentsInv, [Attachments!Next]_attachmentVars PROVE AttachmentsInv'
  OBVIOUS
<1> USE DEF AttachmentsInv, UrlsInv, Attachments!TypeOK, Attachments!lightboxVars, Attachments!previewVars
<1>0. Attachments!Fault => fileFaults' \in 0..MaxFaults
  BY ClientPagesAssumption DEF Attachments!Fault
<1>1. CASE UNCHANGED attachmentVars
  BY <1>1 DEF attachmentVars
<1>2. CASE Attachments!Reopen \/ Attachments!CloseLightbox \/ Attachments!ClosePreview \/ Attachments!ListFailed
  BY <1>0, <1>2 DEF Attachments!Reopen, Attachments!CloseLightbox, Attachments!ClosePreview, Attachments!ListFailed
<1>3. CASE Attachments!ListAnswered
  <2>1. tiles' \in [Attachments!Images -> {"absent", "loading", "image", "error"}]
    BY <1>3 DEF Attachments!ListAnswered
  <2>2. wanted' \in Attachments!Images \cup {0}
    BY <1>3 DEF Attachments!ListAnswered, Attachments!ImageToFetch
  <2> QED
    BY <1>3, <2>1, <2>2 DEF Attachments!ListAnswered
<1>4. ASSUME NEW i \in Attachments!Images, Attachments!GoTo(i), lightboxOpen' \in BOOLEAN
      PROVE  AttachmentsInv'
  BY <1>4 DEF Attachments!GoTo, Attachments!ImageToFetch
<1>5. CASE Attachments!Prev \/ Attachments!NextImage
  <2>1. CASE Attachments!Prev
    <3>1. lightboxIndex - 1 \in Attachments!Images /\ Attachments!GoTo(lightboxIndex - 1) /\ lightboxOpen' \in BOOLEAN
      <4>1. ImageCount \in Nat /\ lightboxIndex \in 1..ImageCount
        BY ClientPagesAssumption DEF Attachments!Images
      <4> QED
        BY <2>1, <4>1 DEF Attachments!Prev, Attachments!Images
    <3> QED
      BY <1>4, <3>1
  <2>2. CASE Attachments!NextImage
    <3>1. lightboxIndex + 1 \in Attachments!Images /\ Attachments!GoTo(lightboxIndex + 1) /\ lightboxOpen' \in BOOLEAN
      BY <2>2, ClientPagesAssumption DEF Attachments!NextImage, Attachments!Images
    <3> QED
      BY <1>4, <3>1
  <2> QED
    BY <1>5, <2>1, <2>2
<1>6. CASE \E i \in Attachments!Images : Attachments!ImageClick(i)
  BY <1>4, <1>6 DEF Attachments!ImageClick
<1>7. ASSUME NEW f \in Attachments!Files,
             (f \in Attachments!Documents /\ Attachments!DocumentPreview(f)) \/ Attachments!Download(f)
      PROVE  AttachmentsInv'
  <2>1. \A kind \in {"preview", "download"} : [kind |-> kind, file |-> f] \in Attachments!Request
    BY DEF Attachments!Request
  <2>2. fileRequests' \subseteq Attachments!Request
    BY <1>7, <2>1 DEF Attachments!DocumentPreview, Attachments!Download
  <2> QED
    BY <1>7, <2>2 DEF Attachments!DocumentPreview, Attachments!Download
<1>8. CASE Attachments!ImageFailed
  BY <1>0, <1>8 DEF Attachments!ImageFailed, Attachments!ImageToFetch
<1>9. ASSUME NEW i \in Attachments!Images, Attachments!TileFailed(i)
      PROVE  AttachmentsInv'
  BY <1>0, <1>9 DEF Attachments!TileFailed
<1>10. ASSUME NEW i \in Attachments!Images, Attachments!TileAnswered(i)
       PROVE  AttachmentsInv'
  <2>1. Attachments!KeyOf(i, FALSE) \in Attachments!Key /\ Attachments!KeyOf(i, FALSE) \in Attachments!Url
    BY AttachmentKeys DEF Attachments!Files
  <2>2. downloadUrls' = [downloadUrls EXCEPT ![Attachments!KeyOf(i, FALSE)] = Attachments!KeyOf(i, FALSE)]
        /\ tiles' = [tiles EXCEPT ![i] = "image"]
        /\ UNCHANGED <<attachments, lightboxOpen, lightboxIndex, loadedUrls, wanted, previewOpen,
                       previewAttachment, previewLoading, fileRequests, fileFaults>>
    BY <1>10 DEF Attachments!TileAnswered
  <2>3. /\ downloadUrls' \in [Attachments!Key -> Attachments!Url]
        /\ \A j \in Attachments!Key : downloadUrls'[j] = Attachments!NoUrl \/ downloadUrls'[j].of = j.of
    BY <2>1, <2>2, AddressKept
  <2> QED
    BY <2>2, <2>3
<1>11. CASE Attachments!ImageAnswered
  <2> DEFINE k == Attachments!KeyOf(wanted, FALSE)
  <2>1. wanted \in Attachments!Images /\ k \in Attachments!Key /\ k \in Attachments!Url /\ k.of = wanted
    BY <1>11, AttachmentKeys DEF Attachments!ImageAnswered, Attachments!Files
  <2>2. /\ loadedUrls' = [loadedUrls EXCEPT ![wanted] = k] /\ downloadUrls' = [downloadUrls EXCEPT ![k] = k]
        /\ wanted' \in {0, lightboxIndex}
        /\ UNCHANGED <<attachments, tiles, lightboxOpen, lightboxIndex, previewOpen, previewAttachment,
                       previewLoading, fileRequests, fileFaults>>
    BY <1>11 DEF Attachments!ImageAnswered, Attachments!ImageToFetch
  <2>3. /\ downloadUrls' \in [Attachments!Key -> Attachments!Url]
        /\ \A j \in Attachments!Key : downloadUrls'[j] = Attachments!NoUrl \/ downloadUrls'[j].of = j.of
    BY <2>1, <2>2, AddressKept
  <2>4. /\ loadedUrls' \in [Attachments!Images -> Attachments!Url]
        /\ \A j \in Attachments!Images : loadedUrls'[j] = Attachments!NoUrl \/ loadedUrls'[j].of = j
    BY <2>1, <2>2
  <2> QED
    BY <2>2, <2>3, <2>4
<1>12. ASSUME NEW r \in fileRequests, Attachments!RequestFailed(r)
       PROVE  AttachmentsInv'
  BY <1>0, <1>12 DEF Attachments!RequestFailed
<1>13. ASSUME NEW r \in fileRequests, Attachments!RequestAnswered(r)
       PROVE  AttachmentsInv'
  <2> DEFINE url == Attachments!UrlFor(r)
  <2> DEFINE kept == [downloadUrls EXCEPT ![Attachments!KeyFor(r)] = url]
  <2>0. /\ r.file \in Attachments!Files /\ url \in Attachments!Url /\ url.of = r.file
        /\ Attachments!KeyFor(r) \in Attachments!Key /\ Attachments!KeyFor(r).of = r.file
        /\ Attachments!KeyOf(r.file, FALSE) \in Attachments!Key
    BY UrlOfFile
  <2> HIDE DEF url
  <2>1. /\ kept \in [Attachments!Key -> Attachments!Url]
        /\ \A j \in Attachments!Key : kept[j] = Attachments!NoUrl \/ kept[j].of = j.of
    BY <2>0, AddressKept
  <2>2. UNCHANGED <<attachments, tiles, lightboxOpen, lightboxIndex, loadedUrls, wanted, previewOpen,
                    previewAttachment, fileFaults>> /\ fileRequests' \subseteq fileRequests
    BY <1>13 DEF Attachments!RequestAnswered
  <2>3. /\ downloadUrls' \in [Attachments!Key -> Attachments!Url]
        /\ \A j \in Attachments!Key : downloadUrls'[j] = Attachments!NoUrl \/ downloadUrls'[j].of = j.of
    <3>1. CASE r.kind = "preview"
      <4>1. downloadUrls' = [kept EXCEPT ![Attachments!KeyOf(r.file, FALSE)] = url]
        BY <1>13, <3>1 DEF Attachments!RequestAnswered, url
      <4>2. Attachments!KeyOf(r.file, FALSE).of = r.file
        BY AttachmentKeys
      <4> HIDE DEF kept
      <4> QED
        BY <2>0, <2>1, <4>1, <4>2, AddressKept
    <3>2. CASE r.kind # "preview"
      <4>1. downloadUrls' = kept
        BY <1>13, <3>2 DEF Attachments!RequestAnswered, url
      <4> QED
        BY <2>1, <4>1
    <3> QED
      BY <3>1, <3>2
  <2>4. previewLoading' \in BOOLEAN
    BY <1>13 DEF Attachments!RequestAnswered
  <2> QED
    BY <2>2, <2>3, <2>4
<1> QED
  BY <1>1, <1>2, <1>3, <1>5, <1>6, <1>7, <1>8, <1>9, <1>10, <1>11, <1>12, <1>13
     DEF Attachments!Next, Attachments!User, Attachments!Faults, Attachments!Files

-----------------------------------------------------------------------------
(* The search page                                                         *)

\* One search at a time, for the query searched for last.
SearchInv ==
  /\ Search!TypeOK
  /\ \A r, s \in searches : r = s
  /\ \A r \in searches : r.query = submitted
  /\ ResultsOfLastSearch

LEMMA SearchInit == Init => SearchInv
<1> SUFFICES ASSUME Search!Init PROVE SearchInv
  BY DEF Init
<1>1. Search!NoQuery \in Search!Query /\ 0 \in 0..MaxEdits
  BY ClientPagesAssumption DEF Search!NoQuery, Search!Query
<1> QED
  BY <1>1 DEF SearchInv, Search!Init, Search!TypeOK, ResultsOfLastSearch, Search!ResultsOfLastSearch

\* What leaves the searches and the results alone need only keep its types.
LEMMA SearchUntouched ==
  ASSUME SearchInv, UNCHANGED <<searchState, searchMode, resultsOf, results, searches, submitted>>,
         isSignedIn' \in BOOLEAN, query' \in Search!Query, draft' \in Search!Query, asked' \in Search!Query,
         found' \subseteq Words, edits' \in 0..MaxEdits, isTagPopoverOpen' \in BOOLEAN
  PROVE  SearchInv'
  BY DEF SearchInv, Search!TypeOK, ResultsOfLastSearch, Search!ResultsOfLastSearch

\* A search begun with none under way is the only one.
LEMMA SearchBegun ==
  ASSUME SearchInv, searchState # "searching", Search!Search(query)
  PROVE  SearchInv'
<1>1. searches = {} /\ query \in Search!Query /\ Search!NoQuery \in Search!Query
  BY DEF SearchInv, Search!TypeOK, Search!NoQuery, Search!Query
<1>2. CASE isSignedIn
  <2>1. /\ searches' = {[query |-> query, state |-> "sent"]} /\ searchState' = "searching" /\ submitted' = query
        /\ draft' = Search!NoQuery /\ query' = query /\ asked' = Search!NoQuery /\ isTagPopoverOpen' = FALSE
        /\ UNCHANGED <<isSignedIn, searchMode, resultsOf, results, found, edits>>
    BY <1>1, <1>2 DEF Search!Search
  <2>2. [query |-> query, state |-> "sent"] \in Search!Request
    BY <1>1 DEF Search!Request
  <2> DEFINE r == [query |-> query, state |-> "sent"]
  <2>3. r.query = query
    OBVIOUS
  <2> HIDE DEF r
  <2>4. searches' = {r} /\ r \in Search!Request
    BY <2>1, <2>2 DEF r
  <2>5. Search!TypeOK'
    BY <1>1, <2>1, <2>4 DEF SearchInv, Search!TypeOK
  <2> QED
    BY <2>1, <2>3, <2>4, <2>5 DEF SearchInv, ResultsOfLastSearch, Search!ResultsOfLastSearch
<1>3. CASE ~isSignedIn
  BY <1>1, <1>3, SearchUntouched DEF Search!Search, SearchInv, Search!TypeOK
<1> QED
  BY <1>2, <1>3

LEMMA SearchStep == SearchInv /\ [Search!Next]_searchVars => SearchInv'
<1> SUFFICES ASSUME SearchInv, [Search!Next]_searchVars PROVE SearchInv'
  OBVIOUS
<1>0. /\ isSignedIn \in BOOLEAN /\ query \in Search!Query /\ draft \in Search!Query /\ asked \in Search!Query
      /\ found \subseteq Words /\ edits \in 0..MaxEdits /\ isTagPopoverOpen \in BOOLEAN
      /\ searches \subseteq Search!Request /\ (searchState = "searching" <=> searches # {})
  BY DEF SearchInv, Search!TypeOK
<1>1. Search!NoQuery \in Search!Query /\ Search!Sign \in Search!Query
      /\ \A w \in Words : Search!Plain(w) \in Search!Query /\ Search!Tag(w) \in Search!Query
  BY DEF Search!NoQuery, Search!Query, Search!Sign, Search!Plain, Search!Tag
<1>2. \A q \in Search!Query : Search!SetQuery(q) => query' \in Search!Query /\ isTagPopoverOpen' \in BOOLEAN
  BY <1>0 DEF Search!SetQuery
<1>3. CASE UNCHANGED searchVars
  BY <1>0, <1>3, SearchUntouched DEF searchVars
<1>4. CASE Search!TagChip
  BY <1>0, <1>1, <1>4, SearchUntouched DEF Search!TagChip, Search!stateVars
<1>5. CASE Search!Submit \/ Search!Retry
  BY <1>5, SearchBegun DEF Search!Submit, Search!Retry, Search!InputEnabled
<1>6. CASE Search!Clear
  <2>1. searches = {} /\ searchState' = "idle" /\ query' \in Search!Query /\ isTagPopoverOpen' \in BOOLEAN
        /\ results' = FALSE
        /\ UNCHANGED <<isSignedIn, draft, searchMode, resultsOf, found, edits, searches, submitted, asked>>
    BY <1>0, <1>1, <1>2, <1>6 DEF Search!Clear
  <2> QED
    BY <2>1 DEF SearchInv, Search!TypeOK, ResultsOfLastSearch, Search!ResultsOfLastSearch
<1>7. CASE Search!SignInFirst
  BY <1>0, <1>7, SearchUntouched DEF Search!SignInFirst, Search!inputVars, Search!stateVars
<1>8. ASSUME NEW q \in Search!Query, Search!Type(q)
      PROVE  SearchInv'
  BY <1>0, <1>2, <1>8, SearchUntouched DEF Search!Type, Search!stateVars
<1>9. ASSUME NEW w \in Words, Search!SelectTag(w)
      PROVE  SearchInv'
  BY <1>0, <1>1, <1>9, SearchUntouched DEF Search!SelectTag, Search!stateVars
<1>10. ASSUME NEW signedIn \in BOOLEAN, Search!Return(signedIn)
       PROVE  SearchInv'
  <2>1. query' \in Search!Query /\ isTagPopoverOpen' \in BOOLEAN
    BY <1>0, <1>2, <1>10 DEF Search!Return, Search!inputVars
  <2> QED
    BY <1>0, <1>10, <2>1, SearchUntouched DEF Search!Return, Search!stateVars
<1>11. CASE Search!EditNotes
  BY <1>0, <1>11, ClientPagesAssumption, SearchUntouched DEF Search!EditNotes, Search!inputVars, Search!stateVars
<1>12. ASSUME NEW r \in searches, NEW state \in {"failed", "found", "none"},
              searches' = (searches \ {r}) \cup {[r EXCEPT !.state = state]},
              UNCHANGED <<isSignedIn, query, isTagPopoverOpen, draft, searchState, searchMode, resultsOf, results,
                          found, edits, submitted, asked>>
       PROVE  SearchInv'
  <2>1. searches = {r} /\ r \in Search!Request /\ r.query = submitted
    BY <1>0 DEF SearchInv
  <2>2. searches' = {[r EXCEPT !.state = state]} /\ [r EXCEPT !.state = state] \in Search!Request
        /\ [r EXCEPT !.state = state].query = submitted
    BY <1>12, <2>1 DEF Search!Request
  <2> QED
    BY <1>12, <2>1, <2>2 DEF SearchInv, Search!TypeOK, ResultsOfLastSearch, Search!ResultsOfLastSearch
<1>13. ASSUME NEW r \in searches, Search!ServerSearch(r) \/ Search!Lose(r)
       PROVE  SearchInv'
  BY <1>12, <1>13 DEF Search!ServerSearch, Search!Lose, Search!inputVars, Search!stateVars
<1>14. ASSUME NEW r \in searches, Search!HandleAnswer(r)
       PROVE  SearchInv'
  <2>1. searches = {r} /\ r \in Search!Request /\ r.query = submitted /\ submitted \in Search!Query
    BY <1>0 DEF SearchInv, Search!TypeOK
  <2>2. /\ searches' = {} /\ r.state # "sent"
        /\ UNCHANGED <<isSignedIn, query, isTagPopoverOpen, draft, found, edits, submitted, asked>>
    BY <1>14, <2>1 DEF Search!HandleAnswer, Search!inputVars
  <2>3. CASE r.state = "failed"
    BY <1>14, <2>1, <2>2, <2>3
       DEF Search!HandleAnswer, SearchInv, Search!TypeOK, ResultsOfLastSearch, Search!ResultsOfLastSearch
  <2>4. CASE r.state # "failed"
    <3>1. /\ searchMode' = Search!ModeOf(submitted) /\ resultsOf' = submitted /\ results' = (r.state = "found")
          /\ searchState' = IF r.state = "found" THEN "results" ELSE "no_results"
      BY <1>14, <2>1, <2>4 DEF Search!HandleAnswer
    <3>2. Search!ModeOf(submitted) \in {"tag_only", "combined"}
      BY DEF Search!ModeOf
    <3> QED
      BY <2>1, <2>2, <3>1, <3>2 DEF SearchInv, Search!TypeOK, ResultsOfLastSearch, Search!ResultsOfLastSearch
  <2> QED
    BY <2>3, <2>4
<1> QED
  BY <1>1, <1>3, <1>4, <1>5, <1>6, <1>7, <1>8, <1>9, <1>10, <1>11, <1>13, <1>14
     DEF Search!Next, Search!User, Search!Progress

-----------------------------------------------------------------------------
(* The library of the mobile client                                        *)

\* Requests carry the numbers under which they were sent, each its own.
ListNumberInv ==
  /\ sent \in Nat /\ newest \in 0..sent
  /\ listRequests \subseteq [number : 1..sent, of : MobileList!AnyQuery]
  /\ \A r, s \in listRequests : r.number = s.number => r = s
  /\ newest = sent => \A r \in listRequests : r.number # sent

\* Only a search for the query can wait, and it is one to send.
ListJobInv == searchJob \in {MobileList!NoJob, {listQuery}} /\ listQuery \in MobileList!AnyQuery

\* With no search waiting the last request is for the query: it is under way, or
\* was lost, or was listed, and then only an older answer can have replaced it.
ListLastInv ==
  searchJob = MobileList!NoJob =>
    \/ \E r \in listRequests : r.number = sent /\ r.of = listQuery
    \/ listFailed
    \/ newest = sent /\ (overtaken \/ items = listQuery)

ListInv == ListNumberInv /\ ListJobInv /\ ListLastInv

\* The first load is the last request, and no query has been typed.
LEMMA ListStart == MobileList!Init => ListInv
  BY DEF MobileList!Init, ListInv, ListNumberInv, ListJobInv, ListLastInv, MobileList!Request,
       MobileList!AnyQuery, MobileList!NoJob

\* A request for the query, sent while no search waits, becomes the last one.
LEMMA ListSendInv ==
  ASSUME ListInv, NEW q \in MobileList!AnyQuery, MobileList!Send(q),
         listQuery' = q, searchJob' = MobileList!NoJob, UNCHANGED newest
  PROVE  ListInv'
<1>1. /\ sent \in Nat /\ sent' = sent + 1
      /\ listRequests' = listRequests \cup {[number |-> sent + 1, of |-> q]}
  BY DEF ListInv, ListNumberInv, MobileList!Send, MobileList!Request
<1>2. ListNumberInv'
  BY <1>1 DEF ListInv, ListNumberInv
<1>3. \E r \in listRequests' : r.number = sent' /\ r.of = listQuery'
  <2> DEFINE last == [number |-> sent + 1, of |-> q]
  <2>1. last \in listRequests' /\ last.number = sent' /\ last.of = listQuery'
    BY <1>1
  <2> QED BY <2>1
<1>4. ListLastInv'
  BY <1>3 DEF ListLastInv
<1> QED BY <1>2, <1>4 DEF ListInv, ListJobInv, MobileList!AnyQuery, MobileList!NoJob

\* Typing sends the load of all notes at once, or makes the search wait.
LEMMA ListQueryChangedInv ==
  ASSUME ListInv, NEW q \in MobileList!AnyQuery, MobileList!QueryChanged(q)
  PROVE  ListInv'
<1>1. CASE q = NoWord
  BY <1>1, ListSendInv DEF MobileList!QueryChanged
<1>2. CASE q # NoWord
  BY <1>2 DEF MobileList!QueryChanged, ListInv, ListNumberInv, ListJobInv, ListLastInv, MobileList!NoJob
<1> QED BY <1>1, <1>2

\* The search that has waited is one for the query.
LEMMA ListDelayEndsInv == ListInv /\ MobileList!DelayEnds => ListInv'
<1> SUFFICES ASSUME ListInv, MobileList!DelayEnds PROVE ListInv'
  OBVIOUS
<1>1. PICK q \in searchJob : MobileList!Send(q)
  BY DEF MobileList!DelayEnds
<1>2. q = listQuery /\ q \in MobileList!AnyQuery
  BY DEF ListInv, ListJobInv, MobileList!NoJob
<1> QED BY <1>1, <1>2, ListSendInv DEF MobileList!DelayEnds

\* A retry asks for the query; a search that waits will ask for it again.
LEMMA ListRetryInv == ListInv /\ MobileList!Retry => ListInv'
<1> SUFFICES ASSUME ListInv, MobileList!Retry PROVE ListInv'
  OBVIOUS
<1>1. /\ sent \in Nat /\ sent' = sent + 1
      /\ listRequests' = listRequests \cup {[number |-> sent + 1, of |-> listQuery]}
  BY DEF ListInv, ListNumberInv, MobileList!Retry, MobileList!Send, MobileList!Request
<1>2. ListNumberInv'
  BY <1>1 DEF ListInv, ListNumberInv, ListJobInv, MobileList!Retry
<1>3. \E r \in listRequests' : r.number = sent' /\ r.of = listQuery'
  <2> DEFINE last == [number |-> sent + 1, of |-> listQuery]
  <2>1. last \in listRequests' /\ last.number = sent' /\ last.of = listQuery'
    BY <1>1 DEF MobileList!Retry
  <2> QED BY <2>1
<1>4. ListLastInv'
  BY <1>3 DEF ListLastInv
<1> QED BY <1>2, <1>4 DEF ListInv, ListJobInv, MobileList!AnyQuery, MobileList!NoJob, MobileList!Retry

\* An answer that is not the last leaves the last where it is, or overtakes it.
LEMMA ListSucceedInv ==
  ASSUME ListInv, NEW r \in listRequests, MobileList!Succeed(r)
  PROVE  ListInv'
<1>1. r.number \in 1..sent /\ newest \in 0..sent /\ sent \in Nat
  BY DEF ListInv, ListNumberInv
<1>2. ListNumberInv'
  BY <1>1 DEF ListInv, ListNumberInv, MobileList!Succeed
<1>3. ListLastInv'
  <2> SUFFICES ASSUME searchJob = MobileList!NoJob, ~listFailed
               PROVE  \/ \E s \in listRequests' : s.number = sent /\ s.of = listQuery
                      \/ newest' = sent /\ (overtaken' \/ items' = listQuery)
    BY DEF ListLastInv, MobileList!Succeed
  <2>1. CASE r.number = sent
    BY <2>1, <1>1 DEF ListInv, ListNumberInv, ListLastInv, MobileList!Succeed
  <2>2. CASE r.number # sent
    <3>1. CASE \E s \in listRequests : s.number = sent /\ s.of = listQuery
      BY <3>1, <2>2 DEF MobileList!Succeed
    <3>2. CASE newest = sent
      <4>1. r.number < newest
        BY <3>2, <2>2, <1>1
      <4>2. newest' = sent
        BY <4>1, <3>2, <1>1 DEF MobileList!Succeed
      <4>3. overtaken'
        BY <4>1 DEF MobileList!Succeed
      <4> QED BY <4>2, <4>3
    <3>3. (\E s \in listRequests : s.number = sent /\ s.of = listQuery) \/ newest = sent
      BY Zenon DEF ListInv, ListLastInv
    <3> QED BY <3>1, <3>2, <3>3, Zenon
  <2> QED BY <2>1, <2>2
<1> QED BY <1>2, <1>3 DEF ListInv, ListJobInv, MobileList!AnyQuery, MobileList!NoJob, MobileList!Succeed

\* A loss shows the error, whichever request is lost.
LEMMA ListLoseInv ==
  ASSUME ListInv, NEW r \in listRequests, MobileList!Lose(r)
  PROVE  ListInv'
  BY DEF ListInv, ListNumberInv, ListJobInv, ListLastInv, MobileList!Lose

LEMMA ListInductive == ListInv /\ [MobileList!Next]_mobileListVars => ListInv'
<1> SUFFICES ASSUME ListInv, [MobileList!Next]_mobileListVars PROVE ListInv'
  OBVIOUS
<1>1. CASE \E q \in MobileList!AnyQuery : MobileList!QueryChanged(q)
  BY <1>1, ListQueryChangedInv
<1>2. CASE MobileList!DelayEnds
  BY <1>2, ListDelayEndsInv
<1>3. CASE MobileList!Retry
  BY <1>3, ListRetryInv
<1>4. CASE \E r \in listRequests : MobileList!Succeed(r) \/ MobileList!Lose(r)
  BY <1>4, ListSucceedInv, ListLoseInv
<1>5. CASE UNCHANGED mobileListVars
  BY <1>5 DEF mobileListVars, ListInv, ListNumberInv, ListJobInv, ListLastInv
<1> QED BY <1>1, <1>2, <1>3, <1>4, <1>5 DEF MobileList!Next

-----------------------------------------------------------------------------
(* The detail screen of the mobile client                                  *)

SomeNote == MobileNotes \cup {NoNote}
UpdateKinds == {"none", "preUpdate", "confirm", "update", "discard"}
UpdatePhases == {"none", "sent", "done", "refused"}

NoteItemInv ==
  /\ item \in [id : SomeNote, status : MobileNote!ItemStatus]
  /\ item # MobileNote!NoItem => item.id \in MobileNotes

\* What is in the fields is for the note that is shown, whatever was loaded or
\* saved last, and so is what the tag dialog holds.
NoteInputInv ==
  /\ inputs \in [MobileNote!Fields -> MobileNote!Input] /\ tagEditorTags \in MobileNote!Input
  /\ \A f \in MobileNote!Fields : inputs[f].of = item.id
  /\ isTagEditorOpen => tagEditorTags.of = item.id

NoteLoadInv == loads \subseteq [number : Nat, note : MobileNotes, seen : MobileNote!ItemStatus \cup {"unread"}]

\* A request carries texts of its note.  The note is still shown when the second
\* request of a confirmation takes its tags, unless another was loaded.
NoteUpdateInv ==
  /\ update \in [kind : UpdateKinds, note : SomeNote, sent : [MobileNote!Fields -> SomeNote],
                 phase : UpdatePhases, crossed : BOOLEAN]
  /\ update.phase # "none" => update.note \in MobileNotes
  /\ \A f \in MobileNote!Fields :
       \/ update.sent[f] \in {update.note, NoNote}
       \/ f = "tags" /\ update.kind = "confirm" /\ update.crossed
  /\ update.kind = "preUpdate" /\ ~update.crossed => item.id = update.note

NoteStoredInv ==
  /\ stored \in [MobileNotes -> [status : MobileNote!ItemStatus, texts : [MobileNote!Fields -> MobileNotes]]]
  /\ MobileNote!TextsOfTheirNote

NoteBeginInv == begun \in [{"loads", "updates"} -> Nat]

NoteInv == NoteItemInv /\ NoteInputInv /\ NoteLoadInv /\ NoteUpdateInv /\ NoteStoredInv /\ NoteBeginInv

noteDetailVars == <<item, inputs, tagEditorTags, isTagEditorOpen, loads, update, stored, crossed, begun>>

-----------------------------------------------------------------------------
\* The table of the entity leads from states to states.
LEMMA NoteTransitionType ==
  ASSUME NEW s \in MobileNote!ItemStatus, NEW a, MobileNote!CanTransition(s, a)
  PROVE  MobileNote!AllowedTransitions[s][a] \in MobileNote!ItemStatus
  BY DEF MobileNote!ItemStatus, MobileNote!CanTransition, MobileNote!AllowedTransitions, MobileNote!NoActions

\* A note's own fields hold its texts.
LEMMA NoteFromItemType ==
  ASSUME NEW n \in SomeNote
  PROVE  /\ MobileNote!FromItem(n) \in [MobileNote!Fields -> MobileNote!Input]
       /\ MobileNote!Closed \in MobileNote!Input
         /\ \A f \in MobileNote!Fields : MobileNote!FromItem(n)[f].of = n
  BY DEF MobileNote!FromItem, MobileNote!Plain, MobileNote!Closed, MobileNote!Input, SomeNote

LEMMA NoteUnchanged == NoteInv /\ UNCHANGED noteDetailVars => NoteInv'
  BY DEF noteDetailVars, NoteInv, NoteItemInv, NoteInputInv, NoteLoadInv, NoteUpdateInv, NoteStoredInv,
       NoteBeginInv,
         MobileNote!TextsOfTheirNote

LEMMA NoteStart == MobileNote!Init => NoteInv
<1> SUFFICES ASSUME MobileNote!Init PROVE NoteInv
  OBVIOUS
<1>1. NoNote \in SomeNote
  BY DEF SomeNote
<1>2. NoteItemInv
  BY DEF MobileNote!Init, NoteItemInv, MobileNote!NoItem, SomeNote, MobileNote!ItemStatus
<1>3. NoteInputInv
  BY <1>1, NoteFromItemType DEF MobileNote!Init, NoteInputInv, MobileNote!NoItem
<1>4. NoteLoadInv /\ NoteBeginInv
  BY DEF MobileNote!Init, NoteLoadInv, NoteBeginInv
<1>5. NoteUpdateInv
  BY <1>1 DEF MobileNote!Init, NoteUpdateInv, MobileNote!NoUpdate, UpdateKinds, UpdatePhases
<1>6. NoteStoredInv
  BY DEF MobileNote!Init, NoteStoredInv, MobileNote!TextsOfTheirNote, MobileNote!Statuses
<1> QED BY <1>2, <1>3, <1>4, <1>5, <1>6 DEF NoteInv

-----------------------------------------------------------------------------
\* A load is a request for the note; nothing is shown of it yet.
LEMMA NoteLoadStep ==
  ASSUME NoteInv, NEW n \in MobileNotes, MobileNote!Load(n)
  PROVE  NoteInv'
<1>1. NoteLoadInv'
  BY DEF NoteInv, NoteLoadInv, NoteBeginInv, MobileNote!Load
<1>2. NoteBeginInv'
  BY DEF NoteInv, NoteBeginInv, MobileNote!Load
<1>3. NoteItemInv' /\ NoteInputInv' /\ NoteUpdateInv' /\ NoteStoredInv'
  BY DEF NoteInv, NoteItemInv, NoteInputInv, NoteUpdateInv, NoteStoredInv, MobileNote!TextsOfTheirNote,
       MobileNote!Load, MobileNote!editVars, MobileNote!serverVars
<1> QED BY <1>1, <1>2, <1>3 DEF NoteInv

\* An edit changes fields alone: each stays a field of the note shown.
LEMMA NoteEditStep ==
  ASSUME NoteInv, MobileNote!Edit, NoteInputInv'
  PROVE  NoteInv'
<1>1. UNCHANGED <<item, loads, update, stored, crossed, begun>>
  BY DEF MobileNote!Edit, MobileNote!serverVars
<1> QED BY <1>1 DEF NoteInv, NoteItemInv, NoteLoadInv, NoteUpdateInv, NoteStoredInv, NoteBeginInv,
     MobileNote!TextsOfTheirNote

LEMMA NoteShowItemStep ==
  ASSUME NoteInv, NEW e, MobileNote!ShowItem(e)
  PROVE  NoteInv'
<1>1. item.id \in SomeNote /\ item' = item
  BY DEF NoteInv, NoteItemInv, MobileNote!ShowItem, MobileNote!Edit
<1>2. NoteInputInv'
  BY <1>1, NoteFromItemType DEF NoteInputInv, MobileNote!ShowItem
<1> QED BY <1>2, NoteEditStep DEF MobileNote!ShowItem

LEMMA NoteChangeStep ==
  ASSUME NoteInv, NEW f \in MobileNote!Fields, MobileNote!Change(f)
  PROVE  NoteInv'
<1>1. PICK c \in BOOLEAN : inputs' = [inputs EXCEPT ![f].changed = c]
  BY DEF MobileNote!Change
<1>2. NoteInputInv'
  BY <1>1 DEF NoteInv, NoteInputInv, MobileNote!Change, MobileNote!Edit, MobileNote!Input
<1> QED BY <1>2, NoteEditStep DEF MobileNote!Change

\* The dialog opens on the tags of the screen, and gives them back changed.
LEMMA NoteTagEditorStep ==
  ASSUME NoteInv, MobileNote!OpenTagEditor \/ MobileNote!ChangeTagEditor \/ MobileNote!CloseTagEditor
       \/ MobileNote!SaveTagEditor
  PROVE  NoteInv'
<1>0. MobileNote!Closed \in MobileNote!Input /\ "tags" \in MobileNote!Fields
  BY DEF MobileNote!Closed, MobileNote!Plain, MobileNote!Input, MobileNote!Fields
<1>1. CASE MobileNote!OpenTagEditor
  <2>1. NoteInputInv'
    BY <1>0, <1>1 DEF NoteInv, NoteInputInv, MobileNote!OpenTagEditor, MobileNote!Edit
  <2> QED BY <1>1, <2>1, NoteEditStep DEF MobileNote!OpenTagEditor
<1>2. CASE MobileNote!ChangeTagEditor
  <2>1. PICK c \in BOOLEAN : tagEditorTags' = [tagEditorTags EXCEPT !.changed = c]
    BY <1>2 DEF MobileNote!ChangeTagEditor
  <2>2. NoteInputInv'
    BY <1>2, <2>1 DEF NoteInv, NoteInputInv, MobileNote!ChangeTagEditor, MobileNote!Edit, MobileNote!Input
  <2> QED BY <1>2, <2>2, NoteEditStep DEF MobileNote!ChangeTagEditor
<1>3. CASE MobileNote!CloseTagEditor
  <2>1. NoteInputInv'
    BY <1>0, <1>3 DEF NoteInv, NoteInputInv, MobileNote!CloseTagEditor, MobileNote!Edit
  <2> QED BY <1>3, <2>1, NoteEditStep DEF MobileNote!CloseTagEditor
<1>4. CASE MobileNote!SaveTagEditor
  <2>1. NoteInputInv'
    BY <1>0, <1>4 DEF NoteInv, NoteInputInv, MobileNote!SaveTagEditor, MobileNote!InDialog, MobileNote!Edit
  <2> QED BY <1>4, <2>1, NoteEditStep DEF MobileNote!SaveTagEditor
<1> QED BY <1>1, <1>2, <1>3, <1>4

-----------------------------------------------------------------------------
\* What is sent of a field of the note shown is a text of that note, or nothing.
LEMMA NoteSentType ==
  ASSUME NoteInv, NEW f \in MobileNote!Fields, NEW n
  PROVE  MobileNote!Sent(f, n) \in {item.id, NoNote}
  BY DEF NoteInv, NoteInputInv, MobileNote!Sent

LEMMA NoteBeginStep ==
  ASSUME NoteInv, NEW kind \in UpdateKinds, NEW texts \in [MobileNote!Fields -> SomeNote],
         \A f \in MobileNote!Fields : texts[f] \in {item.id, NoNote},
         item # MobileNote!NoItem, MobileNote!Begin(kind, texts)
  PROVE  NoteInv'
<1>1. item.id \in MobileNotes /\ item.id \in SomeNote
  BY DEF NoteInv, NoteItemInv
<1>2. /\ update' = [kind |-> kind, note |-> item.id, sent |-> texts, phase |-> "sent", crossed |-> FALSE]
      /\ UNCHANGED <<item, inputs, isTagEditorOpen, tagEditorTags, loads, stored, crossed>>
  BY DEF MobileNote!Begin, MobileNote!NoUpdate, MobileNote!editVars, MobileNote!serverVars
<1>3. NoteUpdateInv'
  BY <1>1, <1>2 DEF NoteUpdateInv, UpdatePhases
<1>4. NoteBeginInv'
  BY DEF NoteInv, NoteBeginInv, MobileNote!Begin
<1> QED BY <1>2, <1>3, <1>4 DEF NoteInv, NoteItemInv, NoteInputInv, NoteLoadInv, NoteStoredInv,
     MobileNote!TextsOfTheirNote

LEMMA NoteConfirmChangesStep == NoteInv /\ MobileNote!ConfirmChanges => NoteInv'
<1> SUFFICES ASSUME NoteInv, MobileNote!ConfirmChanges PROVE NoteInv'
  OBVIOUS
<1> DEFINE texts == [f \in MobileNote!Fields |-> MobileNote!Sent(f, item.id)]
<1>1. /\ texts \in [MobileNote!Fields -> SomeNote]
      /\ \A f \in MobileNote!Fields : texts[f] \in {item.id, NoNote}
  <2>1. item.id \in SomeNote /\ NoNote \in SomeNote
    BY DEF NoteInv, NoteItemInv, SomeNote
  <2> QED BY <2>1, NoteSentType
<1>2. PICK kind \in UpdateKinds : MobileNote!Begin(kind, texts)
  BY DEF MobileNote!ConfirmChanges, UpdateKinds
<1>3. item # MobileNote!NoItem
  BY DEF MobileNote!ConfirmChanges, MobileNote!BottomBar
<1> HIDE DEF texts
<1> QED BY <1>1, <1>2, <1>3, NoteBeginStep

LEMMA NoteDeleteConfirmedStep == NoteInv /\ MobileNote!DeleteConfirmed => NoteInv'
<1> SUFFICES ASSUME NoteInv, MobileNote!DeleteConfirmed PROVE NoteInv'
  OBVIOUS
<1>1. /\ MobileNote!NoUpdate.sent \in [MobileNote!Fields -> SomeNote]
      /\ \A f \in MobileNote!Fields : MobileNote!NoUpdate.sent[f] \in {item.id, NoNote}
  BY DEF MobileNote!NoUpdate, SomeNote
<1>2. "discard" \in UpdateKinds
  BY DEF UpdateKinds
<1> QED BY <1>1, <1>2, NoteBeginStep DEF MobileNote!DeleteConfirmed

-----------------------------------------------------------------------------
LEMMA NoteReadItemStep ==
  ASSUME NoteInv, NEW l \in loads, MobileNote!ReadItem(l)
  PROVE  NoteInv'
<1>1. stored[l.note].status \in MobileNote!ItemStatus
  BY DEF NoteInv, NoteLoadInv, NoteStoredInv
<1>2. NoteLoadInv'
  BY <1>1 DEF NoteInv, NoteLoadInv, MobileNote!ReadItem
<1> QED BY <1>2 DEF NoteInv, NoteItemInv, NoteInputInv, NoteUpdateInv, NoteStoredInv, NoteBeginInv,
     MobileNote!TextsOfTheirNote,
            MobileNote!ReadItem, MobileNote!editVars, MobileNote!serverVars

\* What is written are texts of the note, or tags of another under a
\* confirmation that a load has crossed, which is noted with the write.
LEMMA NoteUpdateItemStep == NoteInv /\ MobileNote!UpdateItem => NoteInv'
<1> SUFFICES ASSUME NoteInv, MobileNote!UpdateItem PROVE NoteInv'
  OBVIOUS
<1> DEFINE n == update.note
           action == MobileNote!ActionOf(update.kind)
           W(f) == f \in MobileNote!Written(update.kind) /\ update.sent[f] # NoNote
           texts == [f \in MobileNote!Fields |-> IF W(f) THEN update.sent[f] ELSE stored[n].texts[f]]
<1>1. /\ update.phase = "sent" /\ n \in MobileNotes
      /\ update.sent \in [MobileNote!Fields -> SomeNote]
  BY DEF NoteInv, NoteUpdateInv, MobileNote!UpdateItem
<1>2. UNCHANGED <<item, inputs, isTagEditorOpen, tagEditorTags, loads, begun>>
  BY DEF MobileNote!UpdateItem, MobileNote!editVars
<1>3. NoteItemInv' /\ NoteInputInv' /\ NoteLoadInv' /\ NoteBeginInv'
  BY <1>2 DEF NoteInv, NoteItemInv, NoteInputInv, NoteLoadInv, NoteBeginInv
<1>4. update' = [update EXCEPT !.phase = "done"] \/ update' = [update EXCEPT !.phase = "refused"]
  BY DEF MobileNote!UpdateItem
<1>5. NoteUpdateInv'
  BY <1>1, <1>2, <1>4 DEF NoteInv, NoteUpdateInv, UpdatePhases
<1>6. CASE MobileNote!CanTransition(stored[n].status, action)
  <2>1. stored' = [stored EXCEPT ![n] =
                     [status |-> MobileNote!AllowedTransitions[stored[n].status][action], texts |-> texts]]
    BY <1>1, <1>6 DEF MobileNote!UpdateItem, NoteInv, NoteStoredInv
  <2>2. crossed' = IF update.crossed /\ update.kind = "confirm" THEN crossed \cup {n} ELSE crossed
    BY <1>6 DEF MobileNote!UpdateItem
  <2>3. texts \in [MobileNote!Fields -> MobileNotes]
    BY <1>1 DEF NoteInv, NoteStoredInv, SomeNote
  <2>4. \A f \in MobileNote!Fields : texts[f] = n \/ (f = "tags" /\ n \in crossed')
    <3> TAKE f \in MobileNote!Fields
    <3>1. CASE W(f)
      BY <3>1, <2>2 DEF NoteInv, NoteUpdateInv
    <3>2. CASE ~W(f)
      BY <3>2, <2>2, <1>1 DEF NoteInv, NoteStoredInv, MobileNote!TextsOfTheirNote
    <3> QED BY <3>1, <3>2
  <2>5. MobileNote!AllowedTransitions[stored[n].status][action] \in MobileNote!ItemStatus
    BY <1>1, <1>6, NoteTransitionType DEF NoteInv, NoteStoredInv
  <2> HIDE DEF texts, n, action
  <2>6. stored' \in [MobileNotes -> [status : MobileNote!ItemStatus,
       texts : [MobileNote!Fields -> MobileNotes]]]
    BY <1>1, <2>1, <2>3, <2>5 DEF NoteInv, NoteStoredInv
  <2>7. MobileNote!TextsOfTheirNote'
    BY <1>1, <2>1, <2>2, <2>4 DEF NoteInv, NoteStoredInv, MobileNote!TextsOfTheirNote
  <2> QED BY <1>3, <1>5, <2>6, <2>7 DEF NoteInv, NoteStoredInv
<1>7. CASE ~MobileNote!CanTransition(stored[n].status, action)
  <2>1. UNCHANGED <<stored, crossed>>
    BY <1>7 DEF MobileNote!UpdateItem, MobileNote!serverVars
  <2> QED BY <1>3, <1>5, <2>1 DEF NoteInv, NoteStoredInv, MobileNote!TextsOfTheirNote
<1> QED BY <1>6, <1>7

-----------------------------------------------------------------------------
\* With a note the fields become those of the note.
LEMMA NoteApplyItemStep ==
  ASSUME NEW n \in MobileNotes, NEW s \in MobileNote!ItemStatus, MobileNote!ApplyItem(n, s)
  PROVE  NoteItemInv' /\ NoteInputInv' /\ item'.id = n
<1>1. n \in SomeNote
  BY DEF SomeNote
<1> QED BY <1>1, NoteFromItemType DEF MobileNote!ApplyItem, NoteItemInv, NoteInputInv

\* If it is another note than that of a first request, the request is crossed.
LEMMA NoteAnswerLoadStep ==
  ASSUME NoteInv, NEW l \in loads, MobileNote!AnswerLoad(l)
  PROVE  NoteInv'
<1>1. l.note \in MobileNotes /\ l.seen \in MobileNote!ItemStatus
  BY DEF NoteInv, NoteLoadInv, MobileNote!AnswerLoad
<1>2. NoteItemInv' /\ NoteInputInv' /\ item'.id = l.note
  BY <1>1, NoteApplyItemStep DEF MobileNote!AnswerLoad
<1>3. NoteLoadInv' /\ NoteStoredInv' /\ NoteBeginInv'
  BY DEF NoteInv, NoteLoadInv, NoteStoredInv, NoteBeginInv, MobileNote!TextsOfTheirNote,
       MobileNote!AnswerLoad, MobileNote!serverVars
<1>4. NoteUpdateInv'
  BY <1>2 DEF NoteInv, NoteUpdateInv, MobileNote!AnswerLoad
<1> QED BY <1>2, <1>3, <1>4 DEF NoteInv

LEMMA NoteLoseStep ==
  ASSUME NoteInv, MobileNote!LoseUpdate \/ \E l \in loads : MobileNote!LoseLoad(l)
  PROVE  NoteInv'
<1>1. CASE MobileNote!LoseUpdate
  <2>1. NoteUpdateInv'
    BY <1>1 DEF NoteInv, NoteUpdateInv, MobileNote!LoseUpdate, UpdatePhases
  <2> QED BY <1>1, <2>1 DEF NoteInv, NoteItemInv, NoteInputInv, NoteLoadInv, NoteStoredInv, NoteBeginInv,
       MobileNote!TextsOfTheirNote,
              MobileNote!LoseUpdate, MobileNote!editVars, MobileNote!serverVars
<1>2. CASE \E l \in loads : MobileNote!LoseLoad(l)
  BY <1>2 DEF NoteInv, NoteItemInv, NoteInputInv, NoteLoadInv, NoteUpdateInv, NoteStoredInv, NoteBeginInv,
       MobileNote!TextsOfTheirNote,
              MobileNote!LoseLoad, MobileNote!editVars, MobileNote!serverVars
<1> QED BY <1>1, <1>2

\* The tags taken by the second request are those of the note shown, which is
\* the note of the request unless a load has crossed it.
LEMMA NoteConfirmNowStep == NoteInv /\ MobileNote!ConfirmNow => NoteInv'
<1> SUFFICES ASSUME NoteInv, MobileNote!ConfirmNow PROVE NoteInv'
  OBVIOUS
<1> DEFINE tags == MobileNote!Sent("tags", update.note)
<1>1. /\ update.kind = "preUpdate" /\ update.phase = "done"
      /\ update' = [update EXCEPT !.kind = "confirm", !.phase = "sent", !.sent["tags"] = tags]
      /\ UNCHANGED <<item, inputs, isTagEditorOpen, tagEditorTags, loads, stored, crossed, begun>>
  BY DEF MobileNote!ConfirmNow, MobileNote!editVars, MobileNote!serverVars
<1>2. "tags" \in MobileNote!Fields /\ tags \in {item.id, NoNote} /\ tags \in SomeNote
  <2>1. "tags" \in MobileNote!Fields
    BY DEF MobileNote!Fields
  <2>2. tags \in {item.id, NoNote}
    BY <2>1, NoteSentType
  <2> QED BY <2>1, <2>2 DEF NoteInv, NoteItemInv, SomeNote
<1> HIDE DEF tags
<1>3. NoteUpdateInv'
  BY <1>1, <1>2 DEF NoteInv, NoteUpdateInv, UpdateKinds, UpdatePhases
<1> QED BY <1>1, <1>3 DEF NoteInv, NoteItemInv, NoteInputInv, NoteLoadInv, NoteStoredInv, NoteBeginInv,
     MobileNote!TextsOfTheirNote

\* Without a request nothing is left to say of one.
LEMMA NoteNoUpdateInv ==
  ASSUME update' = MobileNote!NoUpdate
  PROVE  NoteUpdateInv'
<1>1. NoNote \in SomeNote
  BY DEF SomeNote
<1> QED BY <1>1 DEF NoteUpdateInv, MobileNote!NoUpdate, UpdateKinds, UpdatePhases

LEMMA NoteEndStep ==
  ASSUME NoteInv, MobileNote!UpdateDone \/ MobileNote!DeleteDone \/ MobileNote!UpdateFailed
  PROVE  NoteInv'
<1>1. NoteUpdateInv'
  BY NoteNoUpdateInv DEF MobileNote!UpdateDone, MobileNote!DeleteDone, MobileNote!UpdateFailed
<1>2. NoteLoadInv' /\ NoteStoredInv' /\ NoteBeginInv'
  BY DEF NoteInv, NoteLoadInv, NoteStoredInv, NoteBeginInv, MobileNote!TextsOfTheirNote,
       MobileNote!UpdateDone, MobileNote!DeleteDone, MobileNote!UpdateFailed, MobileNote!serverVars
<1>3. NoteItemInv' /\ NoteInputInv'
  <2>1. CASE MobileNote!UpdateDone
    <3>1. update.note \in MobileNotes /\ "ARCHIVED" \in MobileNote!ItemStatus
      BY <2>1 DEF NoteInv, NoteUpdateInv, MobileNote!UpdateDone, MobileNote!ItemStatus
    <3> QED BY <2>1, <3>1, NoteApplyItemStep DEF MobileNote!UpdateDone
  <2>2. CASE MobileNote!DeleteDone \/ MobileNote!UpdateFailed
    BY <2>2 DEF NoteInv, NoteItemInv, NoteInputInv, MobileNote!DeleteDone, MobileNote!UpdateFailed,
         MobileNote!editVars
  <2> QED BY <2>1, <2>2
<1> QED BY <1>1, <1>2, <1>3 DEF NoteInv

-----------------------------------------------------------------------------
\* The note of the screen is the one last loaded.
NoteScreenInv == itemId \in MobileNotes \/ detailItemId = NoNote

LEMMA NoteScreenStep == NoteScreenInv /\ [MobileNote!Next]_mobileNoteVars => NoteScreenInv'
<1> SUFFICES ASSUME NoteScreenInv, [MobileNote!Next]_mobileNoteVars PROVE NoteScreenInv'
  OBVIOUS
<1>1. CASE \E n \in MobileNotes : MobileNote!Open(n)
  BY <1>1 DEF NoteScreenInv, MobileNote!Open, MobileNote!Load
<1>2. CASE MobileNote!Retry
  BY <1>2 DEF NoteScreenInv, MobileNote!Retry, MobileNote!Load
<1>3. CASE MobileNote!Back \/ UNCHANGED mobileNoteVars
  BY <1>3 DEF NoteScreenInv, MobileNote!Back, mobileNoteVars, MobileNote!flagVars
<1>4. CASE MobileNote!EditClicked \/ MobileNote!CancelEdit \/ \E f \in MobileNote!Fields : MobileNote!Change(f)
  BY <1>4 DEF NoteScreenInv, MobileNote!EditClicked, MobileNote!CancelEdit, MobileNote!ShowItem,
       MobileNote!Change, MobileNote!Edit, MobileNote!flagVars
<1>5. CASE MobileNote!OpenTagEditor \/ MobileNote!ChangeTagEditor \/ MobileNote!CloseTagEditor
     \/ MobileNote!SaveTagEditor
  BY <1>5 DEF NoteScreenInv, MobileNote!OpenTagEditor, MobileNote!ChangeTagEditor, MobileNote!CloseTagEditor,
       MobileNote!SaveTagEditor, MobileNote!Edit, MobileNote!flagVars
<1>6. CASE MobileNote!ConfirmChanges \/ MobileNote!DeleteConfirmed
  BY <1>6 DEF NoteScreenInv, MobileNote!ConfirmChanges, MobileNote!DeleteConfirmed, MobileNote!Begin
<1>7. CASE \E l \in loads : MobileNote!ReadItem(l) \/ MobileNote!AnswerLoad(l) \/ MobileNote!LoseLoad(l)
  BY <1>7 DEF NoteScreenInv, MobileNote!ReadItem, MobileNote!AnswerLoad, MobileNote!LoseLoad,
       MobileNote!flagVars
<1>8. CASE MobileNote!UpdateItem \/ MobileNote!LoseUpdate \/ MobileNote!ConfirmNow
     \/ MobileNote!UpdateDone \/ MobileNote!DeleteDone \/ MobileNote!UpdateFailed
  BY <1>8 DEF NoteScreenInv, MobileNote!UpdateItem, MobileNote!LoseUpdate, MobileNote!ConfirmNow,
       MobileNote!UpdateDone, MobileNote!DeleteDone, MobileNote!UpdateFailed, MobileNote!flagVars
<1> QED BY <1>1, <1>2, <1>3, <1>4, <1>5, <1>6, <1>7, <1>8 DEF MobileNote!Next

LEMMA NoteInductive == NoteInv /\ NoteScreenInv /\ [MobileNote!Next]_mobileNoteVars => NoteInv'
<1> SUFFICES ASSUME NoteInv, NoteScreenInv, [MobileNote!Next]_mobileNoteVars PROVE NoteInv'
  OBVIOUS
<1>1. CASE \E n \in MobileNotes : MobileNote!Open(n)
  BY <1>1, NoteLoadStep DEF MobileNote!Open
<1>2. CASE MobileNote!Retry
  <2>1. itemId \in MobileNotes
    BY <1>2 DEF NoteScreenInv, MobileNote!Retry, MobileNote!InReach, MobileNote!OnScreen
  <2> QED BY <1>2, <2>1, NoteLoadStep DEF MobileNote!Retry
<1>3. CASE MobileNote!Back
  BY <1>3, NoteUnchanged DEF MobileNote!Back, noteDetailVars, MobileNote!editVars, MobileNote!serverVars
<1>4. CASE MobileNote!EditClicked \/ MobileNote!CancelEdit
  BY <1>4, NoteShowItemStep DEF MobileNote!EditClicked, MobileNote!CancelEdit
<1>5. CASE \E f \in MobileNote!Fields : MobileNote!Change(f)
  BY <1>5, NoteChangeStep
<1>6. CASE MobileNote!OpenTagEditor \/ MobileNote!ChangeTagEditor \/ MobileNote!CloseTagEditor
     \/ MobileNote!SaveTagEditor
  BY <1>6, NoteTagEditorStep
<1>7. CASE MobileNote!ConfirmChanges \/ MobileNote!DeleteConfirmed
  BY <1>7, NoteConfirmChangesStep, NoteDeleteConfirmedStep
<1>8. CASE \E l \in loads : MobileNote!ReadItem(l) \/ MobileNote!AnswerLoad(l) \/ MobileNote!LoseLoad(l)
  BY <1>8, NoteReadItemStep, NoteAnswerLoadStep, NoteLoseStep
<1>9. CASE MobileNote!UpdateItem \/ MobileNote!LoseUpdate \/ MobileNote!ConfirmNow
     \/ MobileNote!UpdateDone \/ MobileNote!DeleteDone \/ MobileNote!UpdateFailed
  BY <1>9, NoteUpdateItemStep, NoteLoseStep, NoteConfirmNowStep, NoteEndStep
<1>10. CASE UNCHANGED mobileNoteVars
  BY <1>10, NoteUnchanged DEF mobileNoteVars, noteDetailVars, MobileNote!editVars, MobileNote!serverVars
<1> QED BY <1>1, <1>2, <1>3, <1>4, <1>5, <1>6, <1>7, <1>8, <1>9, <1>10 DEF MobileNote!Next

-----------------------------------------------------------------------------
(* The tag settings                                                        *)

\* What a change q writes, read off its record.
TagTarget(q) ==
  CASE q.kind = "create" /\ q.before.state = "absent" ->
         [name |-> q.name, color |-> DefaultColor, state |-> "live"]
    [] q.kind = "create" /\ q.before.state # "absent" -> [q.before EXCEPT !.state = "live"]
    [] q.kind = "rename" -> [q.before EXCEPT !.name = q.name]
    [] q.kind = "color" -> [q.before EXCEPT !.color = q.color]
    [] q.kind = "delete" -> [q.before EXCEPT !.state = "deleted"]
TagColumns(q) ==
  IF q.kind \in {"rename", "color"} THEN {c \in {"name", "color"} : TagTarget(q)[c] # q.again[c]}
  ELSE {c \in {"name", "color", "state"} : TagTarget(q)[c] # q.before[c]}
TagNames(q) == {TagTarget(q).name} \cup IF q.before.state = "absent" THEN {} ELSE {q.before.name}

\* A change in its transaction; one that has written; one that gave a row a name;
\* one that makes a new row.
TagReading(q) == q.phase \in {"loaded", "reread", "flushed", "answered"}
TagWrites(q) == q.phase \in {"flushed", "answered"} /\ TagColumns(q) # {}
TagNaming(q) == q.phase \in {"flushed", "answered"} /\ (q.before.state = "absent" \/ "name" \in TagColumns(q))
TagFresh(q) == TagReading(q) /\ q.before.state = "absent"

\* A change knows a row as it was once committed, or makes one.
TagChangeOk(q, rows) ==
  /\ q.phase \in {"unused", "delayed", "sent"} \/ q.before.state = "absent" => q.before = TagPage!NoRow
  /\ q.kind = "unused" <=> q.phase = "unused"
  /\ q.kind \in {"rename", "color", "delete"} /\ q.phase # "done" => q.id \in TagPage!Ids /\ rows[q.id].state # "absent"
  /\ TagReading(q) =>
       /\ q.id \in TagPage!Ids
       /\ q.before.state = "absent" => q.kind = "create"
       /\ q.before.state # "absent" => rows[q.id].state # "absent"

TagTypeInv == tagRows \in [TagPage!Ids -> TagPage!Row] /\ changes \in [TagPage!Slots -> TagPage!Request]
TagRowInv == \A i \in TagPage!Ids : tagRows[i].state = "absent" => tagRows[i] = TagPage!NoRow
TagChangeInv == \A r \in TagPage!Slots : TagChangeOk(changes[r], tagRows)

\* The row a creation makes is nobody else's.
TagFreshInv ==
  \A r \in TagPage!Slots : TagFresh(changes[r]) =>
    /\ tagRows[changes[r].id].state = "absent"
    /\ \A s \in TagPage!Slots \ {r} : changes[s].id # changes[r].id

\* No two transactions have written the same row, or hold the same name.
TagHoldInv ==
  \A r, s \in TagPage!Slots : r # s /\ TagWrites(changes[r]) /\ TagWrites(changes[s]) =>
    changes[r].id # changes[s].id /\ TagNames(changes[r]) \cap TagNames(changes[s]) = {}

\* The name given to a row is no other's when it is committed.
TagNameInv ==
  \A r \in TagPage!Slots, i \in TagPage!Ids :
    /\ TagNaming(changes[r]) /\ i # changes[r].id /\ tagRows[i].state # "absent"
    => tagRows[i].name # TagTarget(changes[r]).name

\* There is a row for every change that may still make one.
TagWaiting == {r \in TagPage!Slots : changes[r].phase \in {"unused", "delayed", "sent"}}
TagFree == {i \in TagPage!Ids : tagRows[i].state = "absent" /\ \A s \in TagPage!Slots : changes[s].id # i}
TagFreeInv == Cardinality(TagWaiting) <= Cardinality(TagFree)

TagServerInv ==
  /\ TagTypeInv /\ TagRowInv /\ TagChangeInv /\ TagFreshInv /\ TagHoldInv /\ TagNameInv /\ TagFreeInv
  /\ OneTagPerName

\* What the page shows is in the table of the server.
TagShownInv ==
  /\ table \in [TagPage!Ids -> TagPage!Row] /\ listing.rows \in [TagPage!Ids -> TagPage!Row]
  /\ \A i \in TagPage!Ids : table[i].state = "live" \/ listing.rows[i].state = "live" => tagRows[i].state # "absent"
  /\ renameTarget \in TagPage!Ids \cup {0}
  /\ renameTarget # 0 => tagRows[renameTarget].state # "absent"

\* The dialog that renames waits for a rename that is not answered.
TagSubmitInv ==
  /\ submitting \in TagPage!Slots \cup {0}
  /\ submitting # 0 => changes[submitting].kind = "rename" /\ changes[submitting].phase \notin {"done", "answered"}

\* The list shown, or on its way, is that of the server, unless it was misled, is
\* asked for again or failed, or a commit is still to be answered.
TagListInv ==
  \/ tagsMisled \/ listing.phase = "sent" \/ (listing.phase = "idle" /\ tagPage = "error")
  \/ \E r \in TagPage!Slots : changes[r].phase = "committed"
  \/ /\ \A r \in TagPage!Slots : changes[r].phase # "answered"
     /\ (IF listing.phase = "read" THEN listing.rows ELSE table) = TagPage!Live(tagRows)

TagInv == TagServerInv /\ TagShownInv /\ TagSubmitInv /\ TagListInv

LEMMA TagRowFacts ==
  /\ TagPage!AnyName \in Names /\ DefaultColor \in Colors
  /\ TagPage!NoRow \in TagPage!Row /\ TagPage!NoRow.state = "absent"
  /\ TagPage!NoRow.name = TagPage!AnyName /\ TagPage!NoRow.color = DefaultColor
  /\ DOMAIN TagPage!NoRow = {"name", "color", "state"}
  /\ TagPage!Unused \in TagPage!Request
<1>1. TagPage!AnyName \in Names /\ DefaultColor \in Colors
  BY ClientPagesAssumption DEF TagPage!AnyName
<1>2. TagPage!NoRow \in TagPage!Row
  BY <1>1 DEF TagPage!NoRow, TagPage!Row
<1>3. TagPage!Unused \in TagPage!Request
  BY <1>1, <1>2 DEF TagPage!Unused, TagPage!Request
<1> QED
  BY <1>1, <1>2, <1>3 DEF TagPage!NoRow

\* The operators of the page are those of the change's record.
LEMMA TagOperators ==
  ASSUME NEW r \in TagPage!Slots
  PROVE  /\ TagPage!Target(r) = TagTarget(changes[r]) /\ TagPage!Columns(r) = TagColumns(changes[r])
         /\ TagPage!NamesOf(r) = TagNames(changes[r])
         /\ TagPage!Holds(r) <=> TagWrites(changes[r])
         /\ TagPage!Edits(r) <=> changes[r].kind \in {"rename", "color"}
<1>1. TagPage!Target(r) = TagTarget(changes[r])
  BY DEF TagPage!Target, TagTarget
<1>2. TagPage!Columns(r) = TagColumns(changes[r])
  BY <1>1, TagRowFacts DEF TagPage!Columns, TagColumns, TagPage!Edits
<1> QED
  BY <1>1, <1>2 DEF TagPage!NamesOf, TagNames, TagPage!Holds, TagWrites, TagPage!Edits

\* What a change writes is a row: of an edit or a deletion, the one it read but
\* for its field.
LEMMA TagTargetRow ==
  ASSUME NEW q \in TagPage!Request, q.kind # "unused"
  PROVE  /\ TagTarget(q) \in TagPage!Row
         /\ q.kind = "create" => TagTarget(q).state = "live"
         /\ q.kind = "create" /\ q.before.state = "absent" =>
              TagTarget(q).name = q.name /\ TagTarget(q).color = DefaultColor
         /\ q.kind = "create" /\ q.before.state # "absent" =>
              TagTarget(q).name = q.before.name /\ TagTarget(q).color = q.before.color
         /\ q.kind = "rename" => TagTarget(q).name = q.name /\ TagTarget(q).color = q.before.color
                                 /\ TagTarget(q).state = q.before.state
         /\ q.kind = "color" => TagTarget(q).name = q.before.name /\ TagTarget(q).state = q.before.state
         /\ q.kind = "delete" => TagTarget(q).name = q.before.name /\ TagTarget(q).color = q.before.color
                                 /\ TagTarget(q).state = "deleted"
<1>1. q.kind \in {"create", "rename", "color", "delete"} /\ q.before \in TagPage!Row /\ q.name \in Names
      /\ q.color \in Colors
  BY DEF TagPage!Request
<1>2. DefaultColor \in Colors
  BY TagRowFacts
<1>3. CASE q.kind = "create"
  BY <1>1, <1>2, <1>3 DEF TagTarget, TagPage!Row
<1>4. CASE q.kind = "rename"
  BY <1>1, <1>2, <1>4 DEF TagTarget, TagPage!Row
<1>5. CASE q.kind = "color"
  BY <1>1, <1>2, <1>5 DEF TagTarget, TagPage!Row
<1>6. CASE q.kind = "delete"
  BY <1>1, <1>2, <1>6 DEF TagTarget, TagPage!Row
<1> QED
  BY <1>1, <1>3, <1>4, <1>5, <1>6

\* The row of a change once it is committed.
TagWritten(q, row) == [c \in DOMAIN row |-> IF c \in TagColumns(q) THEN TagTarget(q)[c] ELSE row[c]]

LEMMA TagWrittenRow ==
  ASSUME NEW q \in TagPage!Request, q.kind # "unused", NEW row \in TagPage!Row
  PROVE  /\ TagWritten(q, row) \in TagPage!Row
         /\ \A c \in {"name", "color", "state"} :
              TagWritten(q, row)[c] = IF c \in TagColumns(q) THEN TagTarget(q)[c] ELSE row[c]
<1>1. TagTarget(q) \in TagPage!Row
  BY TagTargetRow
<1>2. DOMAIN row = {"name", "color", "state"} /\ row = [name |-> row.name, color |-> row.color, state |-> row.state]
  BY DEF TagPage!Row
<1>3. \A c \in {"name", "color", "state"} :
        TagWritten(q, row)[c] = IF c \in TagColumns(q) THEN TagTarget(q)[c] ELSE row[c]
  BY <1>2 DEF TagWritten
<1>4. TagWritten(q, row) = [name |-> TagWritten(q, row).name, color |-> TagWritten(q, row).color,
                            state |-> TagWritten(q, row).state]
  BY <1>2 DEF TagWritten
<1>5. TagWritten(q, row).name \in Names /\ TagWritten(q, row).color \in Colors
      /\ TagWritten(q, row).state \in {"absent", "live", "deleted"}
  BY <1>1, <1>3 DEF TagPage!Row
<1> QED
  BY <1>3, <1>4, <1>5 DEF TagPage!Row

-----------------------------------------------------------------------------
LEMMA TagFinite ==
  /\ IsFiniteSet(TagPage!Ids) /\ Cardinality(TagPage!Ids) = MaxTags
  /\ IsFiniteSet(TagPage!Slots) /\ Cardinality(TagPage!Slots) = MaxChanges
  /\ \A S \in SUBSET TagPage!Ids : IsFiniteSet(S) /\ Cardinality(S) \in Nat
  /\ \A S \in SUBSET TagPage!Slots : IsFiniteSet(S) /\ Cardinality(S) \in Nat
<1>1. MaxTags \in Nat /\ MaxChanges \in Nat
  BY ClientPagesAssumption
<1>2. /\ IsFiniteSet(TagPage!Ids) /\ Cardinality(TagPage!Ids) = MaxTags
      /\ IsFiniteSet(TagPage!Slots) /\ Cardinality(TagPage!Slots) = MaxChanges
  BY <1>1, FS_Interval DEF TagPage!Ids, TagPage!Slots
<1>3. ASSUME NEW S, IsFiniteSet(S), NEW T \in SUBSET S
      PROVE  IsFiniteSet(T) /\ Cardinality(T) \in Nat
  BY <1>3, FS_Subset, FS_CardinalityType
<1> QED
  BY <1>2, <1>3

\* Fewer changes to come, or more rows free, and there is still a row for each.
LEMMA TagFreeKept ==
  ASSUME TagFreeInv, TagWaiting' \subseteq TagWaiting, TagFree \subseteq TagFree'
  PROVE  TagFreeInv'
<1>1. TagWaiting \in SUBSET TagPage!Slots /\ TagWaiting' \in SUBSET TagPage!Slots
      /\ TagFree \in SUBSET TagPage!Ids /\ TagFree' \in SUBSET TagPage!Ids
  BY DEF TagWaiting, TagFree
<1>2. Cardinality(TagWaiting') <= Cardinality(TagWaiting) /\ Cardinality(TagFree) <= Cardinality(TagFree')
  BY <1>1, TagFinite, FS_Subset
<1>3. Cardinality(TagWaiting) <= Cardinality(TagFree)
  BY DEF TagFreeInv
<1>4. /\ Cardinality(TagWaiting) \in Nat /\ Cardinality(TagWaiting') \in Nat
      /\ Cardinality(TagFree) \in Nat /\ Cardinality(TagFree') \in Nat
  BY <1>1, TagFinite
<1>5. Cardinality(TagWaiting') <= Cardinality(TagFree')
  BY <1>2, <1>3, <1>4
<1> QED
  BY <1>5 DEF TagFreeInv

\* A change that creates finds a free row, and leaves one for the others.
LEMMA TagFreeTaken ==
  ASSUME TagFreeInv, NEW r \in TagWaiting
  PROVE  /\ TagPage!Min(TagFree) \in TagFree
         /\ /\ TagWaiting' \subseteq TagWaiting \ {r}
            /\ TagFree \ {TagPage!Min(TagFree)} \subseteq TagFree'
            => TagFreeInv'
<1>1. TagWaiting \in SUBSET TagPage!Slots /\ TagFree \in SUBSET TagPage!Ids
  BY DEF TagWaiting, TagFree
<1>2. IsFiniteSet(TagWaiting) /\ IsFiniteSet(TagFree) /\ Cardinality(TagWaiting) \in Nat /\ Cardinality(TagFree) \in Nat
  BY <1>1, TagFinite
<1>3. Cardinality(TagWaiting) # 0
  BY <1>2, FS_EmptySet
<1>4. Cardinality(TagWaiting) <= Cardinality(TagFree)
  BY DEF TagFreeInv
<1>5. TagFree # {}
  BY <1>2, <1>3, <1>4, FS_EmptySet
<1>6. TagFree \subseteq Nat
  BY <1>1 DEF TagPage!Ids
<1>7. PICK k \in TagFree : \A j \in TagFree : ~(<<j, k>> \in OpToRel(<, Nat))
  BY <1>5, <1>6, NatLessThanWellFounded, WFMin
<1>8. \A j \in TagFree : ~(j < k)
  BY <1>6, <1>7 DEF OpToRel
<1>9. TagPage!Min(TagFree) \in TagFree
  <2>1. \A j \in TagFree : k <= j
    BY <1>6, <1>8
  <2> QED
    BY <2>1 DEF TagPage!Min
<1>10. ASSUME TagWaiting' \subseteq TagWaiting \ {r}, TagFree \ {TagPage!Min(TagFree)} \subseteq TagFree'
       PROVE  TagFreeInv'
  <2> DEFINE W == TagWaiting \ {r}
             F == TagFree \ {TagPage!Min(TagFree)}
  <2>1. Cardinality(W) = Cardinality(TagWaiting) - 1 /\ Cardinality(F) = Cardinality(TagFree) - 1
    BY <1>2, <1>9, FS_RemoveElement
  <2>2. /\ W \in SUBSET TagPage!Slots /\ TagWaiting' \in SUBSET W
        /\ TagFree' \in SUBSET TagPage!Ids /\ F \in SUBSET TagFree'
    BY <1>1, <1>10 DEF TagFree
  <2> HIDE DEF W, F
  <2>3. Cardinality(TagWaiting') <= Cardinality(W) /\ Cardinality(F) <= Cardinality(TagFree')
        /\ Cardinality(TagWaiting') \in Nat /\ Cardinality(TagFree') \in Nat
    <3>1. TagWaiting' \in SUBSET TagPage!Slots /\ IsFiniteSet(W) /\ IsFiniteSet(TagFree')
      BY <2>2, TagFinite
    <3> QED
      BY <2>2, <3>1, TagFinite, FS_Subset
  <2>4. Cardinality(TagWaiting') <= Cardinality(TagFree')
    BY <1>2, <1>4, <2>1, <2>3
  <2> QED
    BY <2>4 DEF TagFreeInv
<1> QED
  BY <1>9, <1>10

-----------------------------------------------------------------------------
\* One change moves on, and no row is written.
LEMMA TagOneChange ==
  ASSUME TagServerInv, tagRows' = tagRows,
         NEW r \in TagPage!Slots, NEW q \in TagPage!Request,
         changes' = [changes EXCEPT ![r] = q],
         TagChangeOk(q, tagRows),
         TagFresh(q) => /\ tagRows[q.id].state = "absent"
                        /\ \A s \in TagPage!Slots \ {r} : changes[s].id # q.id,
         \A s \in TagPage!Slots \ {r} : TagFresh(changes[s]) => q.id # changes[s].id,
         \A s \in TagPage!Slots \ {r} : TagWrites(q) /\ TagWrites(changes[s]) =>
           q.id # changes[s].id /\ TagNames(q) \cap TagNames(changes[s]) = {},
         TagNaming(q) => \A i \in TagPage!Ids : i # q.id /\ tagRows[i].state # "absent" =>
                           tagRows[i].name # TagTarget(q).name,
         TagFreeInv'
  PROVE  TagServerInv'
<1> USE DEF TagServerInv
<1>1. TagTypeInv'
  BY DEF TagTypeInv
<1>2. /\ changes'[r] = q /\ \A s \in TagPage!Slots \ {r} : changes'[s] = changes[s]
      /\ \A s \in TagPage!Slots : changes'[s] = IF s = r THEN q ELSE changes[s]
  BY DEF TagTypeInv
<1>3. TagRowInv' /\ OneTagPerName'
  BY DEF TagRowInv, OneTagPerName, TagPage!OneTagPerName, TagPage!OneEach
<1>4. TagChangeInv'
  BY <1>2 DEF TagChangeInv
<1>5. TagFreshInv'
  <2> SUFFICES ASSUME NEW s \in TagPage!Slots, TagFresh(changes'[s])
               PROVE  /\ tagRows[changes'[s].id].state = "absent"
                      /\ \A t \in TagPage!Slots \ {s} : changes'[t].id # changes'[s].id
    BY DEF TagFreshInv
  <2> QED
    BY <1>2 DEF TagFreshInv
<1>6. TagHoldInv'
  <2> SUFFICES ASSUME NEW s \in TagPage!Slots, NEW t \in TagPage!Slots, s # t,
                      TagWrites(changes'[s]), TagWrites(changes'[t])
               PROVE  changes'[s].id # changes'[t].id /\ TagNames(changes'[s]) \cap TagNames(changes'[t]) = {}
    BY DEF TagHoldInv
  <2> QED
    BY <1>2 DEF TagHoldInv
<1>7. TagNameInv'
  <2> SUFFICES ASSUME NEW s \in TagPage!Slots, NEW i \in TagPage!Ids, TagNaming(changes'[s]), i # changes'[s].id,
                      tagRows[i].state # "absent"
               PROVE  tagRows[i].name # TagTarget(changes'[s]).name
    BY DEF TagNameInv
  <2> QED
    BY <1>2 DEF TagNameInv
<1> QED
  BY <1>1, <1>3, <1>4, <1>5, <1>6, <1>7

\* A change that only goes to another phase, and to no earlier one.
LEMMA TagPhaseChange ==
  ASSUME TagServerInv, tagRows' = tagRows, NEW r \in TagPage!Slots,
         NEW phase \in {"sent", "flushed", "answered", "committed", "refused"},
         changes[r].phase \notin {"unused", "done"},
         changes' = [changes EXCEPT ![r] = [changes[r] EXCEPT !.phase = phase]],
         phase = "sent" => changes[r].phase = "delayed",
         phase = "flushed" => changes[r].phase \in {"loaded", "reread"},
         phase = "answered" => changes[r].phase = "flushed",
         phase = "flushed" => \A s \in TagPage!Slots \ {r} :
           TagColumns(changes[r]) # {} /\ TagWrites(changes[s]) =>
             changes[r].id # changes[s].id /\ TagNames(changes[r]) \cap TagNames(changes[s]) = {},
         phase = "flushed" /\ (changes[r].before.state = "absent" \/ "name" \in TagColumns(changes[r])) =>
           \A i \in TagPage!Ids : i # changes[r].id /\ tagRows[i].state # "absent" =>
             tagRows[i].name # TagTarget(changes[r]).name
  PROVE  TagServerInv'
<1> DEFINE q == [changes[r] EXCEPT !.phase = phase]
<1>1. /\ changes[r] \in TagPage!Request /\ TagChangeOk(changes[r], tagRows)
      /\ TagFresh(changes[r]) => /\ tagRows[changes[r].id].state = "absent"
                                 /\ \A s \in TagPage!Slots \ {r} : changes[s].id # changes[r].id
      /\ \A s \in TagPage!Slots \ {r} : TagFresh(changes[s]) => changes[r].id # changes[s].id
  BY DEF TagServerInv, TagTypeInv, TagChangeInv, TagFreshInv
<1>2. /\ q \in TagPage!Request /\ q.phase = phase /\ q.kind = changes[r].kind /\ q.id = changes[r].id
      /\ q.name = changes[r].name /\ q.color = changes[r].color
      /\ q.before = changes[r].before /\ q.again = changes[r].again
  BY <1>1 DEF TagPage!Request
<1> HIDE DEF q
<1>3. TagTarget(q) = TagTarget(changes[r]) /\ TagColumns(q) = TagColumns(changes[r])
      /\ TagNames(q) = TagNames(changes[r])
  <2>1. TagTarget(q) = TagTarget(changes[r])
    BY <1>2 DEF TagTarget
  <2> QED
    BY <1>2, <2>1 DEF TagColumns, TagNames
<1>4. TagChangeOk(q, tagRows)
  BY <1>1, <1>2 DEF TagChangeOk, TagReading
<1>5. TagFresh(q) => TagFresh(changes[r])
  BY <1>2 DEF TagFresh, TagReading
<1>6. TagWrites(q) => TagWrites(changes[r]) \/ (phase = "flushed" /\ TagColumns(changes[r]) # {})
  BY <1>2, <1>3 DEF TagWrites
<1>7. TagNaming(q) =>
        \/ TagNaming(changes[r])
        \/ phase = "flushed" /\ (changes[r].before.state = "absent" \/ "name" \in TagColumns(changes[r]))
  BY <1>2, <1>3 DEF TagNaming
<1>8. TagFreeInv'
  <2>1. changes'[r] = q /\ \A s \in TagPage!Slots \ {r} : changes'[s] = changes[s]
    BY <1>2 DEF TagServerInv, TagTypeInv, q
  <2>2. TagWaiting' \subseteq TagWaiting
    BY <1>2, <2>1 DEF TagWaiting
  <2>3. TagFree \subseteq TagFree'
    BY <1>2, <2>1 DEF TagFree
  <2> QED
    BY <2>2, <2>3, TagFreeKept DEF TagServerInv
<1>9. \A s \in TagPage!Slots \ {r} : TagWrites(changes[r]) /\ TagWrites(changes[s]) =>
        changes[r].id # changes[s].id /\ TagNames(changes[r]) \cap TagNames(changes[s]) = {}
  BY DEF TagServerInv, TagHoldInv
<1>10. TagNaming(changes[r]) => \A i \in TagPage!Ids : i # changes[r].id /\ tagRows[i].state # "absent" =>
                                  tagRows[i].name # TagTarget(changes[r]).name
  BY DEF TagServerInv, TagNameInv
<1>11. changes' = [changes EXCEPT ![r] = q]
  BY DEF q
<1>12. TagFresh(q) => /\ tagRows[q.id].state = "absent"
                      /\ \A s \in TagPage!Slots \ {r} : changes[s].id # q.id
  BY <1>1, <1>2, <1>5
<1>13. \A s \in TagPage!Slots \ {r} : TagFresh(changes[s]) => q.id # changes[s].id
  BY <1>1, <1>2
<1>14. \A s \in TagPage!Slots \ {r} : TagWrites(q) /\ TagWrites(changes[s]) =>
         q.id # changes[s].id /\ TagNames(q) \cap TagNames(changes[s]) = {}
  BY <1>2, <1>3, <1>6, <1>9
<1>15. TagNaming(q) => \A i \in TagPage!Ids : i # q.id /\ tagRows[i].state # "absent" =>
                         tagRows[i].name # TagTarget(q).name
  BY <1>2, <1>3, <1>7, <1>10
<1> QED
  BY <1>2, <1>4, <1>8, <1>11, <1>12, <1>13, <1>14, <1>15, TagOneChange

\* A change that is done lets go of its row.
LEMMA TagDone ==
  ASSUME NEW q \in TagPage!Request, q.kind # "unused", NEW rows
  PROVE  LET d == [TagPage!Unused EXCEPT !.kind = q.kind, !.phase = "done"]
         IN  /\ d \in TagPage!Request /\ d.phase = "done" /\ d.kind = q.kind /\ d.id = 0 /\ TagChangeOk(d, rows)
             /\ ~TagReading(d) /\ ~TagFresh(d) /\ ~TagWrites(d) /\ ~TagNaming(d)
<1> DEFINE d == [TagPage!Unused EXCEPT !.kind = q.kind, !.phase = "done"]
<1>1. d \in TagPage!Request /\ d.phase = "done" /\ d.kind = q.kind /\ d.id = 0 /\ d.before = TagPage!NoRow
  BY TagRowFacts DEF TagPage!Request, TagPage!Unused
<1> HIDE DEF d
<1>2. ~TagReading(d)
  BY <1>1 DEF TagReading
<1>3. TagChangeOk(d, rows)
  BY <1>1, <1>2, TagRowFacts DEF TagChangeOk
<1>4. ~TagFresh(d) /\ ~TagWrites(d) /\ ~TagNaming(d)
  BY <1>1, <1>2 DEF TagFresh, TagWrites, TagNaming
<1> QED
  BY <1>1, <1>2, <1>3, <1>4 DEF d

LEMMA TagDoneChange ==
  ASSUME TagServerInv, tagRows' = tagRows, NEW r \in TagPage!Slots, changes[r].phase # "unused",
         changes' = [changes EXCEPT ![r] = [TagPage!Unused EXCEPT !.kind = changes[r].kind, !.phase = "done"]]
  PROVE  TagServerInv'
<1> DEFINE d == [TagPage!Unused EXCEPT !.kind = changes[r].kind, !.phase = "done"]
<1>1. changes[r] \in TagPage!Request /\ changes[r].kind # "unused"
  BY DEF TagServerInv, TagTypeInv, TagChangeInv, TagChangeOk
<1>2. /\ d \in TagPage!Request /\ d.phase = "done" /\ d.kind = changes[r].kind /\ d.id = 0 /\ TagChangeOk(d, tagRows)
      /\ ~TagReading(d) /\ ~TagFresh(d) /\ ~TagWrites(d) /\ ~TagNaming(d)
  BY <1>1, TagDone
<1>3. changes' = [changes EXCEPT ![r] = d]
  OBVIOUS
<1> HIDE DEF d
<1>4. changes'[r] = d /\ \A s \in TagPage!Slots \ {r} : changes'[s] = changes[s]
  BY <1>3 DEF TagServerInv, TagTypeInv
<1>5. \A s \in TagPage!Slots \ {r} : TagFresh(changes[s]) => d.id # changes[s].id
  BY <1>2 DEF TagServerInv, TagChangeInv, TagChangeOk, TagFresh, TagPage!Ids
<1>6. TagWaiting' \subseteq TagWaiting
  BY <1>2, <1>4 DEF TagWaiting
<1>7. TagFree \subseteq TagFree'
  <2>1. \A i \in TagPage!Ids : i # 0
    BY DEF TagPage!Ids
  <2> QED
    BY <1>2, <1>4, <2>1 DEF TagFree
<1>8. TagFreeInv'
  BY <1>6, <1>7, TagFreeKept DEF TagServerInv
<1> QED
  BY <1>2, <1>3, <1>5, <1>8, TagOneChange

-----------------------------------------------------------------------------
LEMMA TagStart == TagPage!Init => TagServerInv
<1> SUFFICES ASSUME TagPage!Init PROVE TagServerInv
  OBVIOUS
<1>1. PICK present \in 1..(MaxTags - MaxChanges) :
        tagRows \in {tags \in [TagPage!Ids -> {TagPage!NoRow} \cup [name : Names, color : {DefaultColor},
                                                                      state : {"live", "deleted"}]] :
                       /\ \A i \in TagPage!Ids : tags[i].state # "absent" <=> i <= present
                       /\ TagPage!OneEach(tags)}
  BY DEF TagPage!Init
<1>2. /\ changes = [r \in TagPage!Slots |-> TagPage!Unused]
      /\ \A r \in TagPage!Slots : changes[r] = TagPage!Unused
  BY DEF TagPage!Init
<1>3. /\ TagPage!Unused.phase = "unused" /\ TagPage!Unused.kind = "unused" /\ TagPage!Unused.id = 0
      /\ TagPage!Unused.before = TagPage!NoRow
  BY DEF TagPage!Unused
<1>4. \A i \in TagPage!Ids : tagRows[i] \in TagPage!Row
  BY <1>1, TagRowFacts DEF TagPage!Row
<1>5. TagTypeInv
  BY <1>1, <1>2, <1>4, TagRowFacts DEF TagTypeInv
<1>6. TagRowInv
  BY <1>1 DEF TagRowInv
<1>7. TagChangeInv
  BY <1>2, <1>3 DEF TagChangeInv, TagChangeOk, TagReading
<1>8. TagFreshInv /\ TagHoldInv /\ TagNameInv
  BY <1>2, <1>3 DEF TagFreshInv, TagHoldInv, TagNameInv, TagFresh, TagReading, TagWrites, TagNaming
<1>9. TagFreeInv
  <2>1. \A i \in TagPage!Ids : i # 0
    BY DEF TagPage!Ids
  <2>2. MaxTags \in Nat /\ MaxChanges \in Nat /\ present \in Nat /\ present + 1 \in Int /\ present + MaxChanges <= MaxTags
    BY <1>1, ClientPagesAssumption
  <2>3. \A i \in (present + 1)..MaxTags : i \in TagPage!Ids /\ tagRows[i].state = "absent"
    BY <1>1, <2>2 DEF TagPage!Ids
  <2>4. (present + 1)..MaxTags \in SUBSET TagFree
    BY <1>2, <1>3, <2>1, <2>3 DEF TagFree
  <2>5. TagFree \in SUBSET TagPage!Ids /\ TagWaiting \in SUBSET TagPage!Slots
    BY DEF TagFree, TagWaiting
  <2>6. Cardinality((present + 1)..MaxTags) >= MaxChanges
    <3>1. Cardinality((present + 1)..MaxTags) = IF present + 1 > MaxTags THEN 0 ELSE MaxTags - (present + 1) + 1
      BY <2>2, FS_Interval
    <3> QED
      BY <2>2, <3>1
  <2>7. Cardinality((present + 1)..MaxTags) <= Cardinality(TagFree) /\ Cardinality(TagWaiting) <= MaxChanges
    BY <2>4, <2>5, TagFinite, FS_Subset
  <2>8. Cardinality(TagWaiting) <= Cardinality(TagFree)
    <3>1. /\ Cardinality(TagFree) \in Nat /\ Cardinality((present + 1)..MaxTags) \in Nat
          /\ Cardinality(TagWaiting) \in Nat
      BY <2>4, <2>5, TagFinite
    <3> QED
      BY <2>2, <2>6, <2>7, <3>1
  <2> QED
    BY <2>8 DEF TagFreeInv
<1>10. OneTagPerName
  BY <1>1 DEF OneTagPerName, TagPage!OneTagPerName
<1> QED
  BY <1>5, <1>6, <1>7, <1>8, <1>9, <1>10 DEF TagServerInv

\* A change of the user takes the first slot not used.
LEMMA TagPutFacts ==
  ASSUME TagServerInv, NEW kind \in {"create", "rename", "color", "delete"}, NEW id \in TagPage!Ids \cup {0},
         NEW name \in Names, NEW color \in Colors, NEW phase \in {"delayed", "sent"},
         TagPage!Put(kind, id, name, color, phase)
  PROVE  \E r \in TagPage!Slots, q \in TagPage!Request :
           /\ changes[r] = TagPage!Unused /\ \A s \in 1..(r - 1) : changes[s] # TagPage!Unused
           /\ changes' = [changes EXCEPT ![r] = q]
           /\ q.kind = kind /\ q.id = id /\ q.phase = phase /\ q.before = TagPage!NoRow /\ q.name = name
<1>1. PICK r \in TagPage!Slots :
        /\ changes[r] = TagPage!Unused /\ \A s \in 1..(r - 1) : changes[s] # TagPage!Unused
        /\ changes' = [changes EXCEPT ![r] =
             [TagPage!Unused EXCEPT !.kind = kind, !.id = id, !.name = name, !.color = color, !.phase = phase]]
  BY DEF TagPage!Put
<1> DEFINE q == [TagPage!Unused EXCEPT !.kind = kind, !.id = id, !.name = name, !.color = color, !.phase = phase]
<1>2. /\ q \in TagPage!Request /\ q.kind = kind /\ q.id = id /\ q.phase = phase /\ q.before = TagPage!NoRow
      /\ q.name = name
  BY TagRowFacts DEF TagPage!Request, TagPage!Unused
<1>3. changes' = [changes EXCEPT ![r] = q]
  BY <1>1
<1> HIDE DEF q
<1> QED
  BY <1>1, <1>2, <1>3

LEMMA TagPutStep ==
  ASSUME TagServerInv, tagRows' = tagRows,
         NEW kind \in {"create", "rename", "color", "delete"}, NEW id \in TagPage!Ids \cup {0},
         NEW name \in Names, NEW color \in Colors, NEW phase \in {"delayed", "sent"},
         TagPage!Put(kind, id, name, color, phase),
         kind = "create" => id = 0,
         kind # "create" => id \in TagPage!Ids /\ tagRows[id].state # "absent"
  PROVE  TagServerInv'
<1>1. PICK r \in TagPage!Slots, q \in TagPage!Request :
        /\ changes[r] = TagPage!Unused
        /\ changes' = [changes EXCEPT ![r] = q]
        /\ q.kind = kind /\ q.id = id /\ q.phase = phase /\ q.before = TagPage!NoRow
  BY TagPutFacts
<1>2. changes'[r] = q /\ \A s \in TagPage!Slots \ {r} : changes'[s] = changes[s]
  BY <1>1 DEF TagServerInv, TagTypeInv
<1>3. ~TagReading(q) /\ ~TagFresh(q) /\ ~TagWrites(q) /\ ~TagNaming(q)
  BY <1>1 DEF TagFresh, TagReading, TagWrites, TagNaming
<1>4. TagChangeOk(q, tagRows)
  BY <1>1, <1>3 DEF TagChangeOk
<1>5. \A i \in TagPage!Ids : i # 0
  BY DEF TagPage!Ids
<1>6. \A s \in TagPage!Slots \ {r} : TagFresh(changes[s]) => q.id # changes[s].id
  BY <1>1, <1>5 DEF TagServerInv, TagFreshInv, TagChangeInv, TagChangeOk, TagFresh
<1>7. TagWaiting' \subseteq TagWaiting
  BY <1>1, <1>2 DEF TagWaiting, TagPage!Unused
<1>8. TagFree \subseteq TagFree'
  BY <1>1, <1>2, <1>5 DEF TagFree
<1>9. TagFreeInv'
  BY <1>7, <1>8, TagFreeKept DEF TagServerInv
<1> QED
  BY <1>1, <1>3, <1>4, <1>6, <1>9, TagOneChange

\* A change that reads a row that is there.
LEMMA TagReadStep ==
  ASSUME TagServerInv, tagRows' = tagRows, NEW r \in TagPage!Slots, changes[r].phase = "sent",
         NEW i \in TagPage!Ids, tagRows[i].state # "absent",
         changes' = [changes EXCEPT ![r] = [changes[r] EXCEPT !.id = i, !.before = tagRows[i], !.phase = "loaded"]]
  PROVE  TagServerInv'
<1> DEFINE q == [changes[r] EXCEPT !.id = i, !.before = tagRows[i], !.phase = "loaded"]
<1>1. changes[r] \in TagPage!Request /\ tagRows[i] \in TagPage!Row /\ TagChangeOk(changes[r], tagRows)
  BY DEF TagServerInv, TagTypeInv, TagChangeInv
<1>2. q \in TagPage!Request /\ q.phase = "loaded" /\ q.kind = changes[r].kind /\ q.id = i /\ q.before = tagRows[i]
  BY <1>1 DEF TagPage!Request
<1>3. changes' = [changes EXCEPT ![r] = q]
  OBVIOUS
<1> HIDE DEF q
<1>4. changes'[r] = q /\ \A s \in TagPage!Slots \ {r} : changes'[s] = changes[s]
  BY <1>3 DEF TagServerInv, TagTypeInv
<1>5. ~TagFresh(q) /\ ~TagWrites(q) /\ ~TagNaming(q)
  BY <1>2 DEF TagFresh, TagWrites, TagNaming
<1>6. TagChangeOk(q, tagRows)
  BY <1>1, <1>2 DEF TagChangeOk
<1>7. \A s \in TagPage!Slots \ {r} : TagFresh(changes[s]) => q.id # changes[s].id
  BY <1>2 DEF TagServerInv, TagFreshInv
<1>8. TagWaiting' \subseteq TagWaiting
  BY <1>2, <1>4 DEF TagWaiting
<1>9. TagFree \subseteq TagFree'
  BY <1>2, <1>4 DEF TagFree
<1>10. TagFreeInv'
  BY <1>8, <1>9, TagFreeKept DEF TagServerInv
<1> QED
  BY <1>2, <1>3, <1>5, <1>6, <1>7, <1>10, TagOneChange

\* A change that finds no tag of its name gets a row of its own.
LEMMA TagNewStep ==
  ASSUME TagServerInv, tagRows' = tagRows, NEW r \in TagPage!Slots, changes[r].phase = "sent",
         changes[r].kind = "create",
         changes' = [changes EXCEPT ![r] = [changes[r] EXCEPT !.id = TagPage!Min(TagFree), !.phase = "loaded"]]
  PROVE  TagServerInv'
<1> DEFINE i == TagPage!Min(TagFree)
           q == [changes[r] EXCEPT !.id = i, !.phase = "loaded"]
<1>1. changes[r] \in TagPage!Request /\ TagChangeOk(changes[r], tagRows) /\ r \in TagWaiting
  BY DEF TagServerInv, TagTypeInv, TagChangeInv, TagWaiting
<1>2. i \in TagFree
  BY <1>1, TagFreeTaken DEF TagServerInv
<1>3. i \in TagPage!Ids /\ tagRows[i].state = "absent" /\ \A s \in TagPage!Slots : changes[s].id # i
  BY <1>2 DEF TagFree
<1> HIDE DEF i
<1>4. /\ q \in TagPage!Request /\ q.phase = "loaded" /\ q.kind = "create" /\ q.id = i
      /\ q.before = changes[r].before /\ changes[r].before = TagPage!NoRow
  BY <1>1, <1>3 DEF TagPage!Request, TagChangeOk
<1>5. changes' = [changes EXCEPT ![r] = q]
  BY DEF i
<1> HIDE DEF q
<1>6. changes'[r] = q /\ \A s \in TagPage!Slots \ {r} : changes'[s] = changes[s]
  BY <1>5 DEF TagServerInv, TagTypeInv
<1>7. ~TagWrites(q) /\ ~TagNaming(q)
  BY <1>4 DEF TagWrites, TagNaming
<1>8. TagChangeOk(q, tagRows)
  BY <1>1, <1>3, <1>4, TagRowFacts DEF TagChangeOk
<1>9. TagWaiting' \subseteq TagWaiting \ {r}
  BY <1>4, <1>6 DEF TagWaiting
<1>10. TagFree \ {i} \subseteq TagFree'
  <2> SUFFICES ASSUME NEW j \in TagFree, j # i PROVE j \in TagFree'
    OBVIOUS
  <2>1. \A s \in TagPage!Slots : changes'[s].id # j
    BY <1>4, <1>6 DEF TagFree
  <2> QED
    BY <2>1 DEF TagFree
<1>11. TagFreeInv'
  BY <1>1, <1>9, <1>10, TagFreeTaken DEF TagServerInv, i
<1> QED
  BY <1>3, <1>4, <1>5, <1>7, <1>8, <1>11, TagOneChange

LEMMA TagNamedRows ==
  ASSUME NEW name, NEW i \in TagPage!Named(name)
  PROVE  i \in TagPage!Ids /\ tagRows[i].state # "absent" /\ tagRows[i].name = name
  BY DEF TagPage!Named

LEMMA TagLoadStep ==
  ASSUME TagServerInv, NEW r \in TagPage!Slots, TagPage!Load(r)
  PROVE  TagServerInv'
<1>1. /\ changes[r].phase = "sent" /\ tagRows' = tagRows
      /\ changes[r] \in TagPage!Request /\ TagChangeOk(changes[r], tagRows)
  BY DEF TagPage!Load, TagServerInv, TagTypeInv, TagChangeInv
<1>2. ASSUME NEW i \in TagPage!Named(changes[r].name),
             changes' = [changes EXCEPT ![r].id = i, ![r].before = tagRows[i], ![r].phase = "loaded"]
      PROVE  TagServerInv'
  <2>1. i \in TagPage!Ids /\ tagRows[i].state # "absent"
    BY <1>2, TagNamedRows
  <2>2. changes' = [changes EXCEPT ![r] = [changes[r] EXCEPT !.id = i, !.before = tagRows[i], !.phase = "loaded"]]
    BY <1>2 DEF TagServerInv, TagTypeInv
  <2> QED
    BY <1>1, <2>1, <2>2, TagReadStep
<1>3. ASSUME changes[r].kind = "create",
             changes' = [changes EXCEPT ![r].id = TagPage!Min(TagFree), ![r].phase = "loaded"]
      PROVE  TagServerInv'
  <2>1. changes' = [changes EXCEPT ![r] = [changes[r] EXCEPT !.id = TagPage!Min(TagFree), !.phase = "loaded"]]
    BY <1>3 DEF TagServerInv, TagTypeInv
  <2> QED
    BY <1>1, <1>3, <2>1, TagNewStep
<1>4. ASSUME TagPage!Move(r, "refused")
      PROVE  TagServerInv'
  <2>1. changes' = [changes EXCEPT ![r] = [changes[r] EXCEPT !.phase = "refused"]]
    BY <1>4 DEF TagPage!Move
  <2> QED
    BY <1>1, <2>1, TagPhaseChange
<1>5. ASSUME changes[r].kind # "create",
             changes' = [changes EXCEPT ![r].before = tagRows[changes[r].id], ![r].phase = "loaded"]
      PROVE  TagServerInv'
  <2>1. changes[r].id \in TagPage!Ids /\ tagRows[changes[r].id].state # "absent"
    BY <1>1, <1>5 DEF TagPage!Request, TagChangeOk
  <2>2. changes' = [changes EXCEPT ![r] = [changes[r] EXCEPT !.id = changes[r].id, !.before = tagRows[changes[r].id],
                                                              !.phase = "loaded"]]
    BY <1>1, <1>5 DEF TagServerInv, TagTypeInv, TagPage!Request
  <2> QED
    BY <1>1, <2>1, <2>2, TagReadStep
<1> QED
  BY <1>2, <1>3, <1>4, <1>5 DEF TagPage!Load, TagFree

\* The second read of an edit changes nothing it has read first.
LEMMA TagRereadStep ==
  ASSUME TagServerInv, NEW r \in TagPage!Slots, TagPage!Reread(r)
  PROVE  TagServerInv'
<1> DEFINE q == [changes[r] EXCEPT !.again = tagRows[changes[r].id], !.phase = "reread"]
<1>1. /\ changes[r].phase = "loaded" /\ tagRows' = tagRows
      /\ changes[r] \in TagPage!Request /\ TagChangeOk(changes[r], tagRows)
      /\ TagFresh(changes[r]) => /\ tagRows[changes[r].id].state = "absent"
                                 /\ \A s \in TagPage!Slots \ {r} : changes[s].id # changes[r].id
      /\ \A s \in TagPage!Slots \ {r} : TagFresh(changes[s]) => changes[r].id # changes[s].id
  BY DEF TagPage!Reread, TagServerInv, TagTypeInv, TagChangeInv, TagFreshInv
<1>2. changes[r].id \in TagPage!Ids /\ tagRows[changes[r].id] \in TagPage!Row
  BY <1>1 DEF TagChangeOk, TagReading, TagServerInv, TagTypeInv
<1>3. /\ q \in TagPage!Request /\ q.phase = "reread" /\ q.kind = changes[r].kind /\ q.id = changes[r].id
      /\ q.before = changes[r].before
  BY <1>1, <1>2 DEF TagPage!Request
<1>4. changes' = [changes EXCEPT ![r] = q]
  BY <1>1 DEF TagPage!Reread, TagServerInv, TagTypeInv
<1> HIDE DEF q
<1>5. changes'[r] = q /\ \A s \in TagPage!Slots \ {r} : changes'[s] = changes[s]
  BY <1>4 DEF TagServerInv, TagTypeInv
<1>6. ~TagWrites(q) /\ ~TagNaming(q) /\ (TagFresh(q) => TagFresh(changes[r])) /\ TagChangeOk(q, tagRows)
  BY <1>1, <1>3 DEF TagWrites, TagNaming, TagFresh, TagReading, TagChangeOk
<1>7. TagWaiting' \subseteq TagWaiting
  BY <1>3, <1>5 DEF TagWaiting
<1>8. TagFree \subseteq TagFree'
  BY <1>1, <1>3, <1>5 DEF TagFree
<1>9. TagFreeInv'
  BY <1>7, <1>8, TagFreeKept DEF TagServerInv
<1> QED
  BY <1>1, <1>3, <1>4, <1>6, <1>9, TagOneChange

\* A write waits for rows and names written by others, and fails for a name taken.
LEMMA TagFlushStep ==
  ASSUME TagServerInv, NEW r \in TagPage!Slots, TagPage!Flush(r)
  PROVE  TagServerInv'
<1>1. /\ changes[r].phase \in {"loaded", "reread"} /\ tagRows' = tagRows
      /\ TagPage!Move(r, IF TagPage!Taken(r) THEN "refused" ELSE "flushed")
  BY DEF TagPage!Flush
<1>2. CASE TagPage!Taken(r)
  <2>1. changes' = [changes EXCEPT ![r] = [changes[r] EXCEPT !.phase = "refused"]]
    BY <1>1, <1>2 DEF TagPage!Move
  <2> QED
    BY <1>1, <2>1, TagPhaseChange
<1>3. CASE ~TagPage!Taken(r)
  <2>1. changes' = [changes EXCEPT ![r] = [changes[r] EXCEPT !.phase = "flushed"]]
    BY <1>1, <1>3 DEF TagPage!Move
  <2>2. \A s \in TagPage!Slots \ {r} :
          TagColumns(changes[r]) # {} /\ TagWrites(changes[s]) =>
            changes[r].id # changes[s].id /\ TagNames(changes[r]) \cap TagNames(changes[s]) = {}
    <3> SUFFICES ASSUME NEW s \in TagPage!Slots \ {r}, TagColumns(changes[r]) # {}, TagWrites(changes[s])
                 PROVE  changes[r].id # changes[s].id /\ TagNames(changes[r]) \cap TagNames(changes[s]) = {}
      OBVIOUS
    <3>1. TagPage!Columns(r) # {} /\ TagPage!Holds(s)
      BY TagOperators
    <3>2. changes[s].id # changes[r].id /\ TagPage!NamesOf(s) \cap TagPage!NamesOf(r) = {}
      BY <3>1 DEF TagPage!Flush
    <3>3. TagPage!NamesOf(s) = TagNames(changes[s]) /\ TagPage!NamesOf(r) = TagNames(changes[r])
      BY TagOperators
    <3> QED
      BY <3>2, <3>3
  <2>3. changes[r].before.state = "absent" \/ "name" \in TagColumns(changes[r]) =>
          \A i \in TagPage!Ids : i # changes[r].id /\ tagRows[i].state # "absent" =>
            tagRows[i].name # TagTarget(changes[r]).name
    BY <1>3, TagOperators DEF TagPage!Taken, TagPage!Named
  <2> QED
    BY <1>1, <2>1, <2>2, <2>3, TagPhaseChange
<1> QED
  BY <1>2, <1>3

\* What is committed: the name of the row is another only if it was checked.
LEMMA TagCommitted ==
  ASSUME TagServerInv, NEW r \in TagPage!Slots, TagPage!Commit(r),
         NEW q, q = changes[r], NEW row, row = tagRows[q.id], NEW new, new = TagWritten(q, row)
  PROVE  /\ q \in TagPage!Request /\ q.kind # "unused" /\ q.id \in TagPage!Ids /\ TagReading(q)
         /\ q.phase \in {"flushed", "answered"}
         /\ row \in TagPage!Row /\ new \in TagPage!Row /\ new.state # "absent"
         /\ (new.name = TagTarget(q).name /\ TagNaming(q)) \/ (row.state # "absent" /\ new.name = row.name)
         /\ row.state = "absent" => TagNaming(q)
         /\ TagNaming(q) => TagWrites(q) /\ TagTarget(q).name \in TagNames(q)
         /\ tagRows' = [tagRows EXCEPT ![q.id] = new]
         /\ TagPage!Move(r, IF q.phase = "flushed" THEN "committed" ELSE "done")
<1>1. /\ q \in TagPage!Request /\ TagChangeOk(q, tagRows) /\ q.phase \in {"flushed", "answered"}
      /\ TagPage!Move(r, IF q.phase = "flushed" THEN "committed" ELSE "done")
      /\ q.name \in Names /\ q.before \in TagPage!Row
  BY DEF TagPage!Commit, TagServerInv, TagTypeInv, TagChangeInv, TagPage!Request
<1>2. TagReading(q) /\ q.kind # "unused" /\ q.id \in TagPage!Ids
  BY <1>1 DEF TagChangeOk, TagReading
<1>3. row \in TagPage!Row
  BY <1>2 DEF TagServerInv, TagTypeInv
<1>4. /\ new \in TagPage!Row
      /\ \A c \in {"name", "color", "state"} : new[c] = IF c \in TagColumns(q) THEN TagTarget(q)[c] ELSE row[c]
  BY <1>1, <1>2, <1>3, TagWrittenRow
<1>5. tagRows' = [tagRows EXCEPT ![q.id] = new]
  <2>1. tagRows' = [tagRows EXCEPT ![q.id] =
          [c \in DOMAIN row |-> IF c \in TagPage!Columns(r) THEN TagPage!Target(r)[c] ELSE row[c]]]
    BY DEF TagPage!Commit
  <2> QED
    BY <2>1, TagOperators DEF TagWritten
<1>6. /\ TagNaming(q) <=> q.before.state = "absent" \/ "name" \in TagColumns(q)
      /\ TagWrites(q) <=> TagColumns(q) # {}
      /\ TagTarget(q).name \in TagNames(q)
  BY <1>1 DEF TagNaming, TagWrites, TagNames
<1>7. CASE q.before.state = "absent"
  <2>1. q.kind = "create" /\ row.state = "absent" /\ row = TagPage!NoRow /\ q.before = TagPage!NoRow
    <3>1. q.kind = "create" /\ q.before = TagPage!NoRow
      BY <1>1, <1>2, <1>7 DEF TagChangeOk
    <3>2. row.state = "absent"
      BY <1>2, <1>7 DEF TagServerInv, TagFreshInv, TagFresh
    <3> QED
      BY <1>2, <3>1, <3>2 DEF TagServerInv, TagRowInv
  <2>2. TagTarget(q).name = q.name /\ TagTarget(q).state = "live"
    BY <1>1, <1>2, <1>7, <2>1, TagTargetRow
  <2>3. "state" \in TagColumns(q) /\ ("name" \notin TagColumns(q) => TagTarget(q).name = q.before.name)
    BY <1>7, <2>1, <2>2 DEF TagColumns
  <2>4. new.state # "absent" /\ new.name = TagTarget(q).name
    BY <1>4, <2>1, <2>2, <2>3
  <2>5. TagNaming(q) /\ TagWrites(q)
    BY <1>6, <1>7, <2>3
  <2> QED
    BY <1>1, <1>2, <1>3, <1>4, <1>5, <1>6, <2>4, <2>5
<1>8. CASE q.before.state # "absent"
  <2>1. row.state # "absent"
    BY <1>1, <1>2, <1>8 DEF TagChangeOk
  <2>2. TagTarget(q).state # "absent"
    <3>1. q.kind \in {"create", "rename", "color", "delete"}
      BY <1>1, <1>2 DEF TagPage!Request
    <3>2. TagTarget(q).state \in {"live", "deleted", q.before.state}
      BY <1>1, <1>2, <3>1, TagTargetRow
    <3> QED
      BY <1>8, <3>2
  <2>3. new.state # "absent"
    BY <1>4, <2>1, <2>2
  <2>4. (new.name = TagTarget(q).name /\ "name" \in TagColumns(q)) \/ new.name = row.name
    BY <1>4
  <2>5. TagNaming(q) <=> "name" \in TagColumns(q)
    BY <1>6, <1>8
  <2>6. TagNaming(q) => TagWrites(q)
    BY <1>6, <2>5
  <2> QED
    BY <1>1, <1>2, <1>3, <1>4, <1>5, <1>6, <2>1, <2>3, <2>4, <2>5, <2>6
<1> QED
  BY <1>7, <1>8

\* A commit gives a row the name that was kept free for it.
LEMMA TagCommitStep ==
  ASSUME TagServerInv, NEW r \in TagPage!Slots, TagPage!Commit(r)
  PROVE  /\ TagServerInv'
         /\ \A i \in TagPage!Ids : tagRows[i].state # "absent" => tagRows'[i].state # "absent"
<1> DEFINE q == changes[r]
           row == tagRows[q.id]
           new == TagWritten(q, row)
           p == IF q.phase = "flushed" THEN [q EXCEPT !.phase = "committed"]
                ELSE [TagPage!Unused EXCEPT !.kind = q.kind, !.phase = "done"]
<1>1. /\ q \in TagPage!Request /\ q.kind # "unused" /\ q.id \in TagPage!Ids /\ TagReading(q)
      /\ q.phase \in {"flushed", "answered"}
      /\ row \in TagPage!Row /\ new \in TagPage!Row /\ new.state # "absent"
      /\ (new.name = TagTarget(q).name /\ TagNaming(q)) \/ (row.state # "absent" /\ new.name = row.name)
      /\ row.state = "absent" => TagNaming(q)
      /\ TagNaming(q) => TagWrites(q) /\ TagTarget(q).name \in TagNames(q)
      /\ tagRows' = [tagRows EXCEPT ![q.id] = new]
      /\ TagPage!Move(r, IF q.phase = "flushed" THEN "committed" ELSE "done")
  BY TagCommitted
<1>2. /\ changes[r] = q /\ tagRows[q.id] = row
      /\ tagRows \in [TagPage!Ids -> TagPage!Row] /\ changes \in [TagPage!Slots -> TagPage!Request]
      /\ TagChangeOk(q, tagRows)
  BY DEF TagServerInv, TagTypeInv, TagChangeInv
<1>3. changes' = [changes EXCEPT ![r] = p]
  <2>1. CASE q.phase = "flushed"
    BY <1>1, <2>1 DEF TagPage!Move
  <2>2. CASE q.phase = "answered"
    BY <1>1, <2>2 DEF TagPage!Move
  <2> QED
    BY <1>1, <2>1, <2>2
<1> HIDE DEF row, new
<1>4. /\ p \in TagPage!Request /\ p.phase \in {"committed", "done"} /\ p.kind = q.kind /\ p.id \in {q.id, 0}
      /\ p.phase = "committed" => p.id = q.id /\ p.before = q.before
      /\ p.phase = "done" => TagChangeOk(p, tagRows')
  <2>1. CASE q.phase = "flushed"
    BY <1>1, <2>1 DEF TagPage!Request
  <2>2. CASE q.phase = "answered"
    <3>1. p = [TagPage!Unused EXCEPT !.kind = q.kind, !.phase = "done"]
      BY <2>2
    <3> HIDE DEF p, q
    <3>2. p \in TagPage!Request /\ p.phase = "done" /\ p.kind = q.kind /\ p.id = 0 /\ TagChangeOk(p, tagRows')
      BY <1>1, <3>1, TagDone
    <3> QED
      BY <3>2
  <2> QED
    BY <1>1, <2>1, <2>2
<1> HIDE DEF p, q
<1>5. \A i \in TagPage!Ids : tagRows'[i] = IF i = q.id THEN new ELSE tagRows[i]
  BY <1>1, <1>2
<1>6. \A s \in TagPage!Slots : changes'[s] = IF s = r THEN p ELSE changes[s]
  BY <1>2, <1>3
<1>7. ~TagReading(p) /\ ~TagFresh(p) /\ ~TagWrites(p) /\ ~TagNaming(p)
  BY <1>4 DEF TagReading, TagFresh, TagWrites, TagNaming
<1>8. \A i \in TagPage!Ids : tagRows[i].state # "absent" => tagRows'[i].state # "absent"
  BY <1>1, <1>5
<1>9. TagTypeInv'
  BY <1>1, <1>2, <1>3, <1>4 DEF TagTypeInv
<1>10. TagRowInv'
  BY <1>1, <1>5 DEF TagServerInv, TagRowInv
<1>11. TagChangeInv'
  <2>1. ASSUME NEW s \in TagPage!Slots \ {r} PROVE TagChangeOk(changes[s], tagRows')
    BY <1>8 DEF TagServerInv, TagChangeInv, TagChangeOk
  <2>2. TagChangeOk(p, tagRows')
    <3>1. CASE p.phase = "done"
      BY <1>4, <3>1
    <3>2. CASE p.phase = "committed"
      BY <1>1, <1>2, <1>4, <1>5, <1>7, <3>2 DEF TagChangeOk
    <3> QED
      BY <1>4, <3>1, <3>2
  <2> QED
    BY <1>6, <2>1, <2>2 DEF TagChangeInv
<1>12. TagFreshInv'
  <2> SUFFICES ASSUME NEW s \in TagPage!Slots, TagFresh(changes'[s])
               PROVE  /\ tagRows'[changes'[s].id].state = "absent"
                      /\ \A t \in TagPage!Slots \ {s} : changes'[t].id # changes'[s].id
    BY DEF TagFreshInv
  <2>1. s # r /\ changes'[s] = changes[s] /\ TagFresh(changes[s])
    BY <1>6, <1>7
  <2>2. /\ tagRows[changes[s].id].state = "absent" /\ \A t \in TagPage!Slots \ {s} : changes[t].id # changes[s].id
        /\ changes[s].id \in TagPage!Ids
    BY <2>1 DEF TagServerInv, TagFreshInv, TagChangeInv, TagChangeOk, TagFresh
  <2>3. q.id # changes[s].id
    BY <1>2, <2>1, <2>2
  <2>4. p.id # changes[s].id
    BY <1>4, <2>2, <2>3 DEF TagPage!Ids
  <2> QED
    BY <1>5, <1>6, <2>1, <2>2, <2>3, <2>4
<1>13. TagHoldInv'
  <2> SUFFICES ASSUME NEW s \in TagPage!Slots, NEW t \in TagPage!Slots, s # t,
                      TagWrites(changes'[s]), TagWrites(changes'[t])
               PROVE  changes'[s].id # changes'[t].id /\ TagNames(changes'[s]) \cap TagNames(changes'[t]) = {}
    BY DEF TagHoldInv
  <2> QED
    BY <1>6, <1>7 DEF TagServerInv, TagHoldInv
<1>14. TagNameInv'
  <2> SUFFICES ASSUME NEW s \in TagPage!Slots, NEW i \in TagPage!Ids, TagNaming(changes'[s]), i # changes'[s].id,
                      tagRows'[i].state # "absent"
               PROVE  tagRows'[i].name # TagTarget(changes'[s]).name
    BY DEF TagNameInv
  <2>1. s # r /\ changes'[s] = changes[s] /\ TagNaming(changes[s])
    BY <1>6, <1>7
  <2>2. \A j \in TagPage!Ids : j # changes[s].id /\ tagRows[j].state # "absent" =>
          tagRows[j].name # TagTarget(changes[s]).name
    BY <2>1 DEF TagServerInv, TagNameInv
  <2>3. CASE i # q.id \/ (row.state # "absent" /\ new.name = row.name)
    BY <1>2, <1>5, <2>1, <2>2, <2>3
  <2>4. CASE i = q.id /\ new.name = TagTarget(q).name /\ TagNaming(q)
    <3>1. TagWrites(changes[s]) /\ TagTarget(changes[s]).name \in TagNames(changes[s])
      <4>1. "state" \in TagColumns(changes[s]) \/ "name" \in TagColumns(changes[s])
        <5>1. CASE changes[s].before.state = "absent"
          <6>1. TagFresh(changes[s]) /\ changes[s] \in TagPage!Request /\ changes[s].kind = "create"
            BY <2>1, <5>1 DEF TagNaming, TagFresh, TagReading, TagServerInv, TagTypeInv, TagChangeInv, TagChangeOk
          <6>2. TagTarget(changes[s]).state = "live"
            BY <6>1, TagTargetRow
          <6> QED
            BY <5>1, <6>1, <6>2 DEF TagColumns
        <5>2. CASE changes[s].before.state # "absent"
          BY <2>1, <5>2 DEF TagNaming
        <5> QED
          BY <5>1, <5>2
      <4> QED
        BY <2>1, <4>1 DEF TagWrites, TagNaming, TagNames
    <3>2. TagWrites(q) /\ TagTarget(q).name \in TagNames(q)
      BY <1>1, <2>4
    <3>3. TagNames(changes[s]) \cap TagNames(q) = {}
      BY <1>2, <2>1, <3>1, <3>2 DEF TagServerInv, TagHoldInv
    <3> QED
      BY <1>5, <2>1, <2>4, <3>1, <3>2, <3>3
  <2> QED
    BY <1>1, <2>3, <2>4
<1>15. TagFreeInv'
  <2>1. TagWaiting' \subseteq TagWaiting
    BY <1>4, <1>6 DEF TagWaiting
  <2>2. TagFree \subseteq TagFree'
    <3> SUFFICES ASSUME NEW j \in TagFree PROVE j \in TagFree'
      OBVIOUS
    <3>1. /\ j \in TagPage!Ids /\ tagRows[j].state = "absent" /\ j # q.id /\ j # 0
          /\ \A s \in TagPage!Slots : changes[s].id # j
      BY <1>2 DEF TagFree, TagPage!Ids
    <3>2. tagRows'[j].state = "absent" /\ \A s \in TagPage!Slots : changes'[s].id # j
      BY <1>4, <1>5, <1>6, <3>1
    <3> QED
      BY <3>1, <3>2 DEF TagFree
  <2> QED
    BY <2>1, <2>2, TagFreeKept DEF TagServerInv
<1>16. OneTagPerName'
  <2> SUFFICES ASSUME NEW i \in TagPage!Ids, NEW j \in TagPage!Ids, i # j, j # q.id,
                      tagRows'[i].state # "absent", tagRows'[j].state # "absent"
               PROVE  tagRows'[i].name # tagRows'[j].name
    BY DEF OneTagPerName, TagPage!OneTagPerName, TagPage!OneEach
  <2>1. tagRows'[j] = tagRows[j]
    BY <1>5
  <2>2. \A k \in TagPage!Ids : k # j /\ tagRows[k].state # "absent" => tagRows[k].name # tagRows[j].name
    BY <2>1 DEF TagServerInv, OneTagPerName, TagPage!OneTagPerName, TagPage!OneEach
  <2>3. CASE i # q.id \/ (row.state # "absent" /\ new.name = row.name)
    BY <1>2, <1>5, <2>1, <2>2, <2>3
  <2>4. CASE i = q.id /\ new.name = TagTarget(q).name /\ TagNaming(q)
    BY <1>2, <1>5, <2>1, <2>4 DEF TagServerInv, TagNameInv
  <2> QED
    BY <1>1, <2>3, <2>4
<1> QED
  BY <1>8, <1>9, <1>10, <1>11, <1>12, <1>13, <1>14, <1>15, <1>16 DEF TagServerInv

\* An answer, or the end of a change.
LEMMA TagMoveStep ==
  ASSUME TagServerInv, tagRows' = tagRows, NEW r \in TagPage!Slots,
         NEW phase \in {"sent", "answered", "refused", "done"},
         changes[r].phase \notin {"unused", "done"}, TagPage!Move(r, phase),
         phase = "sent" => changes[r].phase = "delayed",
         phase = "answered" => changes[r].phase = "flushed"
  PROVE  TagServerInv'
<1>1. CASE phase = "done"
  BY <1>1, TagDoneChange DEF TagPage!Move
<1>2. CASE phase # "done"
  <2>1. changes' = [changes EXCEPT ![r] = [changes[r] EXCEPT !.phase = phase]]
    BY <1>2 DEF TagPage!Move
  <2> QED
    BY <1>2, <2>1, TagPhaseChange
<1> QED
  BY <1>1, <1>2

LEMMA TagAnswerStep ==
  ASSUME TagServerInv, NEW r \in TagPage!Slots,
         TagPage!HandleSuccess(r) \/ TagPage!HandleFailure(r) \/ TagPage!LoseRequest(r) \/ TagPage!SendCreate(r)
  PROVE  TagServerInv'
<1>1. CASE TagPage!HandleSuccess(r)
  <2>1. CASE changes[r].phase = "flushed"
    <3>1. TagPage!Move(r, "answered") /\ tagRows' = tagRows
      BY <1>1, <2>1 DEF TagPage!HandleSuccess
    <3> QED
      BY <2>1, <3>1, TagMoveStep
  <2>2. CASE changes[r].phase = "committed"
    <3>1. TagPage!Move(r, "done") /\ tagRows' = tagRows
      BY <1>1, <2>2 DEF TagPage!HandleSuccess
    <3> QED
      BY <2>2, <3>1, TagMoveStep
  <2> QED
    BY <1>1, <2>1, <2>2 DEF TagPage!HandleSuccess
<1>2. CASE TagPage!HandleFailure(r)
  BY <1>2, TagMoveStep DEF TagPage!HandleFailure
<1>3. CASE TagPage!LoseRequest(r)
  BY <1>3, TagMoveStep DEF TagPage!LoseRequest
<1>4. CASE TagPage!SendCreate(r)
  <2>1. changes[r].phase = "delayed" /\ changes' = [changes EXCEPT ![r] = [changes[r] EXCEPT !.phase = "sent"]]
        /\ tagRows' = tagRows
    BY <1>4 DEF TagPage!SendCreate, TagServerInv, TagTypeInv
  <2> QED
    BY <2>1, TagPhaseChange
<1> QED
  BY <1>1, <1>2, <1>3, <1>4

-----------------------------------------------------------------------------
\* How a change comes to its end, the others staying as they are.
TagGoes(r, from, to) ==
  /\ \A s \in TagPage!Slots \ {r} : changes'[s] = changes[s]
  /\ changes'[r].kind = changes[r].kind
  /\ changes[r].phase \in from /\ changes'[r].phase \in to

LEMMA TagPhases ==
  ASSUME TagServerInv, NEW r \in TagPage!Slots
  PROVE  /\ TagPage!SendCreate(r) \/ TagPage!Load(r) \/ TagPage!Reread(r) \/ TagPage!Flush(r) =>
              TagGoes(r, {"delayed", "sent", "loaded", "reread"}, {"sent", "loaded", "reread", "flushed", "refused"})
         /\ TagPage!Commit(r) =>
              TagGoes(r, {"flushed"}, {"committed"}) \/ TagGoes(r, {"answered"}, {"done"})
         /\ TagPage!HandleSuccess(r) =>
              TagGoes(r, {"flushed"}, {"answered"}) \/ TagGoes(r, {"committed"}, {"done"})
         /\ TagPage!HandleFailure(r) => TagGoes(r, {"refused"}, {"done"})
         /\ TagPage!LoseRequest(r) => TagGoes(r, {"sent", "committed"}, {"refused"})
<1>1. changes \in [TagPage!Slots -> TagPage!Request] /\ changes[r] \in TagPage!Request
  BY DEF TagServerInv, TagTypeInv
<1>2. ASSUME NEW from, NEW phase, TagPage!Move(r, phase), changes[r].phase = from
      PROVE  \A fs, ts : from \in fs /\ phase \in ts => TagGoes(r, fs, ts)
  <2>1. /\ \A s \in TagPage!Slots \ {r} : changes'[s] = changes[s]
        /\ changes'[r].kind = changes[r].kind /\ changes'[r].phase = phase
    BY <1>1, <1>2 DEF TagPage!Move, TagPage!Request, TagPage!Unused
  <2> QED
    BY <1>2, <2>1 DEF TagGoes
<1> DEFINE First == {"delayed", "sent", "loaded", "reread"}
           Later == {"sent", "loaded", "reread", "flushed", "refused"}
<1>3. TagPage!SendCreate(r) => TagGoes(r, First, Later)
  BY <1>1 DEF TagPage!SendCreate, TagPage!Request, TagGoes
<1>4. TagPage!Load(r) => TagGoes(r, First, Later)
  <2> SUFFICES ASSUME TagPage!Load(r) PROVE TagGoes(r, First, Later)
    OBVIOUS
  <2>1. changes[r].phase = "sent"
    BY DEF TagPage!Load
  <2>2. CASE TagPage!Move(r, "refused")
    BY <1>2, <2>1, <2>2
  <2>3. ASSUME NEW i, NEW b,
               \/ changes' = [changes EXCEPT ![r].id = i, ![r].before = b, ![r].phase = "loaded"]
               \/ changes' = [changes EXCEPT ![r].id = i, ![r].phase = "loaded"]
               \/ changes' = [changes EXCEPT ![r].before = b, ![r].phase = "loaded"]
        PROVE  TagGoes(r, First, Later)
    <3>1. /\ \A s \in TagPage!Slots \ {r} : changes'[s] = changes[s]
          /\ changes'[r].kind = changes[r].kind /\ changes'[r].phase = "loaded"
      BY <1>1, <2>3 DEF TagPage!Request
    <3> QED
      BY <2>1, <3>1 DEF TagGoes
  <2> QED
    BY <2>2, <2>3 DEF TagPage!Load
<1>5. TagPage!Reread(r) => TagGoes(r, First, Later)
  BY <1>1 DEF TagPage!Reread, TagPage!Request, TagGoes
<1>6. TagPage!Flush(r) => TagGoes(r, First, Later)
  <2> SUFFICES ASSUME TagPage!Flush(r) PROVE TagGoes(r, First, Later)
    OBVIOUS
  <2>1. changes[r].phase \in {"loaded", "reread"} /\ \E phase \in {"refused", "flushed"} : TagPage!Move(r, phase)
    BY DEF TagPage!Flush
  <2> QED
    BY <1>2, <2>1
<1>7. TagPage!Commit(r) => TagGoes(r, {"flushed"}, {"committed"}) \/ TagGoes(r, {"answered"}, {"done"})
  BY <1>2 DEF TagPage!Commit
<1>8. TagPage!HandleSuccess(r) => TagGoes(r, {"flushed"}, {"answered"}) \/ TagGoes(r, {"committed"}, {"done"})
  BY <1>2 DEF TagPage!HandleSuccess
<1>9. TagPage!HandleFailure(r) => TagGoes(r, {"refused"}, {"done"})
  BY <1>2 DEF TagPage!HandleFailure
<1>10. TagPage!LoseRequest(r) => TagGoes(r, {"sent", "committed"}, {"refused"})
  BY <1>2 DEF TagPage!LoseRequest
<1> QED
  BY <1>3, <1>4, <1>5, <1>6, <1>7, <1>8, <1>9, <1>10

-----------------------------------------------------------------------------
LEMMA TagListFacts ==
  /\ TagPage!NotFetching.phase = "idle" /\ TagPage!Fetching.phase = "sent"
  /\ TagPage!NotFetching.rows \in [TagPage!Ids -> TagPage!Row] /\ TagPage!Fetching.rows \in [TagPage!Ids -> TagPage!Row]
  /\ \A i \in TagPage!Ids : TagPage!NotFetching.rows[i].state # "live" /\ TagPage!Fetching.rows[i].state # "live"
  BY TagRowFacts DEF TagPage!NotFetching, TagPage!Fetching

\* The page shows what was there, and rows are there for good.
LEMMA TagShownStep ==
  ASSUME TagServerInv, TagShownInv, [TagPage!Next]_tagPageVars,
         \A i \in TagPage!Ids : tagRows[i].state # "absent" => tagRows'[i].state # "absent"
  PROVE  TagShownInv'
<1> USE DEF TagShownInv
<1>1. ASSUME listing' \in {listing, TagPage!Fetching, TagPage!NotFetching}, table' \in {table, listing.rows},
             renameTarget' \in {renameTarget, 0}
      PROVE  TagShownInv'
  <2>1. listing'.rows \in [TagPage!Ids -> TagPage!Row]
        /\ \A i \in TagPage!Ids : listing'.rows[i].state = "live" => tagRows'[i].state # "absent"
    BY <1>1, TagListFacts
  <2>2. table' \in [TagPage!Ids -> TagPage!Row]
        /\ \A i \in TagPage!Ids : table'[i].state = "live" => tagRows'[i].state # "absent"
    BY <1>1
  <2>3. renameTarget' \in TagPage!Ids \cup {0} /\ (renameTarget' # 0 => tagRows'[renameTarget'].state # "absent")
    BY <1>1
  <2> QED
    BY <2>1, <2>2, <2>3
<1>2. CASE UNCHANGED tagPageVars
  BY <1>1, <1>2 DEF tagPageVars
<1>3. CASE TagPage!User
  <2>1. CASE \E i \in TagPage!Ids : TagPage!OpenRename(i)
    BY <2>1 DEF TagPage!OpenRename
  <2>2. CASE TagPage!OpenCreate \/ TagPage!CloseCreate \/ TagPage!CloseRename \/ TagPage!RetryList
    BY <1>1, <2>2 DEF TagPage!OpenCreate, TagPage!CloseCreate, TagPage!CloseRename, TagPage!RetryList, TagPage!AskList
  <2>3. CASE \E name \in Names : TagPage!CreateTag(name) \/ TagPage!SubmitRename(name)
    BY <1>1, <2>3 DEF TagPage!CreateTag, TagPage!SubmitRename, TagPage!pageVars
  <2>4. CASE \E i \in TagPage!Ids : TagPage!DeleteTag(i) \/ \E color \in Colors : TagPage!PickColor(i, color)
    BY <1>1, <2>4 DEF TagPage!DeleteTag, TagPage!PickColor, TagPage!pageVars
  <2> QED
    BY <1>3, <2>1, <2>2, <2>3, <2>4 DEF TagPage!User
<1>4. CASE \E r \in TagPage!Slots : TagPage!Progress(r) \/ TagPage!LoseRequest(r)
  <2> PICK r \in TagPage!Slots : TagPage!Progress(r) \/ TagPage!LoseRequest(r)
    BY <1>4
  <2>1. CASE TagPage!HandleSuccess(r)
    BY <1>1, <2>1 DEF TagPage!HandleSuccess, TagPage!Refetch, TagPage!AskList, TagPage!CloseTable
  <2>2. CASE TagPage!HandleFailure(r)
    BY <1>1, <2>2 DEF TagPage!HandleFailure
  <2>3. CASE TagPage!SendCreate(r) \/ TagPage!Load(r) \/ TagPage!Reread(r) \/ TagPage!Flush(r) \/ TagPage!Commit(r)
             \/ TagPage!LoseRequest(r)
    <3>1. UNCHANGED <<listing, TagPage!pageVars>>
      BY <2>3 DEF TagPage!SendCreate, TagPage!Load, TagPage!Reread, TagPage!Flush, TagPage!Commit, TagPage!LoseRequest
    <3> QED
      BY <1>1, <3>1 DEF TagPage!pageVars
  <2> QED
    BY <2>1, <2>2, <2>3 DEF TagPage!Progress
<1>5. CASE TagPage!ReadList
  <2>1. listing'.rows = TagPage!Live(tagRows) /\ UNCHANGED <<tagRows, table, renameTarget>>
    BY <1>5 DEF TagPage!ReadList, TagPage!pageVars
  <2>2. TagPage!Live(tagRows) \in [TagPage!Ids -> TagPage!Row]
        /\ \A i \in TagPage!Ids : TagPage!Live(tagRows)[i].state = "live" => tagRows[i].state # "absent"
    BY TagRowFacts DEF TagPage!Live, TagServerInv, TagTypeInv
  <2> QED
    BY <2>1, <2>2
<1>6. CASE TagPage!HandleList \/ TagPage!LoseList
  BY <1>1, <1>6 DEF TagPage!HandleList, TagPage!LoseList, TagPage!CloseTable
<1> QED
  BY <1>2, <1>3, <1>4, <1>5, <1>6 DEF TagPage!Next

\* A tag's request is never done before its dialog has heard of it.
LEMMA TagSubmitStep ==
  ASSUME TagServerInv, TagShownInv, TagSubmitInv, [TagPage!Next]_tagPageVars
  PROVE  TagSubmitInv'
<1> USE DEF TagSubmitInv
<1>0. changes \in [TagPage!Slots -> TagPage!Request]
  BY DEF TagServerInv, TagTypeInv
<1>1. CASE changes' = changes /\ submitting' \in {submitting, 0}
  BY <1>1
<1>2. ASSUME NEW r \in TagPage!Slots, NEW from, NEW to, TagGoes(r, from, to),
             submitting' \in {submitting, 0}, submitting' = r => to \cap {"done", "answered"} = {}
      PROVE  TagSubmitInv'
  BY <1>2 DEF TagGoes
<1>3. ASSUME NEW kind \in {"create", "rename", "color", "delete"}, NEW id \in TagPage!Ids \cup {0},
             NEW name \in Names, NEW color \in Colors, NEW phase \in {"delayed", "sent"},
             TagPage!Put(kind, id, name, color, phase)
      PROVE  /\ submitting' = submitting => TagSubmitInv'
             /\ kind = "rename" /\ submitting' = TagPage!Min({r \in TagPage!Slots : changes[r] = TagPage!Unused})
                => TagSubmitInv'
  <2>1. PICK r \in TagPage!Slots, q \in TagPage!Request :
          /\ changes[r] = TagPage!Unused /\ \A s \in 1..(r - 1) : changes[s] # TagPage!Unused
          /\ changes' = [changes EXCEPT ![r] = q] /\ q.kind = kind /\ q.phase = phase
    BY <1>3, TagPutFacts
  <2>2. submitting # r
    BY <2>1 DEF TagPage!Unused, TagPage!Slots
  <2>3. submitting' = submitting => TagSubmitInv'
    BY <1>0, <2>1, <2>2
  <2> DEFINE S == {s \in TagPage!Slots : changes[s] = TagPage!Unused}
  <2>4. r \in S /\ \A s \in S : r <= s
    BY <2>1 DEF TagPage!Slots
  <2>5. \A s \in S : (\A t \in S : s <= t) => s = r
    <3>1. S \subseteq Int
      BY DEF TagPage!Slots
    <3> HIDE DEF S
    <3> QED
      BY <2>4, <3>1
  <2> HIDE DEF S
  <2>6. TagPage!Min(S) = r
    BY <2>4, <2>5 DEF TagPage!Min
  <2>7. kind = "rename" /\ submitting' = r => TagSubmitInv'
    BY <1>0, <1>3, <2>1
  <2> QED
    BY <2>3, <2>6, <2>7 DEF S
<1>4. CASE UNCHANGED tagPageVars
  BY <1>1, <1>4 DEF tagPageVars
<1>5. CASE TagPage!User
  <2>1. CASE \E i \in TagPage!Ids : TagPage!OpenRename(i)
    BY <1>1, <2>1 DEF TagPage!OpenRename
  <2>2. CASE TagPage!OpenCreate \/ TagPage!CloseCreate \/ TagPage!CloseRename \/ TagPage!RetryList
    BY <1>1, <2>2 DEF TagPage!OpenCreate, TagPage!CloseCreate, TagPage!CloseRename, TagPage!RetryList
  <2>3. ASSUME NEW name \in Names, TagPage!CreateTag(name) PROVE TagSubmitInv'
    BY <1>3, <2>3, TagRowFacts DEF TagPage!CreateTag, TagPage!pageVars
  <2>4. ASSUME NEW name \in Names, TagPage!SubmitRename(name) PROVE TagSubmitInv'
    <3>1. /\ TagPage!Put("rename", renameTarget, name, DefaultColor, "sent")
          /\ submitting' = TagPage!Min({r \in TagPage!Slots : changes[r] = TagPage!Unused})
          /\ renameTarget \in TagPage!Ids \cup {0}
      BY <2>4 DEF TagPage!SubmitRename, TagShownInv
    <3> QED
      BY <1>3, <3>1, TagRowFacts
  <2>5. ASSUME NEW i \in TagPage!Ids, TagPage!DeleteTag(i) PROVE TagSubmitInv'
    BY <1>3, <2>5, TagRowFacts DEF TagPage!DeleteTag, TagPage!pageVars
  <2>6. ASSUME NEW i \in TagPage!Ids, NEW color \in Colors, TagPage!PickColor(i, color) PROVE TagSubmitInv'
    BY <1>3, <2>6, TagRowFacts DEF TagPage!PickColor, TagPage!pageVars
  <2> QED
    BY <1>5, <2>1, <2>2, <2>3, <2>4, <2>5, <2>6 DEF TagPage!User
<1>6. CASE \E r \in TagPage!Slots : TagPage!Progress(r) \/ TagPage!LoseRequest(r)
  <2> PICK r \in TagPage!Slots : TagPage!Progress(r) \/ TagPage!LoseRequest(r)
    BY <1>6
  <2>1. CASE TagPage!SendCreate(r) \/ TagPage!Load(r) \/ TagPage!Reread(r) \/ TagPage!Flush(r)
    <3>1. submitting' = submitting
      BY <2>1 DEF TagPage!SendCreate, TagPage!Load, TagPage!Reread, TagPage!Flush, TagPage!pageVars
    <3> QED
      BY <1>2, <2>1, <3>1, TagPhases
  <2>2. CASE TagPage!Commit(r)
    <3>1. submitting' = submitting
      BY <2>2 DEF TagPage!Commit, TagPage!pageVars
    <3>2. CASE TagGoes(r, {"flushed"}, {"committed"})
      BY <1>2, <3>1, <3>2
    <3>3. CASE TagGoes(r, {"answered"}, {"done"})
      <4>1. submitting # r
        BY <3>3 DEF TagGoes, TagPage!Slots
      <4> QED
        BY <1>2, <3>1, <3>3, <4>1
    <3> QED
      BY <2>2, <3>2, <3>3, TagPhases
  <2>3. CASE TagPage!HandleSuccess(r)
    <3>1. submitting' \in {submitting, 0} /\ submitting' # r
      <4>1. r # 0
        BY DEF TagPage!Slots
      <4> QED
        BY <2>3, <4>1 DEF TagPage!HandleSuccess, TagPage!CloseTable
    <3>2. TagGoes(r, {"flushed"}, {"answered"}) \/ TagGoes(r, {"committed"}, {"done"})
      BY <2>3, TagPhases
    <3> QED
      BY <1>2, <3>1, <3>2
  <2>4. CASE TagPage!HandleFailure(r)
    <3>1. submitting' \in {submitting, 0} /\ submitting' # r
      <4>1. r # 0
        BY DEF TagPage!Slots
      <4> QED
        BY <2>4, <4>1 DEF TagPage!HandleFailure
    <3> QED
      BY <1>2, <2>4, <3>1, TagPhases
  <2>5. CASE TagPage!LoseRequest(r)
    <3>1. submitting' = submitting
      BY <2>5 DEF TagPage!LoseRequest, TagPage!pageVars
    <3> QED
      BY <1>2, <2>5, <3>1, TagPhases
  <2> QED
    BY <2>1, <2>2, <2>3, <2>4, <2>5 DEF TagPage!Progress
<1>7. CASE TagPage!ReadList \/ TagPage!HandleList \/ TagPage!LoseList
  BY <1>1, <1>7 DEF TagPage!ReadList, TagPage!HandleList, TagPage!LoseList, TagPage!CloseTable, TagPage!pageVars
<1> QED
  BY <1>4, <1>5, <1>6, <1>7 DEF TagPage!Next

LEMMA TagServerStep ==
  ASSUME TagServerInv, TagShownInv, [TagPage!Next]_tagPageVars
  PROVE  /\ TagServerInv'
         /\ \A i \in TagPage!Ids : tagRows[i].state # "absent" => tagRows'[i].state # "absent"
<1>1. ASSUME UNCHANGED <<tagRows, changes>>
      PROVE  TagServerInv'
  BY <1>1 DEF TagServerInv, TagTypeInv, TagRowInv, TagChangeInv, TagFreshInv, TagHoldInv, TagNameInv, TagFreeInv,
              TagWaiting, TagFree, OneTagPerName, TagPage!OneTagPerName
<1>2. CASE UNCHANGED tagPageVars
  BY <1>1, <1>2 DEF tagPageVars
<1>3. CASE TagPage!User
  <2>1. CASE \E i \in TagPage!Ids : TagPage!OpenRename(i)
    BY <1>1, <2>1 DEF TagPage!OpenRename
  <2>2. CASE TagPage!OpenCreate \/ TagPage!CloseCreate \/ TagPage!CloseRename \/ TagPage!RetryList
    BY <1>1, <2>2 DEF TagPage!OpenCreate, TagPage!CloseCreate, TagPage!CloseRename, TagPage!RetryList
  <2>3. ASSUME NEW name \in Names, TagPage!CreateTag(name) PROVE TagServerInv' /\ tagRows' = tagRows
    BY <2>3, TagPutStep, TagRowFacts DEF TagPage!CreateTag
  <2>4. ASSUME NEW name \in Names, TagPage!SubmitRename(name) PROVE TagServerInv' /\ tagRows' = tagRows
    <3>1. /\ TagPage!Put("rename", renameTarget, name, DefaultColor, "sent") /\ tagRows' = tagRows
          /\ renameTarget \in TagPage!Ids /\ tagRows[renameTarget].state # "absent"
      BY <2>4 DEF TagPage!SubmitRename, TagShownInv
    <3> QED
      BY <3>1, TagPutStep, TagRowFacts
  <2>5. ASSUME NEW i \in TagPage!Ids, TagPage!DeleteTag(i) PROVE TagServerInv' /\ tagRows' = tagRows
    BY <2>5, TagPutStep, TagRowFacts DEF TagPage!DeleteTag, TagShownInv
  <2>6. ASSUME NEW i \in TagPage!Ids, NEW color \in Colors, TagPage!PickColor(i, color)
        PROVE  TagServerInv' /\ tagRows' = tagRows
    BY <2>6, TagPutStep, TagRowFacts DEF TagPage!PickColor, TagShownInv
  <2>7. tagRows' = tagRows
    BY <1>3, <2>3, <2>4, <2>5, <2>6
       DEF TagPage!User, TagPage!OpenRename, TagPage!OpenCreate, TagPage!CloseCreate, TagPage!CloseRename, TagPage!RetryList
  <2> QED
    BY <1>3, <2>1, <2>2, <2>3, <2>4, <2>5, <2>6, <2>7 DEF TagPage!User
<1>4. CASE \E r \in TagPage!Slots : TagPage!Progress(r) \/ TagPage!LoseRequest(r)
  <2> PICK r \in TagPage!Slots : TagPage!Progress(r) \/ TagPage!LoseRequest(r)
    BY <1>4
  <2>1. CASE TagPage!Commit(r)
    BY <2>1, TagCommitStep
  <2>2. CASE ~TagPage!Commit(r)
    <3>1. TagServerInv'
      BY <2>2, TagLoadStep, TagRereadStep, TagFlushStep, TagAnswerStep DEF TagPage!Progress
    <3>2. tagRows' = tagRows
      BY <2>2 DEF TagPage!Progress, TagPage!SendCreate, TagPage!Load, TagPage!Reread, TagPage!Flush,
                  TagPage!HandleSuccess, TagPage!HandleFailure, TagPage!LoseRequest
    <3> QED
      BY <3>1, <3>2
  <2> QED
    BY <2>1, <2>2
<1>5. CASE TagPage!ReadList \/ TagPage!HandleList \/ TagPage!LoseList
  BY <1>1, <1>5 DEF TagPage!ReadList, TagPage!HandleList, TagPage!LoseList
<1> QED
  BY <1>2, <1>3, <1>4, <1>5 DEF TagPage!Next

\* Where the list is not the server's, another is asked for before all is quiet.
LEMMA TagListStep ==
  ASSUME TagServerInv, TagShownInv, TagListInv, [TagPage!Next]_tagPageVars
  PROVE  TagListInv'
<1> USE DEF TagListInv
<1>0. changes \in [TagPage!Slots -> TagPage!Request]
  BY DEF TagServerInv, TagTypeInv
<1>1. CASE listing' = TagPage!Fetching
  BY <1>1, TagListFacts
<1>2. ASSUME UNCHANGED <<tagRows, listing, table, tagPage, tagsMisled>>,
             \A r \in TagPage!Slots : changes'[r].phase = "committed" <=> changes[r].phase = "committed",
             \A r \in TagPage!Slots : changes'[r].phase = "answered" => changes[r].phase = "answered"
      PROVE  TagListInv'
  BY <1>2
<1>3. CASE UNCHANGED tagPageVars
  BY <1>2, <1>3 DEF tagPageVars
<1>4. ASSUME NEW kind \in {"create", "rename", "color", "delete"}, NEW id \in TagPage!Ids \cup {0},
             NEW name \in Names, NEW color \in Colors, NEW phase \in {"delayed", "sent"},
             TagPage!Put(kind, id, name, color, phase), UNCHANGED <<tagRows, listing, table, tagPage, tagsMisled>>
      PROVE  TagListInv'
  <2>1. PICK r \in TagPage!Slots, q \in TagPage!Request :
          changes[r] = TagPage!Unused /\ changes' = [changes EXCEPT ![r] = q] /\ q.phase = phase
    BY <1>4, TagPutFacts
  <2>2. \A s \in TagPage!Slots : changes'[s] = IF s = r THEN q ELSE changes[s]
    BY <1>0, <2>1
  <2> QED
    BY <1>2, <1>4, <2>1, <2>2 DEF TagPage!Unused
<1>5. CASE TagPage!User
  <2>1. CASE \E i \in TagPage!Ids : TagPage!OpenRename(i)
    BY <1>2, <2>1 DEF TagPage!OpenRename
  <2>2. CASE TagPage!OpenCreate \/ TagPage!CloseCreate \/ TagPage!CloseRename
    BY <1>2, <2>2 DEF TagPage!OpenCreate, TagPage!CloseCreate, TagPage!CloseRename
  <2>3. CASE TagPage!RetryList
    BY <1>1, <2>3 DEF TagPage!RetryList, TagPage!AskList
  <2>4. ASSUME NEW name \in Names, TagPage!CreateTag(name) PROVE TagListInv'
    BY <1>4, <2>4, TagRowFacts DEF TagPage!CreateTag, TagPage!pageVars
  <2>5. ASSUME NEW name \in Names, TagPage!SubmitRename(name) PROVE TagListInv'
    <3>1. /\ TagPage!Put("rename", renameTarget, name, DefaultColor, "sent")
          /\ UNCHANGED <<tagRows, listing, table, tagPage, tagsMisled>> /\ renameTarget \in TagPage!Ids \cup {0}
      BY <2>5 DEF TagPage!SubmitRename, TagShownInv
    <3> QED
      BY <1>4, <3>1, TagRowFacts
  <2>6. ASSUME NEW i \in TagPage!Ids, TagPage!DeleteTag(i) PROVE TagListInv'
    BY <1>4, <2>6, TagRowFacts DEF TagPage!DeleteTag, TagPage!pageVars
  <2>7. ASSUME NEW i \in TagPage!Ids, NEW color \in Colors, TagPage!PickColor(i, color) PROVE TagListInv'
    BY <1>4, <2>7, TagRowFacts DEF TagPage!PickColor, TagPage!pageVars
  <2> QED
    BY <1>5, <2>1, <2>2, <2>3, <2>4, <2>5, <2>6, <2>7 DEF TagPage!User
<1>6. CASE \E r \in TagPage!Slots : TagPage!Progress(r) \/ TagPage!LoseRequest(r)
  <2> PICK r \in TagPage!Slots : TagPage!Progress(r) \/ TagPage!LoseRequest(r)
    BY <1>6
  <2>1. CASE TagPage!SendCreate(r) \/ TagPage!Load(r) \/ TagPage!Reread(r) \/ TagPage!Flush(r) \/ TagPage!HandleFailure(r)
    <3>1. UNCHANGED <<tagRows, listing, table, tagPage, tagsMisled>>
      BY <2>1 DEF TagPage!SendCreate, TagPage!Load, TagPage!Reread, TagPage!Flush, TagPage!HandleFailure, TagPage!pageVars
    <3>2. /\ \A s \in TagPage!Slots \ {r} : changes'[s] = changes[s]
          /\ changes[r].phase \notin {"committed", "answered"} /\ changes'[r].phase \notin {"committed", "answered"}
      BY <2>1, TagPhases DEF TagGoes
    <3> QED
      BY <1>2, <3>1, <3>2
  <2>2. CASE TagPage!Commit(r)
    <3>1. UNCHANGED <<listing, table, tagPage, tagsMisled>>
      BY <2>2 DEF TagPage!Commit, TagPage!pageVars
    <3>2. CASE TagGoes(r, {"flushed"}, {"committed"})
      BY <3>2 DEF TagGoes
    <3>3. CASE TagGoes(r, {"answered"}, {"done"})
      BY <3>1, <3>3 DEF TagGoes
    <3> QED
      BY <2>2, <3>2, <3>3, TagPhases
  <2>3. CASE TagPage!HandleSuccess(r)
    BY <1>1, <2>3 DEF TagPage!HandleSuccess, TagPage!Refetch, TagPage!AskList
  <2>4. CASE TagPage!LoseRequest(r)
    <3>1. /\ UNCHANGED <<tagRows, listing, table, tagPage>>
          /\ tagsMisled' = (tagsMisled \/ changes[r].phase = "committed")
      BY <2>4 DEF TagPage!LoseRequest, TagPage!pageVars
    <3>2. TagGoes(r, {"sent", "committed"}, {"refused"})
      BY <2>4, TagPhases
    <3>3. CASE changes[r].phase = "committed"
      BY <3>1, <3>3
    <3>4. CASE changes[r].phase = "sent"
      <4>1. \A s \in TagPage!Slots : changes'[s].phase = "committed" <=> changes[s].phase = "committed"
        BY <3>2, <3>4 DEF TagGoes
      <4>2. \A s \in TagPage!Slots : changes'[s].phase = "answered" => changes[s].phase = "answered"
        BY <3>2, <3>4 DEF TagGoes
      <4>3. CASE tagsMisled
        BY <3>1, <4>3
      <4>4. CASE ~tagsMisled
        BY <3>1, <3>4, <4>1, <4>2, <4>4
      <4> QED
        BY <4>3, <4>4
    <3> QED
      BY <3>2, <3>3, <3>4 DEF TagGoes
  <2> QED
    BY <2>1, <2>2, <2>3, <2>4 DEF TagPage!Progress
<1>7. CASE TagPage!ReadList
  <2>1. /\ listing'.phase = "read" /\ listing'.rows = TagPage!Live(tagRows) /\ UNCHANGED <<tagRows, changes>>
        /\ tagsMisled' = (\E r \in TagPage!Slots : changes[r].phase = "answered")
    BY <1>7 DEF TagPage!ReadList
  <2> QED
    BY <2>1 DEF TagPage!Live
<1>8. CASE TagPage!HandleList
  BY <1>8, TagListFacts DEF TagPage!HandleList
<1>9. CASE TagPage!LoseList
  BY <1>9, TagListFacts DEF TagPage!LoseList
<1> QED
  BY <1>3, <1>5, <1>6, <1>7, <1>8, <1>9 DEF TagPage!Next

LEMMA TagInit == Init => TagInv
<1> SUFFICES ASSUME TagPage!Init PROVE TagInv
  BY DEF Init
<1>1. TagServerInv
  BY TagStart
<1>2. TagShownInv
  BY TagRowFacts, TagListFacts DEF TagPage!Init, TagShownInv
<1>3. TagSubmitInv /\ TagListInv
  BY TagListFacts DEF TagPage!Init, TagSubmitInv, TagListInv
<1> QED
  BY <1>1, <1>2, <1>3 DEF TagInv

LEMMA TagStep == TagInv /\ [TagPage!Next]_tagPageVars => TagInv'
  BY TagServerStep, TagShownStep, TagSubmitStep, TagListStep DEF TagInv

\* A commit writes the fields it was asked for; others only where its two reads
\* of the row differ.
LEMMA TagUndoStep ==
  ASSUME TagInv, [TagPage!Next]_tagPageVars, NEW i \in TagPage!Ids, tagRows[i].state # "absent"
  PROVE  /\ \A c \in {"name", "color"} : tagRows'[i][c] # tagRows[i][c] =>
              \E r \in TagPage!Slots :
                /\ changes[r].id = i /\ changes'[r] # changes[r]
                /\ \/ changes[r].kind = (IF c = "name" THEN "rename" ELSE "color")
                   \/ changes[r].before[c] # changes[r].again[c]
         /\ tagRows[i].state = "deleted" /\ tagRows'[i].state = "live" =>
              \E r \in TagPage!Slots : changes[r].kind = "create" /\ changes[r].id = i
<1>1. CASE tagRows' = tagRows
  BY <1>1
<1>2. ASSUME NEW r \in TagPage!Slots, TagPage!Commit(r)
      PROVE  /\ \A c \in {"name", "color"} : tagRows'[i][c] # tagRows[i][c] =>
                  /\ changes[r].id = i /\ changes'[r] # changes[r]
                  /\ \/ changes[r].kind = (IF c = "name" THEN "rename" ELSE "color")
                     \/ changes[r].before[c] # changes[r].again[c]
             /\ tagRows[i].state = "deleted" /\ tagRows'[i].state = "live" =>
                  changes[r].kind = "create" /\ changes[r].id = i
  <2> DEFINE q == changes[r]
             row == tagRows[q.id]
             new == TagWritten(q, row)
  <2>1. /\ q \in TagPage!Request /\ q.kind # "unused" /\ q.id \in TagPage!Ids /\ TagReading(q)
        /\ row \in TagPage!Row /\ tagRows' = [tagRows EXCEPT ![q.id] = new]
    BY <1>2, TagCommitted DEF TagInv
  <2>2. \A c \in {"name", "color", "state"} : new[c] = IF c \in TagColumns(q) THEN TagTarget(q)[c] ELSE row[c]
    BY <2>1, TagWrittenRow
  <2>3. CASE i # q.id
    BY <2>1, <2>3 DEF TagInv, TagServerInv, TagTypeInv
  <2>4. CASE i = q.id
    <3>1. tagRows'[i] = new /\ tagRows[i] = row
      BY <2>1, <2>4 DEF TagInv, TagServerInv, TagTypeInv
    <3>2. changes'[r] # changes[r]
      BY <1>2, TagPhases DEF TagGoes, TagInv
    <3>3. q.kind = "create" => q.before.state # "absent"
      BY <2>1, <2>4 DEF TagInv, TagServerInv, TagFreshInv, TagFresh
    <3> HIDE DEF q, row, new
    <3>4. ASSUME NEW c \in {"name", "color"}, c \in TagColumns(q)
          PROVE  q.kind = (IF c = "name" THEN "rename" ELSE "color") \/ q.before[c] # q.again[c]
      <4>1. q.kind \in {"create", "rename", "color", "delete"}
        BY <2>1 DEF TagPage!Request
      <4>2. CASE q.kind \in {"create", "delete"}
        <5>1. TagTarget(q)[c] = q.before[c]
          BY <2>1, <3>3, <4>2, TagTargetRow
        <5> QED
          BY <3>4, <4>2, <5>1 DEF TagColumns
      <4>3. CASE q.kind = "rename" /\ c = "color"
        <5>1. TagTarget(q)[c] = q.before[c]
          BY <2>1, <4>3, TagTargetRow
        <5> QED
          BY <3>4, <4>3, <5>1 DEF TagColumns
      <4>4. CASE q.kind = "color" /\ c = "name"
        <5>1. TagTarget(q)[c] = q.before[c]
          BY <2>1, <4>4, TagTargetRow
        <5> QED
          BY <3>4, <4>4, <5>1 DEF TagColumns
      <4> QED
        BY <4>1, <4>2, <4>3, <4>4
    <3>5. "state" \in TagColumns(q) /\ TagTarget(q).state = "live" => q.kind = "create"
      <4>1. q.kind \in {"create", "rename", "color", "delete"}
        BY <2>1 DEF TagPage!Request
      <4>2. q.kind = "delete" => TagTarget(q).state = "deleted"
        BY <2>1, TagTargetRow
      <4> QED
        BY <4>1, <4>2 DEF TagColumns
    <3>6. q = changes[r]
      BY DEF q
    <3> QED
      BY <2>2, <2>4, <3>1, <3>2, <3>4, <3>5, <3>6
  <2> QED
    BY <2>3, <2>4
<1>3. tagRows' = tagRows \/ \E r \in TagPage!Slots : TagPage!Commit(r)
  BY DEF tagPageVars, TagPage!Next, TagPage!User, TagPage!Progress, TagPage!OpenCreate, TagPage!CloseCreate,
         TagPage!CloseRename, TagPage!RetryList, TagPage!CreateTag, TagPage!SubmitRename, TagPage!OpenRename,
         TagPage!DeleteTag, TagPage!PickColor, TagPage!SendCreate, TagPage!Load, TagPage!Reread, TagPage!Flush,
         TagPage!HandleSuccess, TagPage!HandleFailure, TagPage!LoseRequest, TagPage!ReadList, TagPage!HandleList,
         TagPage!LoseList
<1> QED
  BY <1>1, <1>2, <1>3

-----------------------------------------------------------------------------
(* The account settings                                                    *)

\* The settings a save is about, and may be waited for.
AccGroup(s) ==
  IF Account!Touched(s.input) = Account!ProfileFields THEN Account!ProfileFields ELSE Account!Preferences

AccTypeInv ==
  /\ user \in Account!Row /\ profile \in Account!Row \cup {Account!NoProfile}
  /\ me \in {Account!Idle, Account!Asked} \cup [phase : {"read"}, row : Account!Row]
  /\ form \in [Account!ProfileFields -> Values \cup {Empty, NoValue}]
  /\ profile # Account!NoProfile => \A f \in Account!ProfileFields : form[f] # NoValue
  /\ saves \in Seq(Account!Save) /\ doubtful \subseteq Account!Fields /\ misled \in BOOLEAN
  /\ savedFields \in [Account!Fields -> Values \cup {Empty, NoValue}]
  /\ profile = Account!NoProfile => saves = <<>>
  /\ profileError \in BOOLEAN /\ dialogOpen \in BOOLEAN /\ saveFaults \in 0..MaxFaults

\* A save changes its own settings; one that no control waits for is doubtful.
AccSaveInv ==
  \A i \in DOMAIN saves :
    /\ saves[i].phase # "done" =>
         /\ Account!Changed(saves[i].input) \subseteq AccGroup(saves[i])
         /\ saves[i].waiting # "control" => AccGroup(saves[i]) \subseteq doubtful
    /\ saves[i].waiting = "nobody" => misled

\* Two saves of the same settings are under way only where one was lost sight of.
AccOneInv ==
  \A i, j \in DOMAIN saves :
    i # j /\ saves[i].phase # "done" /\ saves[j].phase # "done" /\ AccGroup(saves[i]) = AccGroup(saves[j])
      => AccGroup(saves[i]) \subseteq doubtful

\* What a transaction read twice was the same, column by column, and its own
\* settings are still as it read them.
AccReadInv ==
  \A i \in DOMAIN saves : saves[i].phase = "reread" =>
    \A f \in Account!Fields \ doubtful :
      /\ saves[i].before[f] = saves[i].again[f]
      /\ f \in Account!Preferences => \A g \in Account!Preferences : saves[i].before[g] = saves[i].again[g]
      /\ f \in AccGroup(saves[i]) => user[f] = saves[i].again[f]

\* A save committed and not yet answered is in the row.
AccCommitInv ==
  \A i \in DOMAIN saves : saves[i].phase = "committed" =>
    \A f \in Account!Touched(saves[i].input) \ doubtful :
      saves[i].input[f] \notin {NoValue, Empty} => user[f] = saves[i].input[f]

\* What the cards show, or are about to, is the row, unless it is asked for again,
\* could not be had, or a commit is still to be answered.
AccShownInv ==
  \/ misled \/ me = Account!Asked
  \/ me = Account!Idle /\ (profileError \/ profile = Account!NoProfile)
  \/ \E i \in DOMAIN saves : saves[i].phase = "committed"
  \/ (IF me = Account!Idle THEN profile ELSE me.row) = user

AccInv ==
  /\ AccTypeInv /\ AccSaveInv /\ AccOneInv /\ AccReadInv /\ AccCommitInv /\ AccShownInv
  /\ SavedSettingsStay

LEMMA AccFacts ==
  /\ Account!AnyValue \in Values
  /\ Account!FirstRow \in Account!Row /\ Account!FirstRow # Account!NoProfile
  /\ Account!NoProfile \notin Account!Row
  /\ Account!Done \in Account!Save /\ Account!Done.phase = "done" /\ Account!Done.waiting = "control"
  /\ Account!ProfileFields \subseteq Account!Fields /\ Account!Preferences \subseteq Account!Fields
  /\ Account!Fields = Account!ProfileFields \cup Account!Preferences
  /\ Account!ProfileFields \cap Account!Preferences = {} /\ Account!ProfileFields # Account!Preferences
  /\ Account!Idle.phase = "idle" /\ Account!Asked.phase = "sent" /\ Account!Idle # Account!Asked
<1>1. Account!AnyValue \in Values
  BY ClientPagesAssumption DEF Account!AnyValue
<1>2. Account!FirstRow \in Account!Row
  BY <1>1 DEF Account!FirstRow, Account!Row
<1>3. NoValue \notin Values \cup {Empty}
  BY ClientPagesAssumption
<1>4. Account!NoProfile \notin Account!Row
  <2>1. "nickname" \in Account!Fields /\ Account!NoProfile["nickname"] = NoValue
    BY DEF Account!NoProfile, Account!Fields, Account!ProfileFields
  <2> QED
    BY <1>3, <2>1 DEF Account!Row
<1>5. Account!NoProfile \in [Account!Fields -> Values \cup {Empty, NoValue}]
  BY DEF Account!NoProfile
<1>6. Account!Done \in Account!Save /\ Account!Done.phase = "done" /\ Account!Done.waiting = "control"
  BY <1>2, <1>5 DEF Account!Done, Account!Save
<1>7. /\ Account!ProfileFields \subseteq Account!Fields /\ Account!Preferences \subseteq Account!Fields
      /\ Account!Fields = Account!ProfileFields \cup Account!Preferences
      /\ Account!ProfileFields \cap Account!Preferences = {} /\ Account!ProfileFields # Account!Preferences
  BY DEF Account!Fields, Account!ProfileFields, Account!Preferences
<1>8. Account!Idle.phase = "idle" /\ Account!Asked.phase = "sent" /\ Account!Idle # Account!Asked
  BY DEF Account!Idle, Account!Asked
<1> QED
  BY <1>1, <1>2, <1>4, <1>6, <1>7, <1>8

\* What a save changes is what it is waited for, and lies in its group.
LEMMA AccTouched ==
  ASSUME NEW s, Account!Changed(s.input) \subseteq AccGroup(s)
  PROVE  /\ Account!Changed(s.input) \subseteq Account!Touched(s.input) /\ Account!Touched(s.input) \subseteq AccGroup(s)
         /\ AccGroup(s) \in {Account!ProfileFields, Account!Preferences} /\ AccGroup(s) \subseteq Account!Fields
  BY AccFacts DEF Account!Touched, AccGroup

-----------------------------------------------------------------------------
\* Saves that go on, or end: a doubt is never taken back.
LEMMA AccWaitStep ==
  ASSUME AccSaveInv, AccOneInv, DOMAIN saves' = DOMAIN saves,
         doubtful \subseteq doubtful',
         \A j \in DOMAIN saves :
           \/ saves'[j].phase = "done"
           \/ /\ saves[j].phase # "done" /\ saves'[j].input = saves[j].input
              /\ saves'[j].waiting = saves[j].waiting \/ AccGroup(saves[j]) \subseteq doubtful',
         \A j \in DOMAIN saves : saves'[j].waiting = "nobody" => misled'
  PROVE  AccSaveInv' /\ AccOneInv'
<1>1. \A j \in DOMAIN saves : saves'[j].phase # "done" => AccGroup(saves'[j]) = AccGroup(saves[j])
  BY DEF AccGroup
<1>2. ASSUME NEW j \in DOMAIN saves, saves'[j].phase # "done"
      PROVE  /\ Account!Changed(saves'[j].input) \subseteq AccGroup(saves'[j])
             /\ saves'[j].waiting # "control" => AccGroup(saves'[j]) \subseteq doubtful'
  BY <1>1, <1>2 DEF AccSaveInv
<1>3. AccSaveInv'
  BY <1>2 DEF AccSaveInv
<1>4. AccOneInv'
  <2> SUFFICES ASSUME NEW i \in DOMAIN saves, NEW j \in DOMAIN saves, i # j,
                      saves'[i].phase # "done", saves'[j].phase # "done", AccGroup(saves'[i]) = AccGroup(saves'[j])
               PROVE  AccGroup(saves'[i]) \subseteq doubtful'
    BY DEF AccOneInv
  <2> QED
    BY <1>1 DEF AccOneInv
<1> QED
  BY <1>3, <1>4

\* ... while the row stays as it is.
LEMMA AccKeepStep ==
  ASSUME AccReadInv, AccCommitInv, SavedSettingsStay, DOMAIN saves' = DOMAIN saves,
         UNCHANGED <<user, savedFields>>, doubtful \subseteq doubtful',
         \A j \in DOMAIN saves : saves'[j].phase \in {"reread", "committed"} => saves'[j].input = saves[j].input,
         \A j \in DOMAIN saves : saves'[j].phase = "reread" =>
           \/ saves[j].phase = "reread" /\ saves'[j].before = saves[j].before /\ saves'[j].again = saves[j].again
           \/ \A f \in Account!Fields \ doubtful' :
                /\ saves'[j].before[f] = saves'[j].again[f]
                /\ f \in Account!Preferences =>
                     \A g \in Account!Preferences : saves'[j].before[g] = saves'[j].again[g]
                /\ f \in AccGroup(saves'[j]) => user[f] = saves'[j].again[f],
         \A j \in DOMAIN saves : saves'[j].phase = "committed" => saves[j].phase = "committed",
         \A j \in DOMAIN saves : saves[j].phase = "committed" =>
           saves'[j].phase = "committed" \/ Account!Touched(saves[j].input) \subseteq doubtful'
  PROVE  AccReadInv' /\ AccCommitInv' /\ SavedSettingsStay'
<1>1. AccReadInv'
  <2> SUFFICES ASSUME NEW j \in DOMAIN saves, saves'[j].phase = "reread", NEW f \in Account!Fields \ doubtful'
               PROVE  /\ saves'[j].before[f] = saves'[j].again[f]
                      /\ f \in Account!Preferences =>
                           \A g \in Account!Preferences : saves'[j].before[g] = saves'[j].again[g]
                      /\ f \in AccGroup(saves'[j]) => user[f] = saves'[j].again[f]
    BY DEF AccReadInv
  <2>1. AccGroup(saves'[j]) = AccGroup(saves[j])
    BY DEF AccGroup
  <2>2. CASE saves[j].phase = "reread" /\ saves'[j].before = saves[j].before /\ saves'[j].again = saves[j].again
    BY <2>1, <2>2 DEF AccReadInv
  <2> QED
    BY <2>2
<1>2. AccCommitInv'
  BY DEF AccCommitInv
<1>3. SavedSettingsStay'
  BY DEF SavedSettingsStay, Account!SavedSettingsStay
<1> QED
  BY <1>1, <1>2, <1>3

\* A commit changes a setting that is not doubtful only as it was asked to.
LEMMA AccCommitted ==
  ASSUME AccTypeInv, AccSaveInv, AccReadInv, NEW i \in DOMAIN saves, Account!Commit(i),
         NEW f \in Account!Fields \ doubtful
  PROVE  /\ \/ user'[f] = user[f]
            \/ /\ f \in Account!Touched(saves[i].input) /\ f \in AccGroup(saves[i])
               /\ saves[i].input[f] \notin {NoValue, Empty}
         /\ f \in AccGroup(saves[i]) /\ saves[i].input[f] \notin {NoValue, Empty} => user'[f] = saves[i].input[f]
<1> DEFINE s == saves[i]
           differ == {g \in Account!Fields : Account!Applied(s)[g] # s.again[g]}
<1>1. /\ s.phase = "reread"
      /\ user'[f] = IF f \in Account!Written(s) THEN Account!Applied(s)[f] ELSE user[f]
      /\ Account!Changed(s.input) \subseteq AccGroup(s)
  BY DEF Account!Commit, AccSaveInv
<1>2. \A g \in Account!Fields :
        Account!Applied(s)[g] = IF s.input[g] \in {NoValue, Empty} THEN s.before[g] ELSE s.input[g]
  BY DEF Account!Applied
<1>3. Account!Written(s) = differ \cup (IF differ \cap Account!Preferences # {} THEN Account!Preferences ELSE {})
  BY DEF Account!Written, Account!Columns
<1>4. /\ s.before[f] = s.again[f]
      /\ f \in Account!Preferences => \A g \in Account!Preferences : s.before[g] = s.again[g]
      /\ f \in AccGroup(s) => user[f] = s.again[f]
  BY <1>1 DEF AccReadInv
<1>5. \A g \in Account!Fields : s.input[g] \notin {NoValue, Empty} => g \in Account!Touched(s.input) /\ g \in AccGroup(s)
  BY <1>1, AccTouched DEF Account!Changed
<1>6. CASE f \in differ
  BY <1>1, <1>2, <1>3, <1>4, <1>5, <1>6
<1>7. CASE f \notin differ
  <2>1. Account!Applied(s)[f] = s.again[f]
    BY <1>7
  <2>2. CASE f \in AccGroup(s)
    BY <1>1, <1>2, <1>4, <2>1, <2>2
  <2>3. CASE f \notin AccGroup(s)
    <3>1. f \notin Account!Written(s)
      <4>1. ASSUME f \in Account!Preferences, NEW g \in Account!Preferences, g \in differ
            PROVE  FALSE
        <5>1. s.before[g] = s.again[g] /\ g \in Account!Fields
          BY <1>4, <4>1, AccFacts
        <5>2. s.input[g] \notin {NoValue, Empty}
          BY <1>2, <4>1, <5>1
        <5>3. g \in AccGroup(s)
          BY <1>5, <5>1, <5>2
        <5> QED
          BY <1>1, <2>3, <4>1, <5>3, AccTouched, AccFacts
      <4> QED
        BY <1>3, <1>7, <4>1
    <3> QED
      BY <1>1, <2>3, <3>1
  <2> QED
    BY <2>2, <2>3
<1> QED
  BY <1>6, <1>7

-----------------------------------------------------------------------------
LEMMA AccInit == Init => AccInv
<1> SUFFICES ASSUME Account!Init PROVE AccInv
  BY DEF Init
<1>1. saves = <<>> /\ DOMAIN saves = {} /\ saves \in Seq(Account!Save)
  BY DEF Account!Init
<1>2. 0 \in 0..MaxFaults
  BY ClientPagesAssumption
<1>3. AccTypeInv
  BY <1>1, <1>2, AccFacts DEF Account!Init, AccTypeInv, Account!NoProfile
<1>4. SavedSettingsStay
  BY DEF Account!Init, SavedSettingsStay, Account!SavedSettingsStay, Account!NoProfile
<1>5. AccSaveInv /\ AccOneInv /\ AccReadInv /\ AccCommitInv /\ AccShownInv
  BY <1>1 DEF Account!Init, AccSaveInv, AccOneInv, AccReadInv, AccCommitInv, AccShownInv
<1> QED
  BY <1>3, <1>4, <1>5 DEF AccInv

\* What leaves the row and the saves alone.
LEMMA AccPageStep ==
  ASSUME AccInv, UNCHANGED <<user, saves, savedFields, doubtful, misled>>,
         profile' \in {profile} \cup Account!Row,
         me' \in {Account!Idle, Account!Asked} \cup [phase : {"read"}, row : Account!Row],
         form' \in [Account!ProfileFields -> Values \cup {Empty, NoValue}],
         profile' # Account!NoProfile => \A f \in Account!ProfileFields : form'[f] # NoValue,
         profileError' \in BOOLEAN, dialogOpen' \in BOOLEAN, saveFaults' \in 0..MaxFaults,
         AccShownInv'
  PROVE  AccInv'
<1>1. AccTypeInv'
  BY AccFacts DEF AccInv, AccTypeInv
<1>2. AccSaveInv' /\ AccOneInv' /\ AccReadInv' /\ AccCommitInv' /\ SavedSettingsStay'
  BY DEF AccInv, AccSaveInv, AccOneInv, AccReadInv, AccCommitInv, SavedSettingsStay, Account!SavedSettingsStay
<1> QED
  BY <1>1, <1>2 DEF AccInv

LEMMA AccMeStep ==
  ASSUME AccInv,
         Account!Retry \/ Account!Refocus \/ Account!ReadMe \/ Account!HandleMe \/ Account!OpenDialog
           \/ Account!CloseDialog \/ \E f \in Account!ProfileFields : \E v \in TypedInProfile[f] : Account!Type(f, v)
  PROVE  AccInv'
<1> USE DEF Account!pageVars, Account!ghostVars
<1>0. AccTypeInv /\ AccShownInv
  BY DEF AccInv
<1>1. CASE Account!Retry \/ Account!Refocus
  BY <1>0, <1>1, AccPageStep DEF AccTypeInv, AccShownInv, Account!Retry, Account!Refocus
<1>2. CASE Account!ReadMe
  <2>1. me' = [phase |-> "read", row |-> user] /\ UNCHANGED <<user, profile, profileError, dialogOpen, form, saves,
                                                              savedFields, doubtful, misled, saveFaults>>
    BY <1>2 DEF Account!ReadMe
  <2>2. me' # Account!Idle /\ me'.row = user'
    BY <2>1, AccFacts
  <2>3. AccShownInv'
    BY <2>2 DEF AccShownInv
  <2> QED
    BY <1>0, <2>1, <2>3, AccPageStep DEF AccTypeInv
<1>3. CASE Account!HandleMe
  <2>1. /\ me.phase = "read" /\ me' = Account!Idle /\ profile' = me.row /\ profileError' = FALSE
        /\ form' = IF Account!CardShown THEN form ELSE [f \in Account!ProfileFields |-> me.row[f]]
        /\ UNCHANGED <<user, dialogOpen, saves, savedFields, doubtful, misled, saveFaults>>
    BY <1>3 DEF Account!HandleMe
  <2>2. me.row \in Account!Row /\ me # Account!Idle /\ me # Account!Asked
    BY <1>0, <2>1, AccFacts DEF AccTypeInv
  <2>3. AccShownInv'
    BY <1>0, <2>1, <2>2 DEF AccShownInv
  <2>4. /\ form' \in [Account!ProfileFields -> Values \cup {Empty, NoValue}]
        /\ \A f \in Account!ProfileFields : form'[f] # NoValue
    <3>1. \A f \in Account!ProfileFields : me.row[f] \in Values \cup {Empty} /\ me.row[f] # NoValue
      BY <2>2, AccFacts, ClientPagesAssumption DEF Account!Row
    <3>2. CASE Account!CardShown
      BY <1>0, <2>1, <3>2 DEF Account!CardShown, AccTypeInv
    <3>3. CASE ~Account!CardShown
      BY <2>1, <3>1, <3>3
    <3> QED
      BY <3>2, <3>3
  <2> QED
    BY <1>0, <2>1, <2>2, <2>3, <2>4, AccPageStep DEF AccTypeInv
<1>4. CASE Account!OpenDialog \/ Account!CloseDialog
  BY <1>0, <1>4, AccPageStep DEF AccTypeInv, AccShownInv, Account!OpenDialog, Account!CloseDialog
<1>5. ASSUME NEW f \in Account!ProfileFields, NEW v \in TypedInProfile[f], Account!Type(f, v)
      PROVE  AccInv'
  <2>1. v \in Values \cup {Empty} /\ v # NoValue
    BY <1>5, ClientPagesAssumption DEF Account!ProfileFields
  <2>2. form' = [form EXCEPT ![f] = v] /\ UNCHANGED <<user, me, profile, profileError, dialogOpen, saves, savedFields,
                                                      doubtful, misled, saveFaults>>
    BY <1>5 DEF Account!Type
  <2>3. AccShownInv'
    BY <1>0, <2>2 DEF AccShownInv
  <2>4. /\ form' \in [Account!ProfileFields -> Values \cup {Empty, NoValue}]
        /\ profile # Account!NoProfile => \A g \in Account!ProfileFields : form'[g] # NoValue
    BY <1>0, <2>1, <2>2 DEF AccTypeInv
  <2> QED
    BY <1>0, <2>2, <2>3, <2>4, AccPageStep DEF AccTypeInv
<1> QED
  BY <1>1, <1>2, <1>3, <1>4, <1>5

\* A save is asked for when no control waits for one of its settings.
LEMMA AccPutStep ==
  ASSUME AccInv, UNCHANGED <<user, me, profile, profileError, dialogOpen, form, savedFields, doubtful, misled, saveFaults>>,
         NEW input \in [Account!Fields -> Values \cup {Empty, NoValue}], Account!Put(input),
         NEW group \in {Account!ProfileFields, Account!Preferences},
         Account!Changed(input) \subseteq group,
         group = IF Account!Touched(input) = Account!ProfileFields THEN Account!ProfileFields ELSE Account!Preferences,
         ~Account!IsUpdating(group), profile # Account!NoProfile
  PROVE  AccInv'
<1> DEFINE s == [input |-> input, before |-> Account!FirstRow, again |-> Account!FirstRow, phase |-> "sent",
                 waiting |-> "control"]
           n == Len(saves) + 1
<1>1. saves' = Append(saves, s) /\ saves \in Seq(Account!Save) /\ AccTypeInv
  BY DEF Account!Put, AccInv, AccTypeInv
<1>2. s \in Account!Save
  BY AccFacts DEF Account!Save
<1>3. /\ saves' \in Seq(Account!Save) /\ DOMAIN saves' = DOMAIN saves \cup {n} /\ n \notin DOMAIN saves
      /\ saves'[n] = s /\ \A i \in DOMAIN saves : saves'[i] = saves[i]
  <2> HIDE DEF s
  <2> QED
    BY <1>1, <1>2
<1>4. s.phase = "sent" /\ s.waiting = "control" /\ s.input = input
  OBVIOUS
<1> HIDE DEF s, n
<1>5. AccGroup(s) = group
  BY <1>4 DEF AccGroup
<1>6. AccTypeInv'
  BY <1>1, <1>3 DEF AccTypeInv
<1>7. AccSaveInv'
  BY <1>3, <1>4, <1>5 DEF AccInv, AccSaveInv
<1>8. AccOneInv'
  <2>1. ASSUME NEW j \in DOMAIN saves, saves[j].phase # "done", AccGroup(saves[j]) = group
        PROVE  group \subseteq doubtful
    <3>1. Account!Touched(saves[j].input) \subseteq group
      BY <2>1, AccTouched DEF AccInv, AccSaveInv
    <3>2. saves[j].waiting # "control"
      BY <2>1, <3>1 DEF Account!IsUpdating, Account!Pending
    <3> QED
      BY <2>1, <3>2 DEF AccInv, AccSaveInv
  <2> SUFFICES ASSUME NEW i \in DOMAIN saves', NEW j \in DOMAIN saves', i # j,
                      saves'[i].phase # "done", saves'[j].phase # "done", AccGroup(saves'[i]) = AccGroup(saves'[j])
               PROVE  AccGroup(saves'[i]) \subseteq doubtful
    BY DEF AccOneInv
  <2> QED
    BY <1>3, <1>5, <2>1 DEF AccInv, AccOneInv
<1>9. AccReadInv' /\ AccCommitInv'
  BY <1>3, <1>4 DEF AccInv, AccReadInv, AccCommitInv
<1>10. AccShownInv' /\ SavedSettingsStay'
  BY <1>3 DEF AccInv, AccShownInv, SavedSettingsStay, Account!SavedSettingsStay
<1> QED
  BY <1>6, <1>7, <1>8, <1>9, <1>10 DEF AccInv

LEMMA AccAskStep ==
  ASSUME AccInv, Account!SaveProfile \/ \E v \in Values : \E f \in Account!Preferences : Account!PickPreference(f, v)
  PROVE  AccInv'
<1> USE DEF Account!pageVars, Account!ghostVars
<1>0. AccTypeInv
  BY DEF AccInv
<1>1. CASE Account!SaveProfile
  <2> DEFINE input == [f \in Account!Fields |-> IF f \in Account!ProfileFields THEN form[f] ELSE NoValue]
  <2>1. /\ Account!Put(input) /\ profile # Account!NoProfile /\ ~Account!IsUpdating(Account!ProfileFields)
        /\ UNCHANGED <<user, me, profile, profileError, dialogOpen, form, savedFields, doubtful, misled, saveFaults>>
    BY <1>1 DEF Account!SaveProfile, Account!CardShown
  <2>2. input \in [Account!Fields -> Values \cup {Empty, NoValue}]
    BY <1>0 DEF AccTypeInv
  <2>3. Account!Changed(input) = Account!ProfileFields
    BY <1>0, <2>1, AccFacts DEF AccTypeInv, Account!Changed
  <2>4. Account!Touched(input) = Account!ProfileFields
    BY <2>3, AccFacts DEF Account!Touched
  <2> HIDE DEF input
  <2> QED
    BY <2>1, <2>2, <2>3, <2>4, AccPutStep
<1>2. ASSUME NEW v \in Values, NEW f \in Account!Preferences, Account!PickPreference(f, v)
      PROVE  AccInv'
  <2> DEFINE input == [g \in Account!Fields |-> IF g = f THEN v ELSE NoValue]
  <2>1. /\ Account!Put(input) /\ profile # Account!NoProfile /\ ~Account!IsUpdating(Account!Preferences)
        /\ UNCHANGED <<user, me, profile, profileError, dialogOpen, form, savedFields, doubtful, misled, saveFaults>>
    BY <1>2 DEF Account!PickPreference, Account!CardShown
  <2>2. input \in [Account!Fields -> Values \cup {Empty, NoValue}]
    OBVIOUS
  <2>3. Account!Changed(input) \subseteq {f} /\ {f} \subseteq Account!Preferences
    BY DEF Account!Changed
  <2>4. f \in Account!Changed(input)
    BY ClientPagesAssumption, AccFacts DEF Account!Changed
  <2>5. Account!Touched(input) # Account!ProfileFields /\ Account!Changed(input) \subseteq Account!Preferences
    BY <2>3, <2>4, AccFacts DEF Account!Touched
  <2> HIDE DEF input
  <2> QED
    BY <2>1, <2>2, <2>5, AccPutStep
<1> QED
  BY <1>1, <1>2

-----------------------------------------------------------------------------
\* A save goes on at the backend.
LEMMA AccLoadStep ==
  ASSUME AccInv, NEW i \in DOMAIN saves, Account!Load(i) \/ Account!Reread(i)
  PROVE  AccInv'
<1> USE DEF Account!pageVars, Account!ghostVars
<1>0. /\ AccTypeInv /\ AccSaveInv /\ AccOneInv /\ AccReadInv /\ AccCommitInv /\ AccShownInv /\ SavedSettingsStay
      /\ saves \in Seq(Account!Save) /\ user \in Account!Row
  BY DEF AccInv, AccTypeInv
<1>1. saves[i] \in Account!Save
  BY <1>0
<1>2. CASE Account!Load(i)
  <2>1. /\ saves[i].phase = "sent" /\ saves' = [saves EXCEPT ![i].phase = "loaded", ![i].before = user]
        /\ UNCHANGED <<user, me, profile, profileError, dialogOpen, form, savedFields, doubtful, misled, saveFaults>>
    BY <1>2 DEF Account!Load
  <2>2. /\ DOMAIN saves' = DOMAIN saves /\ \A j \in DOMAIN saves \ {i} : saves'[j] = saves[j]
        /\ saves'[i].phase = "loaded" /\ saves'[i].input = saves[i].input /\ saves'[i].waiting = saves[i].waiting
    BY <1>1, <2>1 DEF Account!Save
  <2>3. saves' \in Seq(Account!Save)
    <3>1. [saves[i] EXCEPT !.phase = "loaded", !.before = user] \in Account!Save
      BY <1>0, <1>1 DEF Account!Save
    <3>2. saves' = [saves EXCEPT ![i] = [saves[i] EXCEPT !.phase = "loaded", !.before = user]]
      BY <2>1
    <3> QED
      BY <1>0, <3>1, <3>2
  <2>4. AccTypeInv'
    BY <1>0, <2>1, <2>2, <2>3 DEF AccTypeInv
  <2>5. AccSaveInv' /\ AccOneInv'
    <3>1. \A j \in DOMAIN saves :
            \/ saves'[j].phase = "done"
            \/ saves[j].phase # "done" /\ saves'[j].input = saves[j].input /\ saves'[j].waiting = saves[j].waiting
      BY <2>1, <2>2
    <3>2. \A j \in DOMAIN saves : saves'[j].waiting = "nobody" => misled'
      BY <1>0, <2>1, <2>2 DEF AccSaveInv
    <3> QED
      BY <1>0, <2>1, <2>2, <3>1, <3>2, AccWaitStep
  <2>6. AccReadInv' /\ AccCommitInv' /\ SavedSettingsStay'
    <3>1. \A j \in DOMAIN saves : saves'[j].phase \in {"reread", "committed"} =>
            j # i /\ saves'[j] = saves[j]
      BY <2>2
    <3>2. \A j \in DOMAIN saves : saves[j].phase = "committed" => saves'[j].phase = "committed"
      BY <2>1, <2>2
    <3> QED
      BY <1>0, <2>1, <2>2, <3>1, <3>2, AccKeepStep
  <2>7. AccShownInv'
    BY <1>0, <2>1, <2>2 DEF AccShownInv
  <2> QED
    BY <2>4, <2>5, <2>6, <2>7 DEF AccInv
<1>3. CASE Account!Reread(i)
  <2>1. /\ saves[i].phase = "loaded" /\ saves' = [saves EXCEPT ![i].phase = "reread", ![i].again = user]
        /\ doubtful' = doubtful \cup Account!Columns({f \in Account!Fields : saves[i].before[f] # user[f]})
        /\ UNCHANGED <<user, me, profile, profileError, dialogOpen, form, savedFields, misled, saveFaults>>
    BY <1>3 DEF Account!Reread
  <2>2. /\ DOMAIN saves' = DOMAIN saves /\ \A j \in DOMAIN saves \ {i} : saves'[j] = saves[j]
        /\ saves'[i].phase = "reread" /\ saves'[i].input = saves[i].input /\ saves'[i].waiting = saves[i].waiting
        /\ saves'[i].before = saves[i].before /\ saves'[i].again = user
    BY <1>1, <2>1 DEF Account!Save
  <2>3. saves' \in Seq(Account!Save)
    <3>1. [saves[i] EXCEPT !.phase = "reread", !.again = user] \in Account!Save
      BY <1>0, <1>1 DEF Account!Save
    <3>2. saves' = [saves EXCEPT ![i] = [saves[i] EXCEPT !.phase = "reread", !.again = user]]
      BY <2>1
    <3> QED
      BY <1>0, <3>1, <3>2
  <2>4. AccTypeInv'
    <3>1. doubtful' \subseteq Account!Fields
      BY <1>0, <2>1, AccFacts DEF AccTypeInv, Account!Columns
    <3> QED
      BY <1>0, <2>1, <2>2, <2>3, <3>1 DEF AccTypeInv
  <2>5. AccSaveInv' /\ AccOneInv'
    <3>1. \A j \in DOMAIN saves :
            \/ saves'[j].phase = "done"
            \/ saves[j].phase # "done" /\ saves'[j].input = saves[j].input /\ saves'[j].waiting = saves[j].waiting
      BY <2>1, <2>2
    <3>2. \A j \in DOMAIN saves : saves'[j].waiting = "nobody" => misled'
      BY <1>0, <2>1, <2>2 DEF AccSaveInv
    <3> QED
      BY <1>0, <2>1, <2>2, <3>1, <3>2, AccWaitStep
  <2>6. AccReadInv' /\ AccCommitInv' /\ SavedSettingsStay'
    <3>0. \A f \in Account!Fields \ doubtful' :
            /\ saves'[i].before[f] = saves'[i].again[f]
            /\ f \in Account!Preferences =>
                 \A g \in Account!Preferences : saves'[i].before[g] = saves'[i].again[g]
            /\ f \in AccGroup(saves'[i]) => user[f] = saves'[i].again[f]
      BY <2>1, <2>2, AccFacts DEF Account!Columns
    <3>1. \A j \in DOMAIN saves : saves'[j].input = saves[j].input /\ (j # i => saves'[j] = saves[j])
      BY <2>2
    <3>2. \A j \in DOMAIN saves : saves[j].phase = "committed" <=> saves'[j].phase = "committed"
      BY <2>1, <2>2
    <3> QED
      BY <1>0, <2>1, <2>2, <3>0, <3>1, <3>2, AccKeepStep
  <2>7. AccShownInv'
    BY <1>0, <2>1, <2>2 DEF AccShownInv
  <2> QED
    BY <2>4, <2>5, <2>6, <2>7 DEF AccInv
<1> QED
  BY <1>2, <1>3

\* Two saves of one setting that is not doubtful are one save.
LEMMA AccAlone ==
  ASSUME AccSaveInv, AccOneInv, NEW i \in DOMAIN saves, NEW j \in DOMAIN saves, i # j,
         saves[i].phase # "done", saves[j].phase # "done", NEW f \in AccGroup(saves[i]) \ doubtful
  PROVE  f \notin AccGroup(saves[j])
<1>1. Account!Changed(saves[i].input) \subseteq AccGroup(saves[i]) /\ Account!Changed(saves[j].input) \subseteq AccGroup(saves[j])
  BY DEF AccSaveInv
<1>2. /\ AccGroup(saves[i]) \in {Account!ProfileFields, Account!Preferences}
      /\ AccGroup(saves[j]) \in {Account!ProfileFields, Account!Preferences}
  BY DEF AccGroup
<1>3. AccGroup(saves[i]) # AccGroup(saves[j])
  BY DEF AccOneInv
<1> QED
  BY <1>2, <1>3, AccFacts

LEMMA AccCommitStep ==
  ASSUME AccInv, NEW i \in DOMAIN saves, Account!Commit(i)
  PROVE  AccInv'
<1> USE DEF Account!pageVars, Account!ghostVars
<1> DEFINE s == saves[i]
           t == [s EXCEPT !.phase = "committed", !.before = Account!FirstRow, !.again = Account!FirstRow]
<1>0. /\ AccTypeInv /\ AccSaveInv /\ AccOneInv /\ AccReadInv /\ AccCommitInv /\ AccShownInv /\ SavedSettingsStay
      /\ saves \in Seq(Account!Save) /\ user \in Account!Row /\ s \in Account!Save
  BY DEF AccInv, AccTypeInv
<1>1. /\ s.phase = "reread"
      /\ user' = [f \in Account!Fields |-> IF f \in Account!Written(s) THEN Account!Applied(s)[f] ELSE user[f]]
      /\ saves' = [saves EXCEPT ![i] = IF s.waiting = "nobody" THEN Account!Done ELSE t]
      /\ UNCHANGED <<me, profile, profileError, dialogOpen, form, savedFields, doubtful, misled, saveFaults>>
  BY DEF Account!Commit
<1>2. t \in Account!Save /\ t.phase = "committed" /\ t.input = s.input /\ t.waiting = s.waiting
  BY <1>0, AccFacts DEF Account!Save
<1>3. /\ saves' \in Seq(Account!Save) /\ DOMAIN saves' = DOMAIN saves
      /\ \A j \in DOMAIN saves \ {i} : saves'[j] = saves[j]
      /\ s.waiting = "nobody" => saves'[i] = Account!Done
      /\ s.waiting # "nobody" => saves'[i] = t
  <2> HIDE DEF s, t
  <2> QED
    BY <1>0, <1>1, <1>2, AccFacts
<1>4. /\ saves'[i].phase = "committed" => saves'[i].input = s.input
      /\ s.waiting # "nobody" => saves'[i].phase = "committed"
      /\ s.waiting = "nobody" => misled /\ AccGroup(s) \subseteq doubtful
      /\ saves'[i].phase \in {"committed", "done"} /\ saves'[i].waiting # "nobody"
  <2>1. s.waiting = "nobody" => misled /\ AccGroup(s) \subseteq doubtful
    BY <1>0, <1>1 DEF AccSaveInv
  <2> QED
    BY <1>2, <1>3, <2>1, AccFacts
<1>5. ASSUME NEW f \in Account!Fields \ doubtful
      PROVE  /\ \/ user'[f] = user[f]
                \/ f \in Account!Touched(s.input) /\ f \in AccGroup(s) /\ s.input[f] \notin {NoValue, Empty}
             /\ f \in AccGroup(s) /\ s.input[f] \notin {NoValue, Empty} => user'[f] = s.input[f]
  BY <1>0, AccCommitted
<1>6. user' \in Account!Row
  <2>1. \A f \in Account!Fields : Account!Applied(s)[f] \in Values \cup {Empty}
    BY <1>0 DEF Account!Applied, Account!Row, Account!Save
  <2> QED
    BY <1>0, <1>1, <2>1 DEF Account!Row
<1>7. AccTypeInv'
  BY <1>0, <1>1, <1>3, <1>6 DEF AccTypeInv
<1>8. AccSaveInv' /\ AccOneInv'
  <2>1. \A j \in DOMAIN saves :
          \/ saves'[j].phase = "done"
          \/ saves[j].phase # "done" /\ saves'[j].input = saves[j].input /\ saves'[j].waiting = saves[j].waiting
    BY <1>1, <1>2, <1>3, AccFacts
  <2>2. \A j \in DOMAIN saves : saves'[j].waiting = "nobody" => misled'
    BY <1>0, <1>1, <1>3, <1>4 DEF AccSaveInv
  <2> QED
    BY <1>0, <1>1, <1>3, <2>1, <2>2, AccWaitStep
<1>9. AccReadInv'
  <2> SUFFICES ASSUME NEW j \in DOMAIN saves, saves'[j].phase = "reread", NEW f \in Account!Fields \ doubtful
               PROVE  /\ saves'[j].before[f] = saves'[j].again[f]
                      /\ f \in Account!Preferences =>
                           \A g \in Account!Preferences : saves'[j].before[g] = saves'[j].again[g]
                      /\ f \in AccGroup(saves'[j]) => user'[f] = saves'[j].again[f]
    BY <1>1, <1>3 DEF AccReadInv
  <2>1. j # i /\ saves'[j] = saves[j]
    BY <1>3, <1>4
  <2>2. f \in AccGroup(saves[j]) => user'[f] = user[f]
    BY <1>0, <1>1, <1>5, <2>1, AccAlone
  <2> QED
    BY <1>0, <2>1, <2>2 DEF AccReadInv
<1>10. AccCommitInv'
  <2> SUFFICES ASSUME NEW j \in DOMAIN saves, saves'[j].phase = "committed",
                      NEW f \in Account!Touched(saves'[j].input) \ doubtful, saves'[j].input[f] \notin {NoValue, Empty}
               PROVE  user'[f] = saves'[j].input[f]
    BY <1>1, <1>3 DEF AccCommitInv
  <2>1. saves'[j].input = saves[j].input /\ saves[j].phase # "done"
    BY <1>1, <1>3, <1>4
  <2>2. f \in AccGroup(saves[j]) /\ f \in Account!Fields
    BY <1>0, <2>1, AccTouched DEF AccSaveInv
  <2>3. CASE j = i
    BY <1>5, <2>1, <2>2, <2>3
  <2>4. CASE j # i
    <3>1. user'[f] = user[f]
      BY <1>0, <1>1, <1>5, <2>1, <2>2, <2>4, AccAlone
    <3> QED
      BY <1>0, <1>3, <2>1, <2>4, <3>1 DEF AccCommitInv
  <2> QED
    BY <2>3, <2>4
<1>11. SavedSettingsStay'
  <2> SUFFICES ASSUME NEW f \in Account!Fields \ doubtful, savedFields[f] \notin {NoValue, Empty}
               PROVE  \/ user'[f] = savedFields[f]
                      \/ \E j \in DOMAIN saves : saves'[j].phase = "committed" /\ f \in Account!Touched(saves'[j].input)
    BY <1>1, <1>3 DEF SavedSettingsStay, Account!SavedSettingsStay
  <2>1. CASE user'[f] # user[f]
    <3>1. f \in Account!Touched(s.input) /\ f \in AccGroup(s)
      BY <1>5, <2>1
    <3>2. s.waiting # "nobody"
      BY <1>4, <3>1
    <3> QED
      BY <1>4, <3>1, <3>2
  <2>2. CASE user'[f] = user[f]
    <3>1. CASE user[f] = savedFields[f]
      BY <2>2, <3>1
    <3>2. CASE \E j \in DOMAIN saves : saves[j].phase = "committed" /\ f \in Account!Touched(saves[j].input)
      BY <1>1, <1>3, <3>2
    <3> QED
      BY <1>0, <3>1, <3>2 DEF SavedSettingsStay, Account!SavedSettingsStay
  <2> QED
    BY <2>1, <2>2
<1>12. AccShownInv'
  BY <1>1, <1>3, <1>4 DEF AccShownInv
<1> QED
  BY <1>7, <1>8, <1>9, <1>10, <1>11, <1>12 DEF AccInv

-----------------------------------------------------------------------------
\* The answer: the user is told, and the profile is asked for again.
LEMMA AccSavedStep ==
  ASSUME AccInv, NEW i \in DOMAIN saves, Account!HandleSaved(i)
  PROVE  AccInv'
<1>0. /\ AccTypeInv /\ AccSaveInv /\ AccOneInv /\ AccReadInv /\ AccCommitInv /\ AccShownInv /\ SavedSettingsStay
      /\ saves \in Seq(Account!Save) /\ saves[i] \in Account!Save
  BY DEF AccInv, AccTypeInv
<1>1. /\ saves[i].phase = "committed" /\ saves' = [saves EXCEPT ![i] = Account!Done]
      /\ savedFields' = [f \in Account!Fields |->
           IF f \in Account!Touched(saves[i].input) THEN saves[i].input[f] ELSE savedFields[f]]
      /\ me' = Account!Refetch /\ dialogOpen' \in BOOLEAN
      /\ UNCHANGED <<user, profile, profileError, form, doubtful, misled, saveFaults>>
  BY DEF Account!HandleSaved
<1>2. me' = Account!Asked
  <2>1. profile # Account!NoProfile
    BY <1>0 DEF AccTypeInv
  <2> QED
    BY <1>1, <2>1 DEF Account!Refetch
<1>3. /\ saves' \in Seq(Account!Save) /\ DOMAIN saves' = DOMAIN saves
      /\ saves'[i] = Account!Done /\ \A j \in DOMAIN saves \ {i} : saves'[j] = saves[j]
  BY <1>0, <1>1, AccFacts
<1>4. AccTypeInv'
  <2>1. savedFields' \in [Account!Fields -> Values \cup {Empty, NoValue}]
    BY <1>0, <1>1 DEF AccTypeInv, Account!Save
  <2>2. profile # Account!NoProfile
    BY <1>0 DEF AccTypeInv
  <2> QED
    BY <1>0, <1>1, <1>2, <1>3, <2>1, <2>2 DEF AccTypeInv
<1>5. AccSaveInv' /\ AccOneInv'
  <2>1. \A j \in DOMAIN saves :
          \/ saves'[j].phase = "done"
          \/ saves[j].phase # "done" /\ saves'[j].input = saves[j].input /\ saves'[j].waiting = saves[j].waiting
    BY <1>1, <1>3, AccFacts
  <2>2. \A j \in DOMAIN saves : saves'[j].waiting = "nobody" => misled'
    BY <1>0, <1>1, <1>3, AccFacts DEF AccSaveInv
  <2> QED
    BY <1>0, <1>1, <1>3, <2>1, <2>2, AccWaitStep
<1>6. AccReadInv' /\ AccCommitInv'
  <2>1. \A j \in DOMAIN saves : saves'[j].phase \in {"reread", "committed"} => saves'[j] = saves[j]
    BY <1>3, AccFacts
  <2> QED
    BY <1>0, <1>1, <1>3, <2>1 DEF AccReadInv, AccCommitInv
<1>7. SavedSettingsStay'
  <2> SUFFICES ASSUME NEW f \in Account!Fields \ doubtful, savedFields'[f] \notin {NoValue, Empty}
               PROVE  \/ user[f] = savedFields'[f]
                      \/ \E j \in DOMAIN saves : saves'[j].phase = "committed" /\ f \in Account!Touched(saves'[j].input)
    BY <1>1, <1>3 DEF SavedSettingsStay, Account!SavedSettingsStay
  <2>1. CASE f \in Account!Touched(saves[i].input)
    BY <1>0, <1>1, <2>1 DEF AccCommitInv
  <2>2. CASE f \notin Account!Touched(saves[i].input)
    <3>1. savedFields'[f] = savedFields[f]
      BY <1>1, <2>2
    <3>2. CASE \E j \in DOMAIN saves : saves[j].phase = "committed" /\ f \in Account!Touched(saves[j].input)
      BY <1>3, <2>2, <3>2
    <3> QED
      BY <1>0, <3>1, <3>2 DEF SavedSettingsStay, Account!SavedSettingsStay
  <2> QED
    BY <2>1, <2>2
<1>8. AccShownInv'
  BY <1>2 DEF AccShownInv
<1> QED
  BY <1>4, <1>5, <1>6, <1>7, <1>8 DEF AccInv

\* An answer is lost, and what was waited for with it.
LEMMA AccLoseMeStep ==
  ASSUME AccInv, Account!LoseMe
  PROVE  AccInv'
<1> DEFINE shut(j) == Account!Touched(saves[j].input) = Account!ProfileFields /\ saves[j].waiting = "control"
<1>0. /\ AccTypeInv /\ AccSaveInv /\ AccOneInv /\ AccReadInv /\ AccCommitInv /\ AccShownInv /\ SavedSettingsStay
      /\ saves \in Seq(Account!Save)
  BY DEF AccInv, AccTypeInv
<1>1. /\ me' = Account!Idle /\ profileError' = TRUE
      /\ saves' = [j \in DOMAIN saves |-> IF shut(j) THEN [saves[j] EXCEPT !.waiting = "page"] ELSE saves[j]]
      /\ doubtful' = doubtful \cup
           (IF \E j \in DOMAIN saves : Account!Pending(j) /\ Account!Touched(saves[j].input) = Account!ProfileFields
            THEN Account!ProfileFields ELSE {})
      /\ UNCHANGED <<user, profile, dialogOpen, form, savedFields, misled>>
  BY DEF Account!LoseMe
<1>2. saveFaults' \in 0..MaxFaults
  BY <1>0, ClientPagesAssumption DEF Account!LoseMe, Account!Fault, AccTypeInv
<1>3. ASSUME NEW j \in DOMAIN saves
      PROVE  /\ saves'[j] \in Account!Save /\ saves'[j].phase = saves[j].phase /\ saves'[j].input = saves[j].input
             /\ saves'[j].before = saves[j].before /\ saves'[j].again = saves[j].again
             /\ shut(j) => saves'[j].waiting = "page"
             /\ ~shut(j) => saves'[j].waiting = saves[j].waiting
  <2>1. saves[j] \in Account!Save
    BY <1>0
  <2>2. saves'[j] = IF shut(j) THEN [saves[j] EXCEPT !.waiting = "page"] ELSE saves[j]
    BY <1>1
  <2> HIDE DEF shut
  <2> QED
    BY <2>1, <2>2 DEF Account!Save
<1>4. DOMAIN saves' = DOMAIN saves /\ saves' \in Seq(Account!Save)
  <2>1. DOMAIN saves = 1..Len(saves) /\ Len(saves) \in Nat
    BY <1>0
  <2>2. saves' \in [1..Len(saves) -> Account!Save]
    BY <1>1, <1>3, <2>1
  <2> QED
    BY <1>1, <2>1, <2>2
<1>5. doubtful \subseteq doubtful' /\ doubtful' \subseteq Account!Fields
  BY <1>0, <1>1, AccFacts DEF AccTypeInv
<1>6. \A j \in DOMAIN saves : shut(j) /\ saves[j].phase # "done" => AccGroup(saves[j]) \subseteq doubtful'
  BY <1>1 DEF AccGroup, Account!Pending
<1> HIDE DEF shut
<1>7. AccTypeInv'
  BY <1>0, <1>1, <1>2, <1>4, <1>5 DEF AccTypeInv
<1>8. AccSaveInv' /\ AccOneInv'
  <2>1. \A j \in DOMAIN saves :
          \/ saves'[j].phase = "done"
          \/ /\ saves[j].phase # "done" /\ saves'[j].input = saves[j].input
             /\ saves'[j].waiting = saves[j].waiting \/ AccGroup(saves[j]) \subseteq doubtful'
    BY <1>3, <1>6
  <2>2. \A j \in DOMAIN saves : saves'[j].waiting = "nobody" => misled'
    BY <1>0, <1>1, <1>3 DEF AccSaveInv
  <2> QED
    BY <1>0, <1>4, <1>5, <2>1, <2>2, AccWaitStep
<1>9. AccReadInv' /\ AccCommitInv' /\ SavedSettingsStay'
  BY <1>0, <1>1, <1>3, <1>4, <1>5, AccKeepStep
<1>10. AccShownInv'
  BY <1>1 DEF AccShownInv
<1> QED
  BY <1>7, <1>8, <1>9, <1>10 DEF AccInv

LEMMA AccLoseSaveStep ==
  ASSUME AccInv, NEW i \in DOMAIN saves, Account!LoseSave(i)
  PROVE  AccInv'
<1> USE DEF Account!pageVars
<1> DEFINE t == [saves[i] EXCEPT !.waiting = "nobody"]
<1>0. /\ AccTypeInv /\ AccSaveInv /\ AccOneInv /\ AccReadInv /\ AccCommitInv /\ AccShownInv /\ SavedSettingsStay
      /\ saves \in Seq(Account!Save) /\ saves[i] \in Account!Save
  BY DEF AccInv, AccTypeInv
<1>1. /\ doubtful' = doubtful \cup AccGroup(saves[i]) /\ misled' = TRUE /\ saves[i].phase # "done"
      /\ UNCHANGED <<user, me, profile, profileError, dialogOpen, form, savedFields>>
  BY DEF Account!LoseSave, Account!Pending, AccGroup
<1>2. saveFaults' \in 0..MaxFaults
  BY <1>0, ClientPagesAssumption DEF Account!LoseSave, Account!Fault, AccTypeInv
<1>3. /\ t \in Account!Save /\ t.phase = saves[i].phase /\ t.input = saves[i].input /\ t.waiting = "nobody"
      /\ t.before = saves[i].before /\ t.again = saves[i].again
  BY <1>0 DEF Account!Save
<1>4. \/ saves' = [saves EXCEPT ![i] = Account!Done]
      \/ saves[i].phase # "committed" /\ saves' = [saves EXCEPT ![i] = t]
  BY DEF Account!LoseSave
<1> HIDE DEF t
<1>5. /\ saves' \in Seq(Account!Save) /\ DOMAIN saves' = DOMAIN saves
      /\ \A j \in DOMAIN saves \ {i} : saves'[j] = saves[j]
      /\ saves'[i] = Account!Done \/ (saves[i].phase # "committed" /\ saves'[i] = t)
  BY <1>0, <1>3, <1>4, AccFacts
<1>6. Account!Touched(saves[i].input) \subseteq AccGroup(saves[i]) /\ AccGroup(saves[i]) \subseteq Account!Fields
  BY <1>0, <1>1, AccTouched DEF AccSaveInv
<1>7. AccTypeInv'
  <2>1. doubtful' \subseteq Account!Fields
    BY <1>0, <1>1, <1>6 DEF AccTypeInv
  <2>2. profile = Account!NoProfile => saves' = <<>>
    <3>1. i \in DOMAIN saves
      OBVIOUS
    <3> QED
      BY <1>0, <3>1 DEF AccTypeInv
  <2> QED
    BY <1>0, <1>1, <1>2, <1>5, <2>1, <2>2 DEF AccTypeInv
<1>8. AccSaveInv' /\ AccOneInv'
  <2>1. \A j \in DOMAIN saves :
          \/ saves'[j].phase = "done"
          \/ /\ saves[j].phase # "done" /\ saves'[j].input = saves[j].input
             /\ saves'[j].waiting = saves[j].waiting \/ AccGroup(saves[j]) \subseteq doubtful'
    BY <1>1, <1>3, <1>5, AccFacts
  <2>2. \A j \in DOMAIN saves : saves'[j].waiting = "nobody" => misled'
    BY <1>1
  <2> QED
    BY <1>0, <1>1, <1>5, <2>1, <2>2, AccWaitStep
<1>9. AccReadInv' /\ AccCommitInv' /\ SavedSettingsStay'
  <2>1. \A j \in DOMAIN saves : saves'[j].phase \in {"reread", "committed"} => saves'[j].input = saves[j].input
    BY <1>3, <1>5, AccFacts
  <2>2. \A j \in DOMAIN saves : saves'[j].phase = "reread" =>
          saves[j].phase = "reread" /\ saves'[j].before = saves[j].before /\ saves'[j].again = saves[j].again
    BY <1>3, <1>5, AccFacts
  <2>3. \A j \in DOMAIN saves : saves'[j].phase = "committed" => saves[j].phase = "committed"
    BY <1>3, <1>5, AccFacts
  <2>4. \A j \in DOMAIN saves : saves[j].phase = "committed" =>
          saves'[j].phase = "committed" \/ Account!Touched(saves[j].input) \subseteq doubtful'
    BY <1>1, <1>5, <1>6
  <2> QED
    BY <1>0, <1>1, <1>5, <2>1, <2>2, <2>3, <2>4, AccKeepStep
<1>10. AccShownInv'
  BY <1>1 DEF AccShownInv
<1> QED
  BY <1>7, <1>8, <1>9, <1>10 DEF AccInv

LEMMA AccStep == AccInv /\ [Account!Next]_accountVars => AccInv'
<1> SUFFICES ASSUME AccInv, [Account!Next]_accountVars PROVE AccInv'
  OBVIOUS
<1>1. CASE Account!User
  BY <1>1, AccMeStep, AccAskStep DEF Account!User
<1>2. CASE Account!Backend
  BY <1>2, AccMeStep, AccLoadStep, AccCommitStep DEF Account!Backend
<1>3. CASE Account!Answers
  BY <1>3, AccMeStep, AccSavedStep DEF Account!Answers
<1>4. CASE Account!LoseMe \/ \E i \in DOMAIN saves : Account!LoseSave(i)
  BY <1>4, AccLoseMeStep, AccLoseSaveStep
<1>5. CASE UNCHANGED accountVars
  <2>1. UNCHANGED <<user, me, profile, profileError, dialogOpen, form, saves, savedFields, doubtful, misled, saveFaults>>
    BY <1>5 DEF accountVars
  <2>2. AccShownInv'
    BY <2>1 DEF AccInv, AccShownInv
  <2> QED
    BY <2>1, <2>2, AccPageStep DEF AccInv, AccTypeInv
<1> QED
  BY <1>1, <1>2, <1>3, <1>4, <1>5 DEF Account!Next

-----------------------------------------------------------------------------
(* The library of the web client                                           *)

LibPage ==
  [items : Library!SeqOf(Notes, Limit), version : [Notes -> 0..MaxVersion], hasMore : BOOLEAN,
   at : SUBSET Notes, early : SUBSET Notes]

LibBefore(times, n, m) == times[n] > times[m] \/ (times[n] = times[m] /\ n > m)

\* A page lists notes of the library in order, none as it was before the save the
\* user was told of, unless it was read before the commit of that save, and has
\* more only after its last note.
LibPageOk(p, times, told) ==
  /\ p \in LibPage
  /\ \A n \in p.at : times[n] > 0
  /\ \A n \in Library!ToSet(p.items) : n \in p.at /\ (n \in p.early \/ p.version[n] >= told[n])
  /\ \A a, b \in DOMAIN p.items : a < b => LibBefore(times, p.items[a], p.items[b])
  /\ p.hasMore => p.items # <<>>

\* Pages follow each other, and those up to one of them leave out no note that
\* was in the library at each of their reads and is not below their end.
LibPagesOk(ps, times, told) ==
  /\ ps \in Seq(LibPage)
  /\ \A i \in DOMAIN ps : LibPageOk(ps[i], times, told)
  /\ \A i, k \in DOMAIN ps : i < k =>
       /\ ps[i].hasMore
       /\ \A n \in Library!ToSet(ps[k].items) : LibBefore(times, Library!Last(ps[i].items), n)
  /\ \A k \in DOMAIN ps : \A n \in Notes :
       /\ \A i \in 1..k : n \in ps[i].at
       /\ ps[k].hasMore => ~LibBefore(times, Library!Last(ps[k].items), n)
       => \E i \in 1..k : n \in Library!ToSet(ps[i].items)

LibTypeInv ==
  /\ archivedAt \in [Notes -> 0..MaxTime] /\ discarded \subseteq Notes
  /\ version \in [Notes -> 0..MaxVersion] /\ savedVersion \in [Notes -> 0..MaxVersion]
  /\ libraryError \in BOOLEAN
  /\ editing \in [Notes -> {"none", "sent", "written", "answered", "committed"}]
  /\ \A n \in Notes :
       /\ editing[n] # "none" => data # <<>>
       /\ editing[n] \in {"sent", "written", "answered"} => version[n] < MaxVersion
       /\ savedVersion[n] <= IF editing[n] = "answered" THEN version[n] + 1 ELSE version[n]

\* A fetch: what it has read so far, and what is on its way.
LibFetchOk(f, times, told) ==
  /\ f \in [kind : {"next", "all"}, pages : Seq(LibPage), want : Nat, answer : Seq(LibPage)]
  /\ f.pages # <<>> => Library!Last(f.pages).hasMore
  /\ LibPagesOk(f.pages, times, told)
  /\ \/ f.answer = <<>>
     \/ \E p \in LibPage : f.answer = <<p>> /\ LibPagesOk(Append(f.pages, p), times, told)

LibFetchInv ==
  IF pageFetch = Library!NoFetch THEN data # <<>> \/ libraryError
                                 ELSE LibFetchOk(pageFetch, archivedAt, savedVersion)

LibInv == LibTypeInv /\ LibPagesOk(data, archivedAt, savedVersion) /\ LibFetchInv

LEMMA LibOrder ==
  ASSUME NEW times \in [Notes -> Nat], NEW n \in Notes, NEW m \in Notes, NEW k \in Notes
  PROVE  /\ ~LibBefore(times, n, n)
         /\ LibBefore(times, n, m) /\ LibBefore(times, m, k) => LibBefore(times, n, k)
         /\ n # m => LibBefore(times, n, m) \/ LibBefore(times, m, n)
         /\ LibBefore(times, n, m) => ~LibBefore(times, m, n)
<1>1. n \in Nat /\ m \in Nat /\ k \in Nat
  BY ClientPagesAssumption
<1> QED
  BY <1>1 DEF LibBefore

\* A finite set of notes can be put in order: the place of a note is one more
\* than the number of notes before it.
LEMMA LibSortExists ==
  ASSUME NEW times \in [Notes -> Nat], NEW S \in SUBSET Notes
  PROVE  /\ Cardinality(S) \in Nat
         /\ \E s \in [1..Cardinality(S) -> S] :
              \A i, j \in DOMAIN s : i < j => LibBefore(times, s[i], s[j])
<1> DEFINE c == Cardinality(S)
           below(n) == {m \in S : LibBefore(times, m, n)}
           place == [n \in S |-> Cardinality(below(n)) + 1]
<1>1. IsFiniteSet(S) /\ c \in Nat
  BY ClientPagesAssumption, FS_Subset, FS_CardinalityType
<1>2. ASSUME NEW n \in S
      PROVE  IsFiniteSet(below(n)) /\ Cardinality(below(n)) \in Nat /\ Cardinality(below(n)) < c
  <2>1. below(n) \in SUBSET S /\ n \notin below(n)
    BY LibOrder
  <2>2. IsFiniteSet(below(n)) /\ Cardinality(below(n)) <= c /\ (c = Cardinality(below(n)) => S = below(n))
    BY <1>1, <2>1, FS_Subset
  <2>3. Cardinality(below(n)) \in Nat
    BY <2>2, FS_CardinalityType
  <2> HIDE DEF below, c
  <2> QED
    BY <1>1, <2>1, <2>2, <2>3
<1>3. ASSUME NEW n \in S, NEW m \in S, LibBefore(times, m, n)
      PROVE  Cardinality(below(m)) < Cardinality(below(n))
  <2>1. below(m) \in SUBSET below(n) /\ m \in below(n) /\ m \notin below(m)
    BY <1>3, LibOrder
  <2>2. Cardinality(below(m)) <= Cardinality(below(n)) /\ (Cardinality(below(n)) = Cardinality(below(m)) => below(n) = below(m))
    BY <1>2, <2>1, FS_Subset
  <2> HIDE DEF below, c
  <2> QED
    BY <1>2, <2>1, <2>2
<1>4. place \in [S -> 1..c]
  <2> HIDE DEF below, c
  <2> QED
    BY <1>1, <1>2
<1>5. \A n, m \in S : LibBefore(times, m, n) => place[m] < place[n]
  <2> HIDE DEF below, c
  <2> QED
    BY <1>2, <1>3
<1> HIDE DEF place, below, c
<1>6. \A n, m \in S : place[n] = place[m] => n = m
  <2> SUFFICES ASSUME NEW n \in S, NEW m \in S, place[n] = place[m], n # m PROVE FALSE
    OBVIOUS
  <2>1. LibBefore(times, n, m) \/ LibBefore(times, m, n)
    BY LibOrder
  <2>2. place[n] \in Nat /\ place[m] \in Nat
    BY <1>1, <1>4
  <2> QED
    BY <1>5, <2>1, <2>2
<1>7. place \in Injection(S, 1..c)
  BY <1>4, <1>6 DEF Injection, IsInjective
<1>8. IsFiniteSet(1..c) /\ Cardinality(1..c) = c
  BY <1>1, FS_Interval
<1>9. place \in Surjection(S, 1..c)
  BY <1>1, <1>7, <1>8, FS_Injection DEF c
<1>10. \A i \in 1..c : \E n \in S : place[n] = i
  BY <1>9 DEF Surjection
<1> DEFINE s == [i \in 1..c |-> CHOOSE n \in S : place[n] = i]
<1>11. \A i \in 1..c : s[i] \in S /\ place[s[i]] = i
  BY <1>10
<1>12. s \in [1..c -> S]
  BY <1>11
<1>13. ASSUME NEW i \in 1..c, NEW j \in 1..c, i < j
       PROVE  LibBefore(times, s[i], s[j])
  <2> HIDE DEF s
  <2>1. s[i] \in S /\ s[j] \in S /\ place[s[i]] = i /\ place[s[j]] = j /\ i \in Nat /\ j \in Nat
    BY <1>1, <1>11
  <2>2. ~LibBefore(times, s[j], s[i]) /\ s[i] # s[j]
    BY <1>5, <1>13, <2>1
  <2> QED
    BY <2>1, <2>2, LibOrder
<1> HIDE DEF s
<1> QED
  BY <1>1, <1>12, <1>13 DEF c

\* What the server sorts is all of it, in order.
LEMMA LibSorted ==
  ASSUME archivedAt \in [Notes -> Nat], NEW S \in SUBSET Notes, NEW s, s = Library!Sorted(S)
  PROVE  /\ s \in Seq(S) /\ DOMAIN s = 1..Len(s)
         /\ \A i, j \in DOMAIN s : i < j => LibBefore(archivedAt, s[i], s[j])
         /\ \A n \in S : \E i \in DOMAIN s : s[i] = n
<1> DEFINE c == Cardinality(S)
<1>1. c \in Nat /\ \E t \in [1..c -> S] : \A i, j \in DOMAIN t : i < j => LibBefore(archivedAt, t[i], t[j])
  BY LibSortExists
<1>2. Library!Cardinality(S) = c
  BY DEF Library!Cardinality, Cardinality
<1>3. s = CHOOSE t \in [1..c -> S] : \A i, j \in DOMAIN t : i < j => LibBefore(archivedAt, t[i], t[j])
  <2> HIDE DEF c
  <2> QED
    BY <1>2 DEF Library!Sorted, Library!Before, LibBefore
<1> HIDE DEF c
<1>4. s \in [1..c -> S] /\ \A i, j \in DOMAIN s : i < j => LibBefore(archivedAt, s[i], s[j])
  BY <1>1, <1>3
<1>5. \A i, j \in 1..c : s[i] = s[j] => i = j
  <2> SUFFICES ASSUME NEW i \in 1..c, NEW j \in 1..c, s[i] = s[j], i < j PROVE FALSE
    BY <1>1
  <2>1. s[i] \in Notes /\ LibBefore(archivedAt, s[i], s[j])
    BY <1>4
  <2> QED
    BY <2>1, LibOrder
<1>6. s \in Injection(1..c, S)
  BY <1>4, <1>5 DEF Injection, IsInjective
<1>7. IsFiniteSet(S) /\ Cardinality(1..c) = c
  <2>1. IsFiniteSet(S)
    BY ClientPagesAssumption, FS_Subset
  <2>2. Cardinality(1..c) = c
    BY <1>1, FS_Interval
  <2> QED
    BY <2>1, <2>2
<1>8. s \in Surjection(1..c, S)
  BY <1>6, <1>7, FS_Injection DEF c
<1>9. \A n \in S : \E i \in 1..c : s[i] = n
  BY <1>8 DEF Surjection
<1> QED
  BY <1>1, <1>4, <1>9

\* The first of a sorted sequence.
LibFirst(s) == IF Len(s) > Limit THEN SubSeq(s, 1, Limit) ELSE s

LEMMA LibCut ==
  ASSUME NEW times \in [Notes -> Nat], NEW S \in SUBSET Notes, NEW s \in Seq(S),
         \A i, j \in DOMAIN s : i < j => LibBefore(times, s[i], s[j]),
         \A n \in S : \E i \in DOMAIN s : s[i] = n,
         NEW t, t = LibFirst(s)
  PROVE  /\ t \in Library!SeqOf(Notes, Limit) /\ Library!ToSet(t) \subseteq S
         /\ \A i, j \in DOMAIN t : i < j => LibBefore(times, t[i], t[j])
         /\ Len(s) > Limit => t # <<>>
         /\ \A n \in S : (Len(s) > Limit => ~LibBefore(times, Library!Last(t), n)) => n \in Library!ToSet(t)
<1>1. Limit \in Nat \ {0} /\ Len(s) \in Nat /\ DOMAIN s = 1..Len(s) /\ s \in [1..Len(s) -> S]
  BY ClientPagesAssumption
<1>2. PICK k \in 0..Limit :
        /\ t \in [1..k -> S] /\ Len(t) = k /\ k <= Len(s) /\ (\A i \in 1..k : t[i] = s[i])
        /\ Len(s) > Limit => k = Limit
        /\ Len(s) <= Limit => k = Len(s)
  <2>1. CASE Len(s) > Limit
    <3>1. t = SubSeq(s, 1, Limit)
      BY <2>1 DEF LibFirst
    <3>2. t = [i \in 1..Limit |-> s[i]]
      BY <1>1, <2>1, <3>1
    <3>3. t \in [1..Limit -> S] /\ Len(t) = Limit /\ \A i \in 1..Limit : t[i] = s[i]
      <4>1. \A i \in 1..Limit : i \in 1..Len(s)
        BY <1>1, <2>1
      <4>2. t \in [1..Limit -> S] /\ \A i \in 1..Limit : t[i] = s[i]
        BY <1>1, <3>2, <4>1
      <4>3. t \in Seq(S) /\ Len(t) = Limit
        BY <1>1, <4>2
      <4> QED
        BY <4>2, <4>3
    <3> QED
      BY <1>1, <2>1, <3>3
  <2>2. CASE ~(Len(s) > Limit)
    <3>1. t = s
      BY <2>2 DEF LibFirst
    <3> QED
      BY <1>1, <2>2, <3>1
  <2> QED
    BY <2>1, <2>2
<1>3. k \in Nat /\ DOMAIN t = 1..k /\ \A i \in 1..k : i \in DOMAIN s /\ i \in Nat
  BY <1>1, <1>2
<1>4. t \in Library!SeqOf(Notes, Limit)
  <2>1. t \in [1..k -> Notes]
    BY <1>2
  <2> QED
    BY <2>1 DEF Library!SeqOf
<1>5. Library!ToSet(t) \subseteq S
  BY <1>2, <1>3 DEF Library!ToSet
<1>6. \A i, j \in DOMAIN t : i < j => LibBefore(times, t[i], t[j])
  BY <1>2, <1>3
<1>7. Len(s) > Limit => t # <<>>
  <2> SUFFICES ASSUME Len(s) > Limit PROVE t # <<>>
    OBVIOUS
  <2>1. Len(t) = Limit
    BY <1>2
  <2>2. t = <<>> => Len(t) = 0
    OBVIOUS
  <2> QED
    BY <1>1, <2>1, <2>2
<1>8. ASSUME NEW n \in S, Len(s) > Limit => ~LibBefore(times, Library!Last(t), n)
      PROVE  n \in Library!ToSet(t)
  <2>1. PICK i \in DOMAIN s : s[i] = n
    OBVIOUS
  <2>2. CASE i \in 1..k
    BY <1>2, <1>3, <2>1, <2>2 DEF Library!ToSet
  <2>3. CASE i \notin 1..k
    <3>1. Len(s) > Limit /\ k = Limit /\ k \in 1..k /\ k < i /\ k \in DOMAIN s
      BY <1>1, <1>2, <1>3, <2>1, <2>3
    <3>2. Library!Last(t) = s[k]
      BY <1>2, <3>1 DEF Library!Last
    <3> QED
      BY <1>8, <2>1, <3>1, <3>2
  <2> QED
    BY <2>2, <2>3
<1> QED
  BY <1>4, <1>5, <1>6, <1>7, <1>8

\* A page of the server: the first of the notes after the cursor.
LEMMA LibServerPage ==
  ASSUME LibTypeInv, NEW candidates \in SUBSET Library!InLibrary, NEW p, p = Library!PageOf(candidates)
  PROVE  /\ LibPageOk(p, archivedAt, savedVersion) /\ p.at = Library!InLibrary
         /\ \A n \in Library!ToSet(p.items) : n \in candidates
         /\ \A n \in candidates :
              (p.hasMore => ~LibBefore(archivedAt, Library!Last(p.items), n)) => n \in Library!ToSet(p.items)
<1>1. /\ archivedAt \in [Notes -> Nat] /\ candidates \in SUBSET Notes /\ Library!InLibrary \in SUBSET Notes
      /\ MaxVersion \in Nat /\ \A n \in Library!InLibrary : archivedAt[n] > 0
  BY ClientPagesAssumption DEF LibTypeInv, Library!InLibrary
<1>2. PICK s : s = Library!Sorted(candidates)
  OBVIOUS
<1>3. /\ s \in Seq(candidates)
      /\ \A i, j \in DOMAIN s : i < j => LibBefore(archivedAt, s[i], s[j])
      /\ \A n \in candidates : \E i \in DOMAIN s : s[i] = n
  BY <1>1, <1>2, LibSorted
<1>4. PICK t : t = LibFirst(s)
  OBVIOUS
<1>5. /\ t \in Library!SeqOf(Notes, Limit) /\ Library!ToSet(t) \subseteq candidates
      /\ \A i, j \in DOMAIN t : i < j => LibBefore(archivedAt, t[i], t[j])
      /\ Len(s) > Limit => t # <<>>
      /\ \A n \in candidates :
           (Len(s) > Limit => ~LibBefore(archivedAt, Library!Last(t), n)) => n \in Library!ToSet(t)
  BY <1>1, <1>3, <1>4, LibCut
<1>6. PICK v, e : /\ v = [n \in Notes |-> IF n \in Library!ToSet(t) THEN version[n] ELSE 0]
                  /\ e = {n \in Library!ToSet(t) : editing[n] = "answered"}
  OBVIOUS
<1>7. /\ v \in [Notes -> 0..MaxVersion]
      /\ e \in SUBSET Notes
      /\ \A n \in Library!ToSet(t) : n \in Notes /\ (n \in e \/ v[n] >= savedVersion[n])
  BY <1>1, <1>5, <1>6 DEF LibTypeInv
<1> DEFINE r == [items |-> t, version |-> v, hasMore |-> (Len(s) > Limit), at |-> Library!InLibrary, early |-> e]
<1>8. p = r
  BY <1>2, <1>4, <1>6 DEF Library!PageOf, LibFirst
<1>9. r \in LibPage
  BY <1>1, <1>5, <1>7 DEF LibPage
<1>10. r.items = t /\ r.version = v /\ r.at = Library!InLibrary /\ r.early = e
  OBVIOUS
<1>11. r.hasMore <=> Len(s) > Limit
  BY Zenon
<1> HIDE DEF r
<1>12. \A n \in Library!ToSet(t) : n \in Library!InLibrary
  BY <1>5
<1>13. LibPageOk(r, archivedAt, savedVersion)
  BY <1>1, <1>5, <1>7, <1>9, <1>10, <1>11, <1>12 DEF LibPageOk
<1> QED
  BY <1>5, <1>8, <1>10, <1>11, <1>13

\* The last note of a page that has more.
LEMMA LibEnd ==
  ASSUME NEW times, NEW told, NEW p, LibPageOk(p, times, told), p.items # <<>>
  PROVE  Library!Last(p.items) \in Library!ToSet(p.items) /\ Library!ToSet(p.items) \subseteq Notes
<1>1. PICK k \in 0..Limit : p.items \in [1..k -> Notes]
  BY DEF LibPageOk, LibPage, Library!SeqOf
<1>2. k \in Nat /\ k # 0 /\ Len(p.items) = k
  <2>1. Limit \in Nat
    BY ClientPagesAssumption
  <2>2. k \in Nat /\ p.items \in Seq(Notes) /\ Len(p.items) = k
    BY <1>1, <2>1
  <2>3. k # 0
    BY <2>2
  <2> QED
    BY <2>2, <2>3
<1>3. k \in 1..k
  BY <1>2
<1> QED
  BY <1>1, <1>2, <1>3 DEF Library!Last, Library!ToSet

\* The next page, read from the end of the pages before it.
LEMMA LibAppend ==
  ASSUME LibTypeInv, NEW ps, LibPagesOk(ps, archivedAt, savedVersion),
         ps # <<>> => Library!Last(ps).hasMore,
         NEW p, p = Library!PageOf(IF ps = <<>> THEN Library!InLibrary
                                   ELSE Library!After(Library!Last(Library!Last(ps).items)))
  PROVE  LibPagesOk(Append(ps, p), archivedAt, savedVersion)
<1> DEFINE qs == Append(ps, p)
           n0 == Len(ps)
           cursor == Library!Last(Library!Last(ps).items)
           candidates == IF ps = <<>> THEN Library!InLibrary ELSE Library!After(cursor)
<1>1. /\ archivedAt \in [Notes -> Nat] /\ Library!InLibrary \in SUBSET Notes
      /\ candidates \in SUBSET Library!InLibrary
  BY ClientPagesAssumption DEF LibTypeInv, Library!InLibrary, Library!After
<1>2. /\ LibPageOk(p, archivedAt, savedVersion) /\ p.at = Library!InLibrary
      /\ \A n \in Library!ToSet(p.items) : n \in candidates
      /\ \A n \in candidates :
           (p.hasMore => ~LibBefore(archivedAt, Library!Last(p.items), n)) => n \in Library!ToSet(p.items)
  BY <1>1, LibServerPage
<1>3. /\ ps \in Seq(LibPage) /\ p \in LibPage
  BY <1>2 DEF LibPagesOk, LibPageOk
<1>4. /\ qs \in Seq(LibPage) /\ n0 \in Nat /\ DOMAIN ps = 1..n0 /\ DOMAIN qs = 1..(n0 + 1)
      /\ qs[n0 + 1] = p /\ \A i \in 1..n0 : qs[i] = ps[i]
  BY <1>3
<1>5. n0 > 0 => ps # <<>> /\ Library!Last(ps) = ps[n0] /\ n0 \in 1..n0
  BY <1>3, <1>4 DEF Library!Last
<1> HIDE DEF qs, n0
<1>6. \A i \in DOMAIN qs : LibPageOk(qs[i], archivedAt, savedVersion)
  BY <1>2, <1>4 DEF LibPagesOk
<1>7. ASSUME n0 > 0
      PROVE  /\ ps[n0].hasMore /\ cursor = Library!Last(ps[n0].items) /\ candidates = Library!After(cursor)
             /\ cursor \in Library!ToSet(ps[n0].items) /\ cursor \in Notes
             /\ \A n \in Library!InLibrary : n \in candidates <=> LibBefore(archivedAt, cursor, n)
  <2>1. ps[n0].hasMore /\ cursor = Library!Last(ps[n0].items) /\ candidates = Library!After(cursor)
    BY <1>5, <1>7
  <2>2. LibPageOk(ps[n0], archivedAt, savedVersion) /\ ps[n0].items # <<>>
    BY <1>4, <1>5, <1>7, <2>1 DEF LibPagesOk, LibPageOk
  <2> QED
    BY <2>1, <2>2, LibEnd DEF Library!After, Library!Before, LibBefore
<1> HIDE DEF cursor, candidates
<1>8. ASSUME NEW i \in DOMAIN qs, NEW k \in DOMAIN qs, i < k
      PROVE  /\ qs[i].hasMore
             /\ \A n \in Library!ToSet(qs[k].items) : LibBefore(archivedAt, Library!Last(qs[i].items), n)
  <2>1. CASE k <= n0
    <3>1. i \in DOMAIN ps /\ k \in DOMAIN ps /\ qs[i] = ps[i] /\ qs[k] = ps[k]
      BY <1>4, <1>8, <2>1
    <3> QED
      BY <1>8, <3>1 DEF LibPagesOk
  <2>2. CASE k = n0 + 1
    <3>1. n0 > 0 /\ i \in 1..n0 /\ qs[i] = ps[i] /\ qs[k] = p
      BY <1>4, <1>8, <2>2
    <3>2. i < n0 => ps[i].hasMore /\ LibBefore(archivedAt, Library!Last(ps[i].items), cursor)
      BY <1>4, <1>7, <3>1 DEF LibPagesOk
    <3>3. \A n \in Library!ToSet(p.items) : n \in Notes /\ LibBefore(archivedAt, cursor, n)
      BY <1>1, <1>2, <1>7, <3>1
    <3>4. CASE i = n0
      <4>1. qs[i] = ps[n0] /\ qs[k] = p
        BY <3>1, <3>4
      <4>2. qs[i].hasMore
        BY <1>7, <3>1, <4>1
      <4>3. Library!Last(qs[i].items) = cursor
        BY <1>7, <3>1, <4>1
      <4> QED
        BY <3>3, <4>1, <4>2, <4>3
    <3>5. CASE i # n0
      <4>1. i < n0 /\ n0 \in DOMAIN ps /\ i \in DOMAIN ps
        BY <1>4, <3>1, <3>5
      <4>2. LibPageOk(ps[i], archivedAt, savedVersion) /\ ps[i].items # <<>>
        BY <3>2, <4>1 DEF LibPagesOk, LibPageOk
      <4>3. Library!Last(ps[i].items) \in Notes
        BY <4>2, LibEnd
      <4> QED
        BY <1>1, <1>7, <3>1, <3>2, <3>3, <4>1, <4>3, LibOrder
    <3> QED
      BY <3>4, <3>5
  <2> QED
    BY <1>4, <2>1, <2>2
<1>9. ASSUME NEW k \in DOMAIN qs, NEW n \in Notes, \A i \in 1..k : n \in qs[i].at,
             qs[k].hasMore => ~LibBefore(archivedAt, Library!Last(qs[k].items), n)
      PROVE  \E i \in 1..k : n \in Library!ToSet(qs[i].items)
  <2>1. CASE k <= n0
    <3>1. k \in DOMAIN ps /\ \A i \in 1..k : qs[i] = ps[i]
      BY <1>4, <2>1
    <3> QED
      BY <1>4, <1>9, <3>1 DEF LibPagesOk
  <2>2. CASE k = n0 + 1
    <3>1. k \in 1..k /\ qs[k] = p /\ n \in Library!InLibrary
      BY <1>2, <1>4, <1>9, <2>2
    <3>2. n \in candidates => n \in Library!ToSet(p.items)
      BY <1>2, <1>9, <3>1
    <3>3. CASE n0 = 0
      <4>1. ps = <<>>
        BY <1>3, <3>3 DEF n0
      <4> QED
        BY <3>1, <3>2, <4>1 DEF candidates
    <3>4. CASE n0 > 0 /\ n \notin candidates
      <4>1. ~LibBefore(archivedAt, Library!Last(ps[n0].items), n) /\ n0 \in DOMAIN ps
        BY <1>4, <1>7, <3>1, <3>4
      <4>2. \A i \in 1..n0 : i \in 1..k /\ qs[i] = ps[i] /\ n \in ps[i].at
        BY <1>4, <1>9, <2>2
      <4>3. \E i \in 1..n0 : n \in Library!ToSet(ps[i].items)
        BY <4>1, <4>2 DEF LibPagesOk
      <4> QED
        BY <4>2, <4>3
    <3> QED
      BY <1>4, <3>1, <3>2, <3>3, <3>4
  <2> QED
    BY <1>4, <2>1, <2>2
<1> QED
  BY <1>4, <1>6, <1>8, <1>9 DEF LibPagesOk, qs

-----------------------------------------------------------------------------
\* Pages stay as good as they were: when other notes are archived ...
LEMMA LibArchived ==
  ASSUME NEW times, NEW later, NEW told, NEW ps, LibPagesOk(ps, times, told),
         \A n \in Notes : times[n] > 0 => later[n] = times[n]
  PROVE  LibPagesOk(ps, later, told)
<1>0. ps \in Seq(LibPage)
  BY DEF LibPagesOk
<1>1. ASSUME NEW i \in DOMAIN ps
      PROVE  /\ LibPageOk(ps[i], times, told) /\ ps[i] \in LibPage /\ ps[i].at \in SUBSET Notes
             /\ \A n \in ps[i].at : n \in Notes /\ times[n] > 0 /\ later[n] = times[n]
             /\ \A n \in Library!ToSet(ps[i].items) : n \in ps[i].at
             /\ ps[i].hasMore => Library!Last(ps[i].items) \in ps[i].at
  <2>1. LibPageOk(ps[i], times, told)
    BY DEF LibPagesOk
  <2>2. ps[i] \in LibPage /\ ps[i].at \in SUBSET Notes
    BY <2>1 DEF LibPageOk, LibPage
  <2>3. \A n \in ps[i].at : n \in Notes /\ times[n] > 0 /\ later[n] = times[n]
    BY <2>1, <2>2 DEF LibPageOk
  <2>4. \A n \in Library!ToSet(ps[i].items) : n \in ps[i].at
    BY <2>1 DEF LibPageOk
  <2>5. ps[i].hasMore => Library!Last(ps[i].items) \in ps[i].at
    BY <2>1, <2>4, LibEnd DEF LibPageOk
  <2> QED
    BY <2>1, <2>2, <2>3, <2>4, <2>5
<1>2. ASSUME NEW i \in DOMAIN ps, NEW k \in DOMAIN ps, NEW n \in ps[i].at, NEW m \in ps[k].at
      PROVE  LibBefore(times, n, m) <=> LibBefore(later, n, m)
  BY <1>1 DEF LibBefore
<1>3. ASSUME NEW i \in DOMAIN ps
      PROVE  LibPageOk(ps[i], later, told)
  <2>1. \A a, b \in DOMAIN ps[i].items : a < b => LibBefore(later, ps[i].items[a], ps[i].items[b])
    <3>1. \A a \in DOMAIN ps[i].items : ps[i].items[a] \in ps[i].at
      BY <1>1 DEF Library!ToSet
    <3> QED
      BY <1>1, <1>2, <3>1 DEF LibPageOk
  <2> QED
    BY <1>1, <2>1 DEF LibPageOk
<1>4. ASSUME NEW i \in DOMAIN ps, NEW k \in DOMAIN ps, i < k
      PROVE  /\ ps[i].hasMore
             /\ \A n \in Library!ToSet(ps[k].items) : LibBefore(later, Library!Last(ps[i].items), n)
  <2>1. ps[i].hasMore
    BY <1>4 DEF LibPagesOk
  <2>2. ASSUME NEW n \in Library!ToSet(ps[k].items)
        PROVE  LibBefore(later, Library!Last(ps[i].items), n)
    <3>1. LibBefore(times, Library!Last(ps[i].items), n)
      BY <1>4 DEF LibPagesOk
    <3> QED
      BY <1>1, <1>2, <2>1, <3>1
  <2> QED
    BY <2>1, <2>2
<1>5. ASSUME NEW k \in DOMAIN ps, NEW n \in Notes, \A i \in 1..k : n \in ps[i].at,
             ps[k].hasMore => ~LibBefore(later, Library!Last(ps[k].items), n)
      PROVE  \E i \in 1..k : n \in Library!ToSet(ps[i].items)
  <2>1. k \in 1..k
    BY <1>0
  <2>2. ps[k].hasMore => ~LibBefore(times, Library!Last(ps[k].items), n)
    BY <1>1, <1>2, <1>5, <2>1
  <2> QED
    BY <1>5, <2>2 DEF LibPagesOk
<1> QED
  BY <1>0, <1>3, <1>4, <1>5 DEF LibPagesOk

\* ... and when versions of their notes are replaced.
LibSameNotes(ps, qs, heard) ==
  /\ qs \in Seq(LibPage) /\ DOMAIN qs = DOMAIN ps
  /\ \A i \in DOMAIN ps : /\ qs[i].items = ps[i].items /\ qs[i].at = ps[i].at
                           /\ qs[i].hasMore = ps[i].hasMore
                           /\ \A n \in Library!ToSet(ps[i].items) : n \in qs[i].early \/ qs[i].version[n] >= heard[n]

LEMMA LibPatched ==
  ASSUME NEW times, NEW told, NEW heard, NEW ps, LibPagesOk(ps, times, told),
         NEW qs, LibSameNotes(ps, qs, heard)
  PROVE  LibPagesOk(qs, times, heard)
<1> USE DEF LibSameNotes
<1>0. \A i \in DOMAIN ps : qs[i] \in LibPage /\ LibPageOk(ps[i], times, told)
  BY DEF LibPagesOk
<1>1. \A i \in DOMAIN ps : LibPageOk(qs[i], times, heard)
  BY <1>0 DEF LibPageOk
<1>2. ASSUME NEW i \in DOMAIN ps, NEW k \in DOMAIN ps, i < k
      PROVE  /\ qs[i].hasMore
             /\ \A n \in Library!ToSet(qs[k].items) : LibBefore(times, Library!Last(qs[i].items), n)
  BY <1>2 DEF LibPagesOk
<1>3. ASSUME NEW k \in DOMAIN ps, NEW n \in Notes, \A i \in 1..k : n \in qs[i].at,
             qs[k].hasMore => ~LibBefore(times, Library!Last(qs[k].items), n)
      PROVE  \E i \in 1..k : n \in Library!ToSet(qs[i].items)
  <2>1. ps \in Seq(LibPage) /\ DOMAIN ps = 1..Len(ps) /\ Len(ps) \in Nat
    BY DEF LibPagesOk
  <2>2. \A i \in 1..k : i \in DOMAIN ps
    BY <2>1
  <2>3. \A i \in 1..k : n \in ps[i].at
    BY <1>3, <2>2
  <2>4. ps[k].hasMore => ~LibBefore(times, Library!Last(ps[k].items), n)
    BY <1>3
  <2>5. \E i \in 1..k : n \in Library!ToSet(ps[i].items)
    BY <2>3, <2>4 DEF LibPagesOk
  <2> QED
    BY <2>2, <2>5
<1> QED
  BY <1>1, <1>2, <1>3 DEF LibPagesOk

LEMMA LibNoPages == \A times, told : LibPagesOk(<<>>, times, told)
  BY DEF LibPagesOk

\* A fetch that begins, or goes on.
LEMMA LibAsk ==
  ASSUME NEW times, NEW told, NEW kind \in {"next", "all"}, NEW want \in Nat,
         NEW ps, LibPagesOk(ps, times, told), ps # <<>> => Library!Last(ps).hasMore,
         NEW f, f = Library!Fetch(kind, ps, want)
  PROVE  LibFetchOk(f, times, told) /\ f # Library!NoFetch
<1>1. ps \in Seq(LibPage) /\ <<>> \in Seq(LibPage)
  BY DEF LibPagesOk
<1>2. f.kind = kind /\ f.pages = ps /\ f.want = want /\ f.answer = <<>>
  BY DEF Library!Fetch
<1>3. f \in [kind : {"next", "all"}, pages : Seq(LibPage), want : Nat, answer : Seq(LibPage)]
  BY <1>1 DEF Library!Fetch
<1>4. Library!NoFetch.kind = "none"
  BY DEF Library!NoFetch, Library!Fetch
<1> QED
  BY <1>2, <1>3, <1>4 DEF LibFetchOk

LEMMA LibReadAgain ==
  ASSUME LibInv
  PROVE  LibFetchOk(Library!ReadAgain, archivedAt, savedVersion) /\ Library!ReadAgain # Library!NoFetch
<1>1. CASE data = <<>> /\ pageFetch # Library!NoFetch
  BY <1>1 DEF LibInv, LibFetchInv, Library!ReadAgain
<1>2. CASE ~(data = <<>> /\ pageFetch # Library!NoFetch)
  <2>1. PICK w \in Nat : Library!ReadAgain = Library!Fetch("all", <<>>, w)
    <3>1. data \in Seq(LibPage) /\ Len(data) \in Nat
      BY DEF LibInv, LibPagesOk
    <3> QED
      BY <1>2, <3>1 DEF Library!ReadAgain
  <2> QED
    BY <2>1, LibAsk, LibNoPages
<1> QED
  BY <1>1, <1>2

LEMMA LibInit == Init => LibInv
<1> SUFFICES ASSUME Library!Init PROVE LibInv
  BY DEF Init
<1>1. LibTypeInv
  <2>1. MaxTime \in Nat \ {0} /\ MaxVersion \in Nat
    BY ClientPagesAssumption
  <2>2. archivedAt \in [Notes -> 0..MaxTime]
    BY <2>1 DEF Library!Init
  <2>3. version \in [Notes -> 0..MaxVersion] /\ savedVersion = version
    BY <2>1 DEF Library!Init
  <2>4. \A n \in Notes : savedVersion[n] <= version[n] /\ editing[n] = "none"
    BY <2>1, <2>3 DEF Library!Init, Library!NoSave
  <2> QED
    BY <2>2, <2>3, <2>4 DEF Library!Init, Library!NoSave, LibTypeInv
<1>2. data = <<>> /\ LibPagesOk(data, archivedAt, savedVersion)
  BY LibNoPages DEF Library!Init
<1>3. LibFetchOk(pageFetch, archivedAt, savedVersion) /\ pageFetch # Library!NoFetch
  BY <1>2, LibAsk DEF Library!Init
<1> QED
  BY <1>1, <1>2, <1>3 DEF LibInv, LibFetchInv

\* What the backend does with notes that no page asks for.
LEMMA LibServerStep ==
  ASSUME LibInv, Library!Server
  PROVE  LibInv'
<1>1. LibTypeInv /\ LibPagesOk(data, archivedAt, savedVersion) /\ LibFetchInv
  BY DEF LibInv
<1>2. /\ archivedAt' \in [Notes -> 0..MaxTime] /\ discarded' \subseteq Notes
      /\ \A n \in Notes : archivedAt[n] > 0 => archivedAt'[n] = archivedAt[n]
      /\ UNCHANGED <<version, editing, data, pageFetch, libraryError, savedVersion>>
  <2>1. archivedAt \in [Notes -> 0..MaxTime] /\ discarded \subseteq Notes /\ MaxTime \in Nat
    BY <1>1, ClientPagesAssumption DEF LibTypeInv
  <2>2. ASSUME NEW n \in Notes, NEW t \in 1..MaxTime, archivedAt[n] = 0, archivedAt' = [archivedAt EXCEPT ![n] = t]
        PROVE  archivedAt' \in [Notes -> 0..MaxTime] /\ \A m \in Notes : archivedAt[m] > 0 => archivedAt'[m] = archivedAt[m]
    BY <2>1, <2>2
  <2>3. CASE \E n \in Notes : Library!Archive(n)
    BY <2>1, <2>2, <2>3 DEF Library!Archive
  <2>4. CASE \E n \in Notes : Library!Discard(n)
    BY <2>1, <2>4 DEF Library!Discard
  <2> QED
    BY <2>3, <2>4 DEF Library!Server
<1>3. LibTypeInv'
  BY <1>1, <1>2 DEF LibTypeInv
<1>4. \A ps : LibPagesOk(ps, archivedAt, savedVersion) => LibPagesOk(ps, archivedAt', savedVersion)
  BY <1>2, LibArchived
<1>5. LibPagesOk(data', archivedAt', savedVersion')
  BY <1>1, <1>2, <1>4
<1>6. LibFetchInv'
  <2>1. \A f : LibFetchOk(f, archivedAt, savedVersion) => LibFetchOk(f, archivedAt', savedVersion)
    BY <1>4 DEF LibFetchOk
  <2> QED
    BY <1>1, <1>2, <2>1 DEF LibFetchInv
<1> QED
  BY <1>3, <1>5, <1>6 DEF LibInv

\* What changes the fetch alone.
LEMMA LibAskStep ==
  ASSUME LibInv, UNCHANGED <<archivedAt, discarded, version, editing, data, savedVersion>>, libraryError' \in BOOLEAN,
         IF pageFetch' = Library!NoFetch THEN data # <<>> \/ libraryError'
                                         ELSE LibFetchOk(pageFetch', archivedAt, savedVersion)
  PROVE  LibInv'
<1>1. LibTypeInv'
  BY DEF LibInv, LibTypeInv
<1>2. LibFetchInv'
  BY DEF LibFetchInv
<1>3. LibPagesOk(data', archivedAt', savedVersion')
  BY DEF LibInv
<1> QED
  BY <1>1, <1>2, <1>3 DEF LibInv

LEMMA LibUserStep ==
  ASSUME LibInv, Library!LoadMore \/ Library!Retry \/ Library!Refocus \/ Library!HandleLoss
  PROVE  LibInv'
<1>1. LibTypeInv /\ LibPagesOk(data, archivedAt, savedVersion) /\ data \in Seq(LibPage)
  BY DEF LibInv, LibPagesOk
<1>2. CASE Library!LoadMore
  <2>1. /\ pageFetch' = Library!Fetch("next", data, Len(data) + 1) /\ Library!Last(data).hasMore
        /\ UNCHANGED <<archivedAt, discarded, version, editing, data, libraryError, savedVersion>>
    BY <1>2 DEF Library!LoadMore, Library!HasMore
  <2>2. Len(data) + 1 \in Nat
    BY <1>1
  <2>3. LibFetchOk(pageFetch', archivedAt, savedVersion) /\ pageFetch' # Library!NoFetch
    BY <1>1, <2>1, <2>2, LibAsk
  <2> QED
    BY <1>1, <2>1, <2>3, LibAskStep DEF LibTypeInv
<1>3. CASE Library!Retry \/ Library!Refocus
  <2>1. /\ pageFetch' = Library!ReadAgain
        /\ UNCHANGED <<archivedAt, discarded, version, editing, data, libraryError, savedVersion>>
    BY <1>3 DEF Library!Retry, Library!Refocus
  <2>2. LibFetchOk(pageFetch', archivedAt, savedVersion) /\ pageFetch' # Library!NoFetch
    BY <2>1, LibReadAgain
  <2> QED
    BY <1>1, <2>1, <2>2, LibAskStep DEF LibTypeInv
<1>4. CASE Library!HandleLoss
  BY <1>4, LibAskStep DEF Library!HandleLoss
<1> QED
  BY <1>2, <1>3, <1>4

\* The next page is read at the backend.
LEMMA LibReadStep ==
  ASSUME LibInv, Library!ServerPage
  PROVE  LibInv'
<1> DEFINE ps == pageFetch.pages
           p == Library!PageOf(IF ps = <<>> THEN Library!InLibrary
                               ELSE Library!After(Library!Last(Library!Last(ps).items)))
<1>1. /\ LibTypeInv /\ LibFetchOk(pageFetch, archivedAt, savedVersion) /\ pageFetch # Library!NoFetch
      /\ pageFetch' = [pageFetch EXCEPT !.answer = <<p>>]
      /\ UNCHANGED <<archivedAt, discarded, version, editing, data, libraryError, savedVersion>>
  BY DEF Library!ServerPage, LibInv, LibFetchInv
<1>2. LibPagesOk(Append(ps, p), archivedAt, savedVersion)
  BY <1>1, LibAppend DEF LibFetchOk
<1>3. p \in LibPage
  <2>1. ps \in Seq(LibPage)
    BY <1>1 DEF LibFetchOk
  <2>2. Append(ps, p) \in Seq(LibPage) /\ Len(ps) + 1 \in DOMAIN Append(ps, p) /\ Append(ps, p)[Len(ps) + 1] = p
    <3> HIDE DEF p, ps
    <3>1. DOMAIN Append(ps, p) = 1..(Len(ps) + 1) /\ Append(ps, p)[Len(ps) + 1] = p /\ Len(ps) \in Nat
      BY <2>1
    <3> QED
      BY <1>2, <3>1 DEF LibPagesOk
  <2> HIDE DEF p, ps
  <2> QED
    BY <2>2
<1> HIDE DEF p
<1>4. /\ pageFetch'.kind = pageFetch.kind /\ pageFetch'.pages = ps /\ pageFetch'.want = pageFetch.want
      /\ pageFetch'.answer = <<p>>
      /\ pageFetch' \in [kind : {"next", "all"}, pages : Seq(LibPage), want : Nat, answer : Seq(LibPage)]
  <2>1. <<p>> \in Seq(LibPage)
    BY <1>3
  <2>2. pageFetch \in [kind : {"next", "all"}, pages : Seq(LibPage), want : Nat, answer : Seq(LibPage)]
    BY <1>1 DEF LibFetchOk
  <2>3. pageFetch' = [pageFetch EXCEPT !.answer = <<p>>]
    BY <1>1
  <2> QED
    BY <2>1, <2>2, <2>3
<1>5. LibFetchOk(pageFetch', archivedAt, savedVersion)
  BY <1>1, <1>2, <1>3, <1>4 DEF LibFetchOk
<1>6. pageFetch' # Library!NoFetch
  BY <1>4 DEF Library!NoFetch, Library!Fetch
<1> QED
  BY <1>1, <1>5, <1>6, LibAskStep DEF LibTypeInv

\* ... and its answer comes.
LEMMA LibHandleStep ==
  ASSUME LibInv, Library!HandlePage
  PROVE  LibInv'
<1> DEFINE pages == pageFetch.pages \o pageFetch.answer
<1>1. /\ LibTypeInv /\ pageFetch.answer # <<>>
      /\ UNCHANGED <<archivedAt, discarded, version, editing, savedVersion>>
      /\ IF Len(pages) < pageFetch.want /\ Library!Last(pages).hasMore
         THEN pageFetch' = Library!Fetch(pageFetch.kind, pages, pageFetch.want) /\ UNCHANGED <<data, libraryError>>
         ELSE pageFetch' = Library!NoFetch /\ data' = pages /\ libraryError' = FALSE
  BY DEF Library!HandlePage, LibInv
<1>2. LibFetchOk(pageFetch, archivedAt, savedVersion)
  <2>1. Library!NoFetch.answer = <<>>
    BY DEF Library!NoFetch, Library!Fetch
  <2> QED
    BY <1>1, <2>1 DEF LibInv, LibFetchInv
<1>3. PICK p \in LibPage : pageFetch.answer = <<p>> /\ LibPagesOk(Append(pageFetch.pages, p), archivedAt, savedVersion)
  BY <1>1, <1>2 DEF LibFetchOk
<1>4. pageFetch.pages \in Seq(LibPage) /\ pageFetch.kind \in {"next", "all"} /\ pageFetch.want \in Nat
  BY <1>2 DEF LibFetchOk
<1>5. pages = Append(pageFetch.pages, p) /\ pages # <<>>
  BY <1>3, <1>4
<1> HIDE DEF pages
<1>6. LibPagesOk(pages, archivedAt, savedVersion)
  BY <1>3, <1>5
<1>7. CASE Len(pages) < pageFetch.want /\ Library!Last(pages).hasMore
  <2>1. LibFetchOk(pageFetch', archivedAt, savedVersion) /\ pageFetch' # Library!NoFetch
    BY <1>1, <1>4, <1>6, <1>7, LibAsk
  <2> QED
    BY <1>1, <1>7, <2>1, LibAskStep DEF LibTypeInv
<1>8. CASE ~(Len(pages) < pageFetch.want /\ Library!Last(pages).hasMore)
  <2>1. pageFetch' = Library!NoFetch /\ data' = pages /\ libraryError' = FALSE
    BY <1>1, <1>8
  <2>2. LibTypeInv'
    BY <1>1, <1>5, <2>1 DEF LibTypeInv
  <2>3. LibFetchInv'
    BY <1>5, <2>1 DEF LibFetchInv
  <2> QED
    BY <1>1, <1>6, <2>1, <2>2, <2>3 DEF LibInv
<1> QED
  BY <1>7, <1>8

\* An edit begins, is written and is committed; what the user was told does not change.
LEMMA LibEditStep ==
  ASSUME LibInv,
         NEW n \in Notes, Library!StartEdit(n) \/ Library!UpdateItem(n) \/ Library!CommitEdit(n)
  PROVE  LibInv'
<1>1. /\ LibTypeInv /\ MaxVersion \in Nat
      /\ UNCHANGED <<archivedAt, discarded, data, pageFetch, libraryError, savedVersion>>
  BY ClientPagesAssumption DEF LibInv, Library!StartEdit, Library!UpdateItem, Library!CommitEdit
<1>2. LibTypeInv'
  <2>1. CASE Library!StartEdit(n)
    <3>1. version[n] < MaxVersion /\ n \in Library!Shown /\ UNCHANGED version /\ editing' = [editing EXCEPT ![n] = "sent"]
          /\ editing[n] = "none"
      BY <2>1 DEF Library!StartEdit
    <3>2. data # <<>>
      BY <3>1 DEF Library!Shown
    <3> QED
      BY <1>1, <3>1, <3>2 DEF LibTypeInv
  <2>2. CASE Library!UpdateItem(n)
    BY <1>1, <2>2 DEF LibTypeInv, Library!UpdateItem
  <2>3. CASE Library!CommitEdit(n)
    <3>1. /\ editing[n] \in {"written", "answered"}
          /\ version' = [version EXCEPT ![n] = @ + 1]
          /\ editing' = [editing EXCEPT ![n] = IF @ = "written" THEN "committed" ELSE "none"]
      BY <2>3 DEF Library!CommitEdit, Library!Uncommitted
    <3>2. version[n] < MaxVersion /\ savedVersion[n] \in 0..MaxVersion /\ savedVersion[n] <= version[n] + 1
      BY <1>1, <3>1 DEF LibTypeInv
    <3> QED
      BY <1>1, <3>1, <3>2 DEF LibTypeInv
  <2> QED
    BY <2>1, <2>2, <2>3
<1>3. LibFetchInv' /\ LibPagesOk(data', archivedAt', savedVersion')
  BY <1>1 DEF LibInv, LibFetchInv
<1> QED
  BY <1>2, <1>3 DEF LibInv

\* The answer to a save: the note is replaced on the pages, and they are read again.
LEMMA LibSavedStep ==
  ASSUME LibInv, NEW n \in Notes, Library!SaveAnswered(n)
  PROVE  LibInv'
<1> DEFINE v == Library!Written(n)
<1>1. /\ LibTypeInv /\ LibPagesOk(data, archivedAt, savedVersion) /\ data \in Seq(LibPage)
      /\ editing[n] \in {"written", "committed"} /\ savedVersion' = [savedVersion EXCEPT ![n] = v]
      /\ data' = Library!Replaced(n) /\ pageFetch' = Library!ReadAgain
      /\ editing' = [editing EXCEPT ![n] = IF @ = "written" THEN "answered" ELSE "none"]
      /\ UNCHANGED <<archivedAt, discarded, version, libraryError>>
  BY DEF LibInv, LibPagesOk, Library!SaveAnswered
<1>2. /\ data # <<>> /\ v \in 0..MaxVersion
      /\ editing[n] = "committed" => v = version[n]
  BY <1>1, ClientPagesAssumption DEF LibTypeInv, Library!Written
<1> DEFINE patched(i) == IF n \in Library!ToSet(data[i].items)
                         THEN [data[i] EXCEPT !.version[n] = v, !.early = @ \ {n}] ELSE data[i]
<1>patch. data' = [i \in DOMAIN data |-> patched(i)]
  BY <1>1, Zenon DEF Library!Replaced
<1> HIDE DEF v
<1> HIDE DEF patched
<1>pages. DOMAIN data' = DOMAIN data /\ \A i \in DOMAIN data : data'[i] = patched(i)
  BY <1>patch
<1>3. LibTypeInv'
  <2>1. data' # <<>>
    BY <1>1, <1>2, <1>pages
  <2>2. /\ savedVersion' \in [Notes -> 0..MaxVersion]
        /\ editing' \in [Notes -> {"none", "sent", "written", "answered", "committed"}]
    BY <1>1, <1>2 DEF LibTypeInv
  <2>3. ASSUME NEW m \in Notes
        PROVE  /\ editing'[m] \in {"sent", "written", "answered"} => version[m] < MaxVersion
               /\ savedVersion'[m] <= IF editing'[m] = "answered" THEN version[m] + 1 ELSE version[m]
    <3>1. CASE m # n
      <4>1. savedVersion'[m] = savedVersion[m] /\ editing'[m] = editing[m]
        BY <1>1, <3>1 DEF LibTypeInv
      <4> QED
        BY <1>1, <4>1 DEF LibTypeInv
    <3>2. CASE m = n
      <4>1. savedVersion'[n] = v /\ editing'[n] = IF editing[n] = "written" THEN "answered" ELSE "none"
        BY <1>1 DEF LibTypeInv
      <4>2. version[n] \in Nat /\ (editing[n] = "written" => v = version[n] + 1 /\ version[n] < MaxVersion)
        BY <1>1, ClientPagesAssumption DEF LibTypeInv, Library!Written, v
      <4> QED
        BY <1>1, <1>2, <3>2, <4>1, <4>2
    <3> QED
      BY <3>1, <3>2
  <2> QED
    BY <1>1, <2>1, <2>2, <2>3 DEF LibTypeInv
<1>4. ASSUME NEW i \in DOMAIN data
      PROVE  /\ data'[i] \in LibPage /\ data'[i].items = data[i].items /\ data'[i].at = data[i].at
             /\ data'[i].hasMore = data[i].hasMore
             /\ \A m \in Library!ToSet(data[i].items) :
                  m \in data'[i].early \/ data'[i].version[m] >= savedVersion'[m]
  <2>1. data[i] \in LibPage /\ LibPageOk(data[i], archivedAt, savedVersion)
    BY <1>1 DEF LibPagesOk
  <2>2. data'[i] = patched(i)
    BY <1>pages
  <2>3. v \in 0..MaxVersion
    BY <1>2
  <2>4. \A m \in Library!ToSet(data[i].items) : m \in Notes
    BY <2>1 DEF LibPageOk, LibPage
  <2>5. savedVersion \in [Notes -> 0..MaxVersion]
    BY <1>1 DEF LibTypeInv
  <2>6. CASE n \in Library!ToSet(data[i].items)
    <3> DEFINE w == [data[i].version EXCEPT ![n] = v]
               e == data[i].early \ {n}
    <3>0. data'[i] = [data[i] EXCEPT !.version[n] = v, !.early = @ \ {n}]
      BY <2>2, <2>6 DEF patched
    <3>1. data'[i] = [data[i] EXCEPT !.version = w, !.early = e]
      BY <2>1, <3>0 DEF LibPage
    <3>4. w \in [Notes -> 0..MaxVersion] /\ e \in SUBSET Notes
      BY <2>1, <2>3 DEF LibPage
    <3>2. /\ data'[i] \in LibPage /\ data'[i].items = data[i].items /\ data'[i].at = data[i].at
          /\ data'[i].hasMore = data[i].hasMore /\ data'[i].version = [data[i].version EXCEPT ![n] = v]
          /\ data'[i].early = data[i].early \ {n}
      <4> HIDE DEF w, e
      <4>1. /\ data'[i] \in LibPage /\ data'[i].items = data[i].items /\ data'[i].at = data[i].at
            /\ data'[i].hasMore = data[i].hasMore /\ data'[i].version = w /\ data'[i].early = e
        BY <2>1, <3>1, <3>4 DEF LibPage
      <4> QED
        BY <4>1 DEF w, e
    <3>3. \A m \in Library!ToSet(data[i].items) :
            m \in data'[i].early \/ data'[i].version[m] >= savedVersion'[m]
      <4>1. data[i].version \in [Notes -> 0..MaxVersion] /\ MaxVersion \in Nat
        BY <2>1, ClientPagesAssumption DEF LibPage
      <4> QED
        BY <1>1, <1>2, <2>1, <2>3, <2>4, <2>5, <3>2, <4>1 DEF LibPageOk
    <3> QED
      BY <3>2, <3>3
  <2>7. CASE n \notin Library!ToSet(data[i].items)
    <3>1. \A m \in Library!ToSet(data[i].items) : savedVersion'[m] = savedVersion[m]
      BY <1>1, <2>4, <2>5, <2>7
    <3>2. data'[i] = data[i]
      BY <2>2, <2>7 DEF patched
    <3> QED
      BY <2>1, <2>7, <3>1, <3>2 DEF LibPageOk
  <2> QED
    BY <2>6, <2>7
<1>5. DOMAIN data' = DOMAIN data /\ data' \in Seq(LibPage)
  <2>1. DOMAIN data' = DOMAIN data /\ data' = [i \in 1..Len(data) |-> data'[i]]
    <3>1. DOMAIN data = 1..Len(data)
      BY <1>1
    <3>2. data' = [i \in DOMAIN data |-> data'[i]]
      BY <1>patch, <1>pages
    <3> QED
      BY <1>pages, <3>1, <3>2
  <2>2. Len(data) \in Nat /\ DOMAIN data = 1..Len(data)
    BY <1>1
  <2>3. data' \in [1..Len(data) -> LibPage]
    BY <1>4, <2>1, <2>2
  <2> QED
    BY <2>1, <2>2, <2>3
<1>6. LibPagesOk(data', archivedAt, savedVersion')
  <2>1. LibSameNotes(data, data', savedVersion')
    BY <1>4, <1>5 DEF LibSameNotes
  <2> QED
    BY <1>1, <2>1, LibPatched
<1>7. /\ pageFetch' # Library!NoFetch
      /\ LibFetchOk(pageFetch', archivedAt, savedVersion')
  <2>1. PICK w \in Nat : pageFetch' = Library!Fetch("all", <<>>, w)
    <3>1. pageFetch' = Library!Fetch("all", <<>>, Len(data)) /\ Len(data) \in Nat
      BY <1>1, <1>2 DEF Library!ReadAgain
    <3> QED
      BY <3>1
  <2> QED
    BY <2>1, LibAsk, LibNoPages
<1> QED
  BY <1>1, <1>3, <1>6, <1>7 DEF LibInv, LibFetchInv

LEMMA LibStep == LibInv /\ [Library!Next]_libraryVars => LibInv'
<1> SUFFICES ASSUME LibInv, [Library!Next]_libraryVars PROVE LibInv'
  OBVIOUS
<1>1. CASE Library!Server
  BY <1>1, LibServerStep
<1>2. CASE Library!User
  BY <1>2, LibUserStep, LibEditStep DEF Library!User
<1>3. CASE Library!Progress
  BY <1>3, LibReadStep, LibHandleStep, LibUserStep DEF Library!Progress
<1>4. CASE \E n \in Notes : Library!Saving(n)
  BY <1>4, LibEditStep, LibSavedStep DEF Library!Saving
<1>5. CASE UNCHANGED libraryVars
  BY <1>5, LibAskStep DEF libraryVars, LibInv, LibFetchInv, LibTypeInv
<1> QED
  BY <1>1, <1>2, <1>3, <1>4, <1>5 DEF Library!Next

-----------------------------------------------------------------------------
(* The types                                                               *)

\* The picker keeps its types by itself.
LEMMA PickerTypes == Picker!TypeOK /\ [Picker!Next]_pickerVars => Picker!TypeOK'
<1> SUFFICES ASSUME Picker!TypeOK, [Picker!Next]_pickerVars PROVE Picker!TypeOK'
  OBVIOUS
<1> USE DEF Picker!TypeOK
<1>0. /\ TypedInSearch \subseteq Names /\ TypedInSearch \subseteq Picker!Queries /\ Picker!All \in Picker!Queries
      /\ \A q \in Picker!Queries : q = Picker!All \/ q \in TypedInSearch
  BY ClientPagesAssumption DEF Picker!Queries
<1>1. CASE UNCHANGED pickerVars
  BY <1>1 DEF pickerVars
<1>2. CASE Picker!Open \/ Picker!Close \/ Picker!Debounce
  BY <1>0, <1>2 DEF Picker!Open, Picker!Close, Picker!Debounce, Picker!Observe, Picker!cacheVars
<1>3. CASE \E q \in Picker!Queries : Picker!Type(q)
  BY <1>3 DEF Picker!Type, Picker!cacheVars
<1>4. ASSUME NEW seen \in SUBSET Names, NEW tags \in SUBSET Names, Picker!OnChange(seen, tags)
      PROVE  selectedTags' \subseteq Names
  BY <1>4 DEF Picker!OnChange, Picker!Difference
<1>5. CASE Picker!CreateTag
  <2>1. searchQuery \in TypedInSearch
    BY <1>0, <1>5 DEF Picker!CreateTag
  <2>2. [name |-> searchQuery, seen |-> selectedTags, phase |-> "sent"] \in Picker!Creation
    BY <2>1 DEF Picker!Creation
  <2> QED
    BY <1>5, <2>2 DEF Picker!CreateTag, Picker!pickerVars, Picker!cacheVars
<1>6. CASE \E n \in Names : Picker!ToggleTag(n) \/ Picker!RemoveTag(n)
  <2>1. selectedTags' \subseteq Names
    BY <1>4, <1>6 DEF Picker!ToggleTag, Picker!RemoveTag
  <2> QED
    BY <1>6, <2>1 DEF Picker!ToggleTag, Picker!RemoveTag, Picker!pickerVars, Picker!cacheVars
<1>7. CASE \E q \in Picker!Queries : Picker!Answer(q) \/ Picker!FailSearch(q)
  BY <1>7 DEF Picker!Answer, Picker!FailSearch, Picker!pickerVars
<1>8. CASE \E c \in creating : Picker!ServerCreate(c) \/ Picker!FailCreate(c) \/ Picker!CreateAnswered(c)
  <2> PICK c \in creating : Picker!ServerCreate(c) \/ Picker!FailCreate(c) \/ Picker!CreateAnswered(c)
    BY <1>8
  <2>1. /\ c \in Picker!Creation /\ c.name \in Names /\ c.seen \subseteq Names
        /\ \A p \in {"created", "failed"} : [c EXCEPT !.phase = p] \in Picker!Creation
    BY <1>0 DEF Picker!Creation
  <2>2. CASE Picker!ServerCreate(c)
    BY <2>1, <2>2 DEF Picker!ServerCreate, Picker!pickerVars, Picker!cacheVars
  <2>3. CASE Picker!FailCreate(c)
    BY <2>1, <2>3 DEF Picker!FailCreate, Picker!pickerVars, Picker!cacheVars
  <2>4. CASE Picker!CreateAnswered(c)
    <3>1. selectedTags' \subseteq Names
      BY <1>4, <2>1, <2>4 DEF Picker!CreateAnswered
    <3>2. stale' \subseteq Picker!Queries /\ tagSearches' \subseteq Picker!Queries
      BY <2>4 DEF Picker!CreateAnswered, Picker!Invalidate
    <3> QED
      BY <1>0, <2>4, <3>1, <3>2 DEF Picker!CreateAnswered
  <2> QED
    BY <2>2, <2>3, <2>4
<1> QED
  BY <1>1, <1>2, <1>3, <1>5, <1>6, <1>7, <1>8 DEF Picker!Next, Picker!User, Picker!Progress

\* What the tag page is besides its tables.
TagScreenInv ==
  /\ listing.phase \in {"idle", "sent", "read"}
  /\ tagPage \in {"skeleton", "error", "table"}
  /\ hasData \in BOOLEAN /\ createOpen \in BOOLEAN /\ tagsMisled \in BOOLEAN
  /\ tagFaults \in 0..MaxFaults

LEMMA TagScreenStep == TagScreenInv /\ [TagPage!Next]_tagPageVars => TagScreenInv'
<1> SUFFICES ASSUME TagScreenInv, [TagPage!Next]_tagPageVars PROVE TagScreenInv'
  OBVIOUS
<1> USE DEF TagScreenInv, TagPage!pageVars
<1>0. /\ TagPage!NotFetching.phase = "idle" /\ TagPage!Fetching.phase = "sent"
      /\ tagFaults < MaxFaults => tagFaults + 1 \in 0..MaxFaults
  BY TagListFacts, ClientPagesAssumption
<1>1. TagPage!AskList => listing'.phase = "sent" /\ tagPage' \in {"skeleton", "error", "table"}
  BY <1>0 DEF TagPage!AskList
<1>2. CASE UNCHANGED tagPageVars
  BY <1>2 DEF tagPageVars
<1>3. CASE TagPage!OpenCreate \/ TagPage!CloseCreate \/ TagPage!CloseRename \/ \E i \in TagPage!Ids : TagPage!OpenRename(i)
  BY <1>3 DEF TagPage!OpenCreate, TagPage!CloseCreate, TagPage!CloseRename, TagPage!OpenRename
<1>4. CASE TagPage!RetryList
  BY <1>1, <1>4 DEF TagPage!RetryList
<1>5. CASE \E name \in Names : TagPage!CreateTag(name) \/ TagPage!SubmitRename(name)
  BY <1>5 DEF TagPage!CreateTag, TagPage!SubmitRename
<1>6. CASE \E i \in TagPage!Ids : TagPage!DeleteTag(i) \/ \E color \in Colors : TagPage!PickColor(i, color)
  BY <1>6 DEF TagPage!DeleteTag, TagPage!PickColor
<1>7. ASSUME NEW r \in TagPage!Slots, TagPage!Progress(r) PROVE TagScreenInv'
  <2>1. CASE TagPage!HandleSuccess(r)
    BY <1>1, <2>1 DEF TagPage!HandleSuccess, TagPage!Refetch
  <2>2. CASE TagPage!HandleFailure(r)
    BY <2>2 DEF TagPage!HandleFailure
  <2>3. CASE TagPage!SendCreate(r) \/ TagPage!Load(r) \/ TagPage!Reread(r) \/ TagPage!Flush(r) \/ TagPage!Commit(r)
    BY <2>3 DEF TagPage!SendCreate, TagPage!Load, TagPage!Reread, TagPage!Flush, TagPage!Commit
  <2> QED
    BY <1>7, <2>1, <2>2, <2>3 DEF TagPage!Progress
<1>8. ASSUME NEW r \in TagPage!Slots, TagPage!LoseRequest(r) PROVE TagScreenInv'
  BY <1>0, <1>8 DEF TagPage!LoseRequest
<1>9. CASE TagPage!ReadList \/ TagPage!HandleList \/ TagPage!LoseList
  <2>1. CASE TagPage!ReadList
    BY <1>0, <2>1 DEF TagPage!ReadList
  <2>2. CASE TagPage!HandleList
    BY <1>0, <2>2 DEF TagPage!HandleList
  <2>3. CASE TagPage!LoseList
    BY <1>0, <2>3 DEF TagPage!LoseList
  <2> QED
    BY <1>9, <2>1, <2>2, <2>3
<1> QED
  BY <1>2, <1>3, <1>4, <1>5, <1>6, <1>7, <1>8, <1>9 DEF TagPage!Next, TagPage!User

\* What is under way on the mobile detail screen.
NoteFlowInv ==
  /\ detailItemId \in SomeNote /\ itemId \in SomeNote
  /\ item.status \in MobileNote!Statuses
  /\ \A n \in MobileNotes : stored[n].status \in MobileNote!Statuses
  /\ \A l \in loads : l.number \in 1..MaxLoads /\ l.seen \in MobileNote!Statuses \cup {"unread"}
  /\ begun.loads \in 0..MaxLoads
  /\ \/ isUpdating = TRUE /\ update.phase # "none" /\ update.kind # "none"
     \/ isUpdating = FALSE /\ update = MobileNote!NoUpdate

\* No user action of a note that is not being enriched has it enriched, a retry
\* apart.
LEMMA NoteStatuses ==
  ASSUME NEW s \in MobileNote!Statuses, NEW a \in {"edit", "confirm", "discard"}, MobileNote!CanTransition(s, a)
  PROVE  MobileNote!AllowedTransitions[s][a] \in MobileNote!Statuses
  BY DEF MobileNote!Statuses, MobileNote!ItemStatus, MobileNote!CanTransition, MobileNote!AllowedTransitions,
         MobileNote!NoActions

LEMMA NoteFlowStep ==
  NoteInv /\ NoteScreenInv /\ NoteFlowInv /\ [MobileNote!Next]_mobileNoteVars => NoteFlowInv'
<1> SUFFICES ASSUME NoteInv, NoteScreenInv, NoteFlowInv, [MobileNote!Next]_mobileNoteVars PROVE NoteFlowInv'
  OBVIOUS
<1> USE DEF NoteFlowInv, SomeNote, MobileNote!flagVars, MobileNote!serverVars, MobileNote!editVars
<1>0. /\ MobileNote!NoUpdate.phase = "none" /\ MobileNote!NoUpdate.kind = "none" /\ MaxLoads \in Nat
      /\ "ARCHIVED" \in MobileNote!Statuses /\ begun \in [{"loads", "updates"} -> Nat]
      /\ update \in [kind : UpdateKinds, note : SomeNote, sent : [MobileNote!Fields -> SomeNote],
                     phase : UpdatePhases, crossed : BOOLEAN]
      /\ update.phase # "none" => update.note \in MobileNotes
  BY ClientPagesAssumption DEF MobileNote!NoUpdate, MobileNote!Statuses, MobileNote!ItemStatus, NoteInv, NoteBeginInv,
     NoteUpdateInv
<1>1. CASE UNCHANGED mobileNoteVars
  BY <1>1 DEF mobileNoteVars
<1>2. ASSUME NEW n \in SomeNote, MobileNote!Load(n), detailItemId' \in SomeNote
      PROVE  NoteFlowInv'
  <2>1. begun'.loads = begun.loads + 1 /\ begun.loads + 1 \in 1..MaxLoads /\ loads' = loads \cup {[number |-> begun.loads + 1, note |-> n, seen |-> "unread"]}
    BY <1>0, <1>2 DEF MobileNote!Load
  <2>2. \A l \in loads' : l.number \in 1..MaxLoads /\ l.seen \in MobileNote!Statuses \cup {"unread"}
    BY <2>1
  <2> QED
    BY <1>0, <1>2, <2>1, <2>2 DEF MobileNote!Load
<1>3. CASE (\E n \in MobileNotes : MobileNote!Open(n)) \/ MobileNote!Retry
  BY <1>2, <1>3 DEF MobileNote!Open, MobileNote!Retry
<1>4. CASE MobileNote!Back
  BY <1>4 DEF MobileNote!Back
<1>5. MobileNote!Edit => NoteFlowInv'
  BY DEF MobileNote!Edit
<1>6. CASE \/ MobileNote!EditClicked \/ MobileNote!CancelEdit \/ (\E f \in MobileNote!Fields : MobileNote!Change(f))
           \/ MobileNote!OpenTagEditor \/ MobileNote!ChangeTagEditor \/ MobileNote!CloseTagEditor \/ MobileNote!SaveTagEditor
  BY <1>5, <1>6 DEF MobileNote!EditClicked, MobileNote!CancelEdit, MobileNote!Change, MobileNote!ShowItem,
     MobileNote!OpenTagEditor, MobileNote!ChangeTagEditor, MobileNote!CloseTagEditor, MobileNote!SaveTagEditor
<1>7. ASSUME NEW kind \in {"preUpdate", "confirm", "update", "discard"}, NEW texts, MobileNote!Begin(kind, texts)
      PROVE  NoteFlowInv'
  <2>1. update'.phase = "sent" /\ update'.kind = kind /\ isUpdating' = TRUE /\ begun'.loads = begun.loads
    BY <1>0, <1>7 DEF MobileNote!Begin, MobileNote!NoUpdate
  <2> QED
    BY <1>7, <2>1 DEF MobileNote!Begin
<1>8. CASE MobileNote!ConfirmChanges \/ MobileNote!DeleteConfirmed
  BY <1>7, <1>8 DEF MobileNote!ConfirmChanges, MobileNote!DeleteConfirmed
<1>9. ASSUME NEW l \in loads, MobileNote!ReadItem(l) \/ MobileNote!AnswerLoad(l) \/ MobileNote!LoseLoad(l)
      PROVE  NoteFlowInv'
  <2>1. l \in [number : Nat, note : MobileNotes, seen : MobileNote!ItemStatus \cup {"unread"}]
    BY DEF NoteInv, NoteLoadInv
  <2>2. CASE MobileNote!ReadItem(l)
    <3>1. loads' = (loads \ {l}) \cup {[l EXCEPT !.seen = stored[l.note].status]}
      BY <2>2 DEF MobileNote!ReadItem
    <3>2. \A m \in loads' : m.number \in 1..MaxLoads /\ m.seen \in MobileNote!Statuses \cup {"unread"}
      BY <2>1, <3>1
    <3> QED
      BY <2>2, <3>2 DEF MobileNote!ReadItem
  <2>3. CASE MobileNote!AnswerLoad(l)
    <3>1. item'.status = l.seen /\ l.seen \in MobileNote!Statuses
      BY <2>3 DEF MobileNote!AnswerLoad, MobileNote!ApplyItem
    <3>2. update'.phase = update.phase /\ update'.kind = update.kind
      BY <1>0, <2>3 DEF MobileNote!AnswerLoad
    <3>3. update = MobileNote!NoUpdate => update' = update
      BY <1>0, <2>3 DEF MobileNote!AnswerLoad, MobileNote!NoUpdate
    <3> QED
      BY <2>3, <3>1, <3>2, <3>3 DEF MobileNote!AnswerLoad
  <2>4. CASE MobileNote!LoseLoad(l)
    BY <2>4 DEF MobileNote!LoseLoad
  <2> QED
    BY <1>9, <2>2, <2>3, <2>4
<1>10. CASE MobileNote!UpdateItem
  <2>1. update.phase = "sent" /\ isUpdating = TRUE /\ update.kind # "none"
    BY <1>0, <1>10 DEF MobileNote!UpdateItem
  <2>2. MobileNote!ActionOf(update.kind) \in {"edit", "confirm", "discard"}
    BY <1>0, <2>1 DEF MobileNote!ActionOf, UpdateKinds
  <2> DEFINE n == update.note
             a == MobileNote!ActionOf(update.kind)
             s == stored[n].status
  <2>3. n \in MobileNotes /\ s \in MobileNote!Statuses /\ stored \in [MobileNotes -> [status : MobileNote!ItemStatus, texts : [MobileNote!Fields -> MobileNotes]]]
    BY <1>0, <2>1 DEF NoteInv, NoteStoredInv
  <2>4. update'.phase \in {"done", "refused"} /\ update'.kind = update.kind
    BY <1>0, <1>10 DEF MobileNote!UpdateItem
  <2>5. \A m \in MobileNotes : stored'[m].status \in MobileNote!Statuses
    <3>1. CASE MobileNote!CanTransition(s, a)
      <4>1. MobileNote!AllowedTransitions[s][a] \in MobileNote!Statuses
        BY <2>2, <2>3, <3>1, NoteStatuses
      <4>2. \A m \in MobileNotes : stored'[m].status = IF m = n THEN MobileNote!AllowedTransitions[s][a] ELSE stored[m].status
        BY <1>10, <2>3, <3>1 DEF MobileNote!UpdateItem
      <4> QED
        BY <4>1, <4>2
    <3>2. CASE ~MobileNote!CanTransition(s, a)
      BY <1>10, <3>2 DEF MobileNote!UpdateItem
    <3> QED
      BY <3>1, <3>2
  <2> QED
    BY <1>10, <2>1, <2>4, <2>5 DEF MobileNote!UpdateItem
<1>11. CASE MobileNote!LoseUpdate \/ MobileNote!ConfirmNow
  <2>1. isUpdating = TRUE /\ update'.phase \in {"refused", "sent"} /\ update'.kind # "none"
    BY <1>0, <1>11 DEF MobileNote!LoseUpdate, MobileNote!ConfirmNow
  <2> QED
    BY <1>11, <2>1 DEF MobileNote!LoseUpdate, MobileNote!ConfirmNow
<1>12. CASE MobileNote!UpdateDone \/ MobileNote!DeleteDone \/ MobileNote!UpdateFailed
  BY <1>0, <1>12 DEF MobileNote!UpdateDone, MobileNote!DeleteDone, MobileNote!UpdateFailed, MobileNote!ApplyItem
<1> QED
  BY <1>1, <1>3, <1>4, <1>6, <1>8, <1>9, <1>10, <1>11, <1>12 DEF MobileNote!Next

\* What is listed, sent and waited for in the mobile library.
ListSentInv == sent <= MaxRequests /\ items \in MobileList!AnyQuery /\ NoWord \notin searchJob

LEMMA ListSentStep == ListInv /\ ListSentInv /\ [MobileList!Next]_mobileListVars => ListSentInv'
<1> SUFFICES ASSUME ListInv, ListSentInv, [MobileList!Next]_mobileListVars PROVE ListSentInv'
  OBVIOUS
<1> USE DEF ListSentInv, MobileList!NoJob
<1>0. sent \in Nat /\ MaxRequests \in Nat /\ listRequests \subseteq [number : 1..sent, of : MobileList!AnyQuery]
  BY ClientPagesAssumption DEF ListInv, ListNumberInv
<1>1. CASE UNCHANGED mobileListVars
  BY <1>1 DEF mobileListVars
<1>2. \A q : MobileList!Send(q) => sent' <= MaxRequests
  BY <1>0 DEF MobileList!Send
<1>3. CASE \E q \in MobileList!AnyQuery : MobileList!QueryChanged(q)
  BY <1>2, <1>3 DEF MobileList!QueryChanged
<1>4. CASE MobileList!DelayEnds \/ MobileList!Retry
  BY <1>2, <1>4 DEF MobileList!DelayEnds, MobileList!Retry
<1>5. CASE \E r \in listRequests : MobileList!Succeed(r) \/ MobileList!Lose(r)
  BY <1>0, <1>5 DEF MobileList!Succeed, MobileList!Lose
<1> QED
  BY <1>1, <1>3, <1>4, <1>5 DEF MobileList!Next

TypesInv ==
  /\ route \in Routes
  /\ LibInv /\ AttachmentsInv /\ AccInv /\ TagInv /\ TagScreenInv /\ Picker!TypeOK /\ SearchInv
  /\ NoteInv /\ NoteScreenInv /\ NoteFlowInv /\ ListInv /\ ListSentInv

LEMMA TypesStart == Init => TypesInv
<1> SUFFICES ASSUME Init PROVE TypesInv
  OBVIOUS
<1>1. TagScreenInv
  <2>1. /\ listing = TagPage!Fetching /\ tagPage = "skeleton" /\ tagFaults = 0
        /\ hasData = FALSE /\ createOpen = FALSE /\ tagsMisled = FALSE
    BY DEF Init, TagPage!Init
  <2>2. MaxFaults \in Nat
    BY ClientPagesAssumption
  <2>3. listing.phase = "sent" /\ tagFaults \in 0..MaxFaults
    BY <2>1, <2>2, TagListFacts
  <2> QED
    BY <2>1, <2>3 DEF TagScreenInv
<1>2. Picker!TypeOK
  <2>1. Picker!Init
    BY DEF Init
  <2>2. cache \in [Picker!Queries -> (SUBSET Names) \cup {Picker!NoData}]
    BY <2>1 DEF Picker!Init
  <2> QED
    BY <2>1, <2>2 DEF Picker!Init, Picker!TypeOK, Picker!Queries
<1>3. NoteFlowInv
  BY ClientPagesAssumption DEF Init, MobileNote!Init, NoteFlowInv, SomeNote, MobileNote!NoItem, MobileNote!Statuses, MobileNote!ItemStatus
<1>4. ListSentInv
  BY ClientPagesAssumption DEF Init, MobileList!Init, ListSentInv, MobileList!AnyQuery, MobileList!NoJob
<1>5. NoteScreenInv
  BY DEF Init, MobileNote!Init, NoteScreenInv
<1> QED
  BY <1>1, <1>2, <1>3, <1>4, <1>5, LibInit, AttachmentsInit, AccInit, TagInit, SearchInit, NoteStart, ListStart
     DEF Init, TypesInv

LEMMA TypesStep == TypesInv /\ [Next]_vars => TypesInv'
  BY PageSteps, LibStep, AttachmentsStep, AccStep, TagStep, TagScreenStep, PickerTypes, SearchStep,
     NoteInductive, NoteScreenStep, NoteFlowStep, ListInductive, ListSentStep DEF TypesInv

LEMMA TypesImplied == TypesInv => TypeOK
<1> SUFFICES ASSUME TypesInv PROVE TypeOK
  OBVIOUS
<1>1. Library!TypeOK
  <2>1. LibTypeInv /\ LibPagesOk(data, archivedAt, savedVersion) /\ LibFetchInv
    BY DEF TypesInv, LibInv
  <2>2. \A i \in DOMAIN data : data[i] \in LibPage
    BY <2>1 DEF LibPagesOk, LibPageOk
  <2>3. pageFetch.kind \in {"none", "next", "all"} /\ (pageFetch.kind = "none" => data # <<>> \/ libraryError)
    BY <2>1 DEF LibFetchInv, LibFetchOk, Library!NoFetch, Library!Fetch
  <2> QED
    BY <2>1, <2>2, <2>3 DEF Library!TypeOK, LibTypeInv, LibPage
<1>2. Account!TypeOK
  <2>1. me.phase \in {"idle", "sent", "read"} /\ me.row \in Account!Row
    BY AccFacts DEF TypesInv, AccInv, AccTypeInv, Account!Idle, Account!Asked
  <2> QED
    BY <2>1 DEF TypesInv, AccInv, AccTypeInv, Account!TypeOK
<1>3. TagPage!TypeOK
  BY DEF TypesInv, TagInv, TagServerInv, TagTypeInv, TagShownInv, TagSubmitInv, TagScreenInv, TagPage!TypeOK
<1>4. MobileNote!TypeOK
  <2>1. /\ NoteItemInv /\ NoteInputInv /\ NoteLoadInv /\ NoteUpdateInv /\ NoteStoredInv /\ NoteFlowInv
    BY DEF TypesInv, NoteInv
  <2>2. isUpdating <=> update # MobileNote!NoUpdate
    BY <2>1 DEF NoteFlowInv, MobileNote!NoUpdate
  <2>3. loads \subseteq [number : 1..MaxLoads, note : MobileNotes, seen : MobileNote!Statuses \cup {"unread"}]
    BY <2>1 DEF NoteLoadInv, NoteFlowInv
  <2>4. stored \in [MobileNotes -> [status : MobileNote!Statuses, texts : [MobileNote!Fields -> MobileNotes]]]
    BY <2>1 DEF NoteStoredInv, NoteFlowInv
  <2>5. /\ {detailItemId, itemId, item.id} \subseteq MobileNotes \cup {NoNote} /\ item.status \in MobileNote!Statuses
        /\ inputs \in [MobileNote!Fields -> MobileNote!Input] /\ tagEditorTags \in MobileNote!Input
        /\ update.sent \in [MobileNote!Fields -> MobileNotes \cup {NoNote}]
    BY <2>1 DEF NoteItemInv, NoteInputInv, NoteUpdateInv, NoteFlowInv, SomeNote
  <2> QED
    BY <2>2, <2>3, <2>4, <2>5 DEF MobileNote!TypeOK
<1>5. MobileList!TypeOK
  <2>1. searchJob \in {MobileList!NoJob} \cup {{q} : q \in Words}
    BY DEF TypesInv, ListInv, ListJobInv, ListSentInv, MobileList!AnyQuery, MobileList!NoJob
  <2>2. listRequests \subseteq [number : 1..MaxRequests, of : MobileList!AnyQuery]
    BY ClientPagesAssumption DEF TypesInv, ListInv, ListNumberInv, ListSentInv
  <2> QED
    BY <2>1, <2>2 DEF TypesInv, ListInv, ListNumberInv, ListJobInv, ListSentInv, MobileList!TypeOK
<1> QED
  BY <1>1, <1>2, <1>3, <1>4, <1>5 DEF TypesInv, AttachmentsInv, SearchInv, TypeOK

-----------------------------------------------------------------------------
(* What the pages promise                                                  *)

\* Every page keeps to its types, and shows itself waiting exactly while it waits
\* (the search page, the dialog that renames a tag, the mobile detail screen).
THEOREM PagesTyped == Spec => []TypeOK
  BY TypesStart, TypesStep, TypesImplied, PTL DEF Spec

\* An address is kept for the attachment it leads to, however late it comes: a
\* tile, the lightbox and a preview never show another's file (fetchDownloadUrl,
\* AttachmentLightbox, handleDocumentPreview).
THEOREM AddressesLeadToTheirFile == Spec => []UrlsOfTheirFile
<1>1. AttachmentsInv => UrlsOfTheirFile
  BY UrlOfFile DEF AttachmentsInv, UrlsInv, UrlsOfTheirFile, Attachments!UrlsOfTheirFile
<1>2. AttachmentsInv /\ [Next]_vars => AttachmentsInv'
  BY AttachmentsStep, PageSteps
<1> QED
  BY <1>1, <1>2, AttachmentsInit, PTL DEF Spec

\* The results shown are those of the last search, in its mode, whatever the
\* user has typed since (handleSearch).
THEOREM LastSearchShown == Spec => []ResultsOfLastSearch
<1>1. SearchInv => ResultsOfLastSearch
  BY DEF SearchInv
<1>2. SearchInv /\ [Next]_vars => SearchInv'
  BY SearchStep, PageSteps
<1> QED
  BY <1>1, <1>2, SearchInit, PTL DEF Spec

\* At rest and without an error the notes listed by the mobile client are those
\* of the query, unless an older answer came last (LibraryViewModel).
THEOREM LastQueryListed == Spec => []ListedForTheQuery
<1>1. ListInv => ListedForTheQuery
  BY DEF ListInv, ListLastInv, ListedForTheQuery, MobileList!ListedForTheQuery
<1>2. Init => ListInv
  BY ListStart DEF Init
<1>3. ListInv /\ [Next]_vars => ListInv'
  BY ListInductive, PageSteps
<1> QED
  BY <1>1, <1>2, <1>3, PTL DEF Spec

\* A note is never given a text typed for another; its tags are, only if another
\* note was loaded between the two requests of its confirmation (DetailViewModel).
THEOREM OwnTexts == Spec => []TextsOfTheirNote
<1>1. NoteInv => TextsOfTheirNote
  BY DEF NoteInv, NoteStoredInv, TextsOfTheirNote
<1>2. Init => NoteInv /\ NoteScreenInv
  BY NoteStart DEF Init, MobileNote!Init, NoteScreenInv
<1>3. NoteInv /\ NoteScreenInv /\ [Next]_vars => NoteInv' /\ NoteScreenInv'
  BY NoteInductive, NoteScreenStep, PageSteps
<1> QED
  BY <1>1, <1>2, <1>3, PTL DEF Spec

\* However creations, renames and revivals of tags meet, no two tags of a user
\* have a name, deleted ones included: what is written was checked against the
\* index, and what another transaction has written is waited for
\* (idx_tags_user_name_lower).
THEOREM NamesAreUnique == Spec => []OneTagPerName
<1>1. TagInv => OneTagPerName
  BY DEF TagInv, TagServerInv
<1>2. TagInv /\ [Next]_vars => TagInv'
  BY TagStep, PageSteps
<1> QED
  BY <1>1, <1>2, TagInit, PTL DEF Spec

\* With nothing under way the table shows the tags of the server, unless the list
\* was read between an answer and its commit, or an answer was lost (useTags,
\* get_db_session).
THEOREM TableShowsTags == Spec => []OnlyEarlyReadsMislead
<1>1. TagInv => OnlyEarlyReadsMislead
  BY DEF TagInv, TagListInv, OnlyEarlyReadsMislead, TagPage!OnlyEarlyReadsMislead
<1>2. TagInv /\ [Next]_vars => TagInv'
  BY TagStep, PageSteps
<1> QED
  BY <1>1, <1>2, TagInit, PTL DEF Spec

\* An edit of a tag undoes another only if the other came between its two reads,
\* and a deleted tag comes back only by a creation (update_tag, update).
THEOREM EditsUndoOnlyUnseen == Spec => OnlyUnseenEditsAreUndone
<1>1. TagInv /\ [Next]_vars =>
        [\A i \in TagPage!Ids : tagRows[i].state # "absent" =>
           /\ \A c \in {"name", "color"} : tagRows'[i][c] # tagRows[i][c] =>
                \E r \in TagPage!Slots :
                  /\ changes[r].id = i /\ changes'[r] # changes[r]
                  /\ changes[r].kind = (IF c = "name" THEN "rename" ELSE "color")
                     \/ changes[r].before[c] # changes[r].again[c]
           /\ tagRows[i].state = "deleted" /\ tagRows'[i].state = "live" =>
                \E r \in TagPage!Slots : changes[r].kind = "create" /\ changes[r].id = i]_TagPage!vars
  BY TagUndoStep, PageSteps
<1>2. TagInv /\ [Next]_vars => TagInv'
  BY TagStep, PageSteps
<1> QED
  BY <1>1, <1>2, TagInit, PTL DEF Spec, OnlyUnseenEditsAreUndone, TagPage!OnlyUnseenEditsAreUndone

\* A step of the picker in the editor changes the choice of one tag, and none is
\* lost while a creation moves on.
LEMMA PickerChoice ==
  ASSUME Picker!TypeOK, [Picker!Next]_pickerVars, parent = "editor"
  PROVE  Picker!ChoiceStep \/ UNCHANGED Picker!vars
<1>1. ASSUME selectedTags' = selectedTags PROVE Picker!ChoiceStep
  BY <1>1, ClientPagesAssumption DEF Picker!ChoiceStep
<1>2. ASSUME NEW n \in Names, Picker!ToggleTag(n) \/ Picker!RemoveTag(n)
      PROVE  Picker!ChoiceStep
  <2>1. selectedTags' \ {n} = selectedTags \ {n}
    BY <1>2 DEF Picker!ToggleTag, Picker!RemoveTag, Picker!OnChange, Picker!Difference
  <2>2. creating' = creating
    BY <1>2 DEF Picker!ToggleTag, Picker!RemoveTag
  <2> QED
    BY <2>1, <2>2 DEF Picker!ChoiceStep
<1>3. ASSUME NEW c \in creating, Picker!CreateAnswered(c)
      PROVE  Picker!ChoiceStep
  <2>1. c.name \in Names
    BY ClientPagesAssumption DEF Picker!TypeOK, Picker!Creation
  <2>2. selectedTags' = selectedTags \cup ({c.name} \ c.seen)
    BY <1>3 DEF Picker!CreateAnswered, Picker!OnChange, Picker!Difference
  <2>3. selectedTags' \ {c.name} = selectedTags \ {c.name} /\ selectedTags \subseteq selectedTags'
    BY <2>2
  <2> QED
    BY <2>1, <2>3 DEF Picker!ChoiceStep
<1>4. CASE UNCHANGED pickerVars
  BY <1>4 DEF pickerVars, Picker!vars, Picker!pickerVars, Picker!cacheVars
<1>5. CASE Picker!Open \/ Picker!Close \/ Picker!CreateTag \/ Picker!Debounce
  BY <1>1, <1>5 DEF Picker!Open, Picker!Close, Picker!CreateTag, Picker!Debounce
<1>6. CASE \E q \in Picker!Queries : Picker!Type(q) \/ Picker!Answer(q) \/ Picker!FailSearch(q)
  BY <1>1, <1>6 DEF Picker!Type, Picker!Answer, Picker!FailSearch
<1>7. CASE \E c \in creating : Picker!ServerCreate(c) \/ Picker!FailCreate(c)
  BY <1>1, <1>7 DEF Picker!ServerCreate, Picker!FailCreate
<1> QED
  BY <1>2, <1>3, <1>4, <1>5, <1>6, <1>7 DEF Picker!Next, Picker!User, Picker!Progress

\* In the editor no answer to a creation takes back a tag picked or brings back
\* one removed while it was awaited, though it holds the selection from before
\* (handleCreateTag, handleTagChange).
THEOREM ChoicesKept == Spec => TagChoicesKept
<1>1. TypesInv /\ [Next]_vars => [parent = "editor" => Picker!ChoiceStep]_Picker!vars
  BY PickerChoice, PageSteps DEF TypesInv
<1> QED
  BY <1>1, TypesStart, TypesStep, PTL DEF Spec, TagChoicesKept, Picker!TagChoicesKept

\* A setting the user was told is saved is in the row, however many saves of
\* either card overlap; only the column of a save that was lost sight of, or that
\* changed between the two reads of another save, is in doubt.
THEOREM SettingsStaySaved == Spec => []SavedSettingsStay
<1>1. AccInv => SavedSettingsStay
  BY DEF AccInv
<1>2. AccInv /\ [Next]_vars => AccInv'
  BY AccStep, PageSteps
<1> QED
  BY <1>1, <1>2, AccInit, PTL DEF Spec

\* Once every save is answered and no read is under way, the cards show the row.
THEOREM CardsMatch == Spec => []CardsShowTheRow
<1>1. AccInv => CardsShowTheRow
  <2> SUFFICES ASSUME AccInv, Account!CardShown, me = Account!Idle, ~misled, \A i \in DOMAIN saves : ~Account!Pending(i)
               PROVE  profile = user
    BY DEF CardsShowTheRow, Account!CardsShowTheRow
  <2>1. profile # Account!NoProfile /\ ~profileError
    BY DEF Account!CardShown
  <2>2. \A i \in DOMAIN saves : saves[i].phase # "committed"
    BY DEF Account!Pending
  <2> QED
    BY <2>1, <2>2, AccFacts DEF AccInv, AccShownInv
<1>2. AccInv /\ [Next]_vars => AccInv'
  BY AccStep, PageSteps
<1> QED
  BY <1>1, <1>2, AccInit, PTL DEF Spec

\* However notes are archived and discarded between two reads, and whatever is
\* lost, the pages list the notes of the library in order, none twice, and leave
\* out none that was there throughout (get_archived_by_user, useLibrary).
THEOREM LibraryIsGapless == Spec => []PagesAreGapless
<1>1. LibInv => PagesAreGapless
  <2> SUFFICES ASSUME LibInv PROVE PagesAreGapless
    OBVIOUS
  <2>0. LibPagesOk(data, archivedAt, savedVersion) /\ data \in Seq(LibPage) /\ archivedAt \in [Notes -> Nat]
    BY ClientPagesAssumption DEF LibInv, LibPagesOk, LibTypeInv
  <2>1. ASSUME NEW i \in DOMAIN data
        PROVE  /\ LibPageOk(data[i], archivedAt, savedVersion)
               /\ \A a \in DOMAIN data[i].items :
                    data[i].items[a] \in Library!ToSet(data[i].items) /\ data[i].items # <<>>
    BY <2>0 DEF LibPagesOk, Library!ToSet
  <2>2. ASSUME NEW i \in DOMAIN data, NEW k \in DOMAIN data, i < k,
               NEW a \in DOMAIN data[i].items, NEW b \in DOMAIN data[k].items
        PROVE  LibBefore(archivedAt, data[i].items[a], data[k].items[b])
    <3> DEFINE end == Library!Last(data[i].items)
    <3>1. LibBefore(archivedAt, end, data[k].items[b])
      BY <2>0, <2>1, <2>2 DEF LibPagesOk
    <3>2. end = data[i].items[a] \/ LibBefore(archivedAt, data[i].items[a], end)
      <4>0. data[i].items \in Library!SeqOf(Notes, Limit)
        BY <2>1 DEF LibPageOk, LibPage
      <4>1. PICK n \in 0..Limit : data[i].items \in [1..n -> Notes]
        BY <4>0 DEF Library!SeqOf
      <4>2. n \in Nat /\ Len(data[i].items) = n /\ a \in 1..n /\ n \in 1..n
        <5>1. Limit \in Nat
          BY ClientPagesAssumption
        <5>2. n \in Nat /\ Len(data[i].items) = n /\ a \in 1..n
          BY <4>1, <5>1
        <5> QED
          BY <5>2
      <4>3. end = data[i].items[n] /\ DOMAIN data[i].items = 1..n
        BY <4>1, <4>2 DEF Library!Last
      <4>4. a < n \/ a = n
        BY <4>2
      <4> QED
        BY <2>1, <4>2, <4>3, <4>4 DEF LibPageOk
    <3>3. end \in Notes /\ data[i].items[a] \in Notes /\ data[k].items[b] \in Notes
      BY <2>1, LibEnd
    <3> HIDE DEF end
    <3> QED
      BY <2>0, <3>1, <3>2, <3>3, LibOrder
  <2>3. ASSUME NEW i \in DOMAIN data, NEW k \in DOMAIN data, NEW a \in DOMAIN data[i].items, NEW b \in DOMAIN data[k].items,
               i < k \/ (i = k /\ a < b)
        PROVE  Library!Before(data[i].items[a], data[k].items[b])
    <3>1. LibBefore(archivedAt, data[i].items[a], data[k].items[b])
      BY <2>1, <2>2, <2>3 DEF LibPageOk
    <3> QED
      BY <3>1 DEF LibBefore, Library!Before
  <2>4. ASSUME data # <<>>, NEW n \in Library!Steady, Library!Reached(n)
        PROVE  n \in Library!Shown
    <3> DEFINE k == Len(data)
    <3>1. k \in DOMAIN data /\ DOMAIN data = 1..k /\ Library!Last(data) = data[k]
      BY <2>0, <2>4 DEF Library!Last
    <3>2. n \in Notes /\ \A i \in 1..k : n \in data[i].at
      BY <3>1 DEF Library!Steady
    <3>3. data[k].hasMore => ~LibBefore(archivedAt, Library!Last(data[k].items), n)
      BY <2>4, <3>1 DEF Library!Reached, Library!HasMore, Library!Before, LibBefore
    <3> HIDE DEF k
    <3>4. \E i \in 1..k : n \in Library!ToSet(data[i].items)
      BY <2>0, <3>1, <3>2, <3>3 DEF LibPagesOk
    <3> QED
      BY <3>1, <3>4 DEF Library!Shown
  <2> QED
    BY <2>3, <2>4 DEF PagesAreGapless, Library!PagesAreGapless
<1>2. LibInv /\ [Next]_vars => LibInv'
  BY LibStep, PageSteps
<1> QED
  BY <1>1, <1>2, LibInit, PTL DEF Spec

\* The library lists a note older than the user was told is saved only where the
\* page was read between the answer to the save and its commit, whatever else was
\* being read when the save was answered (useEditorSave, updateItem, get_db_session).
THEOREM EarlyReadsAlone == Spec => []OnlyEarlyReadsHideSaves
<1>1. LibInv => OnlyEarlyReadsHideSaves
  BY DEF LibInv, LibPagesOk, LibPageOk, OnlyEarlyReadsHideSaves, Library!OnlyEarlyReadsHideSaves
<1>2. LibInv /\ [Next]_vars => LibInv'
  BY LibStep, PageSteps
<1> QED
  BY <1>1, <1>2, LibInit, PTL DEF Spec
=============================================================================
