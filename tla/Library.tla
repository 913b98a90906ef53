------------------------------- MODULE Library -------------------------------
(***************************************************************************)
(* The content browser and the viewer overlay (content_browser.rs,         *)
(* viewers.rs, files.rs, and their arms in main.rs).  Each request runs on *)
(* a thread of its own, so answers come in any order.                      *)
(*                                                                         *)
(* A search is on or off; titles, sizes and the text of documents are left *)
(* out.                                                                    *)
(***************************************************************************)
EXTENDS Naturals, Sequences, SequencesExt

CONSTANTS
  File,        \* handles, numbered in the order of their names
  KindOf,      \* the server's category of each file
  Matches,     \* files whose name has the searched text
  Nothing,     \* no viewer is open
  MaxRequests  \* bound: content requests and document fetches at a time

Category == {"image", "audio", "video", "report", "other"}
Filter   == {"all", "image", "audio", "video", "markdown", "pdf", "other"}

ASSUME LibraryAssumption ==
  /\ File \subseteq Nat /\ KindOf \in [File -> Category]
  /\ Matches \subseteq File /\ Nothing \notin File /\ MaxRequests \in Nat

VARIABLES
  filter, searching,  \* CONTENT_STATE
  files,              \* state.files
  contentError,       \* CONTENT_STATE.last_error is set
  requests,           \* hydrate_content threads: the query, and what it answered
  viewer, album,      \* VIEWER_STATE.open: the pane and the file in focus; the images
  cache, fetchError,  \* markdown_cache; VIEWER_STATE.last_error is set
  fetches,            \* fetch_markdown threads, how many of each document
  silenced            \* the open document failed, and another's answer wiped that away

browserVars == <<filter, searching, files, contentError, requests>>
viewerVars  == <<viewer, album, cache, fetchError, fetches, silenced>>
libraryVars == <<browserVars, viewerVars>>

Pane == {"image", "markdown", "audio", "video", "generic"}
Closed == [as |-> "closed", f |-> Nothing]

Query == [kind : Category \cup {"all"}, q : BOOLEAN]

LibraryTypeOK ==
  /\ filter \in Filter /\ searching \in BOOLEAN
  /\ files \subseteq File /\ contentError \in BOOLEAN
  /\ requests \in Seq(Query)
  /\ viewer \in [as : Pane, f : File] \cup {Closed} /\ album \subseteq File
  /\ cache \subseteq File /\ fetchError \in BOOLEAN
  /\ fetches \in [File -> 0..MaxRequests] /\ silenced \in BOOLEAN

-----------------------------------------------------------------------------
(* server_kind, project_row, allows *)

ServerKind == [all |-> "all", image |-> "image", audio |-> "audio", video |-> "video",
               markdown |-> "report", pdf |-> "other", other |-> "other"]

FileKind(f) == CASE KindOf[f] = "report" -> "markdown" [] OTHER -> KindOf[f]

Allows(f) == filter = "all" \/ FileKind(f) = filter

(* collect_rows: what the browser shows. *)
Shown == {f \in files : Allows(f) /\ (searching => f \in Matches)}

(* The server's answer to a query. *)
Answer(r) == {f \in File : r.kind \in {"all", KindOf[f]} /\ (r.q => f \in Matches)}

-----------------------------------------------------------------------------
(* The content browser *)

(* fire_content_hydrate *)
Fire(f, q) ==
  /\ Len(requests) < MaxRequests
  /\ requests' = Append(requests, [kind |-> ServerKind[f], q |-> q])

(* navigate_to_content, and the refresh button *)
OpenContent ==
  /\ Fire(filter, searching)
  /\ UNCHANGED <<filter, searching, files, contentError, viewerVars>>

SetFilter(f) ==
  /\ filter' = f /\ Fire(f, searching)
  /\ UNCHANGED <<searching, files, contentError, viewerVars>>

(* Nothing is asked: the rows that are there are searched. *)
SetSearch ==
  /\ searching' = ~searching
  /\ UNCHANGED <<filter, files, contentError, requests, viewerVars>>

(* ContentAction::Hydrated, Failed: any thread may be next. *)
ContentArrives == \E i \in DOMAIN requests :
  /\ requests' = RemoveAt(requests, i)
  /\ \/ files' = Answer(requests[i]) /\ contentError' = FALSE
     \/ contentError' = TRUE /\ UNCHANGED files
  /\ UNCHANGED <<filter, searching, viewerVars>>

-----------------------------------------------------------------------------
(* The viewers *)

(* viewer_for *)
PaneOf(f) == IF FileKind(f) = "other" THEN "generic" ELSE FileKind(f)

Images == {f \in files : FileKind(f) = "image"}

(* open_viewer_for *)
OpenViewer(f) ==
  /\ f \in Shown
  /\ viewer' = [as |-> PaneOf(f), f |-> f] /\ fetchError' = FALSE
  /\ album' = IF PaneOf(f) = "image" THEN Images ELSE {}
  /\ IF PaneOf(f) = "markdown" /\ f \notin cache
     THEN fetches[f] < MaxRequests /\ fetches' = [fetches EXCEPT ![f] = @ + 1]
     ELSE UNCHANGED fetches
  /\ silenced' = FALSE
  /\ UNCHANGED <<browserVars, cache>>

CloseViewer ==
  /\ viewer # Closed /\ viewer' = Closed /\ album' = {} /\ silenced' = FALSE
  /\ UNCHANGED <<browserVars, cache, fetchError, fetches>>

(* album_step, one way or the other *)
AlbumStep == \E f \in album :
  /\ viewer' = [viewer EXCEPT !.f = f]
  /\ \A g \in album : ~(g > viewer.f /\ g < f) /\ ~(g < viewer.f /\ g > f)
  /\ UNCHANGED <<browserVars, album, cache, fetchError, fetches, silenced>>

Waiting == viewer.as = "markdown" /\ viewer.f \notin cache

(* fetch_markdown ends, with a body ... *)
MarkdownLoaded(f) ==
  /\ fetches[f] > 0 /\ fetches' = [fetches EXCEPT ![f] = @ - 1]
  /\ cache' = cache \cup {f}
  /\ fetchError' = FALSE
  /\ silenced' = (\/ silenced
                  \/ Waiting /\ viewer.f # f /\ fetchError /\ fetches[viewer.f] = 0)
  /\ UNCHANGED <<browserVars, viewer, album>>

(* Mutant of MarkdownFailed: it is only logged. *)
MarkdownFailedOnly(f) ==
  /\ fetches[f] > 0 /\ fetches' = [fetches EXCEPT ![f] = @ - 1]
  /\ UNCHANGED <<browserVars, viewer, album, cache, fetchError, silenced>>

(* ... or with an error, which the overlay shows of whatever is open. *)
MarkdownFailed(f) ==
  /\ fetches[f] > 0 /\ fetches' = [fetches EXCEPT ![f] = @ - 1]
  /\ fetchError' = TRUE
  /\ UNCHANGED <<browserVars, viewer, album, cache, silenced>>

FetchThread == \E f \in File : MarkdownLoaded(f) \/ MarkdownFailed(f)

-----------------------------------------------------------------------------
LibraryInit ==
  /\ filter = "all" /\ searching = FALSE /\ files = {}
  /\ contentError = FALSE /\ requests = <<>>
  /\ viewer = Closed /\ album = {} /\ cache = {} /\ fetchError = FALSE
  /\ fetches = [f \in File |-> 0] /\ silenced = FALSE

(* A document that is open and neither shown nor failed is being fetched,   *)
(* in whatever order it and others are opened, closed and answered; the    *)
(* one way out is that another document's answer wipes its failure away.   *)
LoadingIsBacked ==
  Waiting /\ ~fetchError /\ ~silenced => fetches[viewer.f] > 0
=============================================================================
