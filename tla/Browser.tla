------------------------------ MODULE Browser ------------------------------
(***************************************************************************)
(* The file browser in its tab (web/src/pages/BrowserPage.tsx under the    *)
(* sign-in gate of App.tsx and auth/AuthContext.tsx) and the cookies it    *)
(* reaches the server with: RequireAuth and RequireCSRF of                 *)
(* internal/api/api.go, as internal/server/server.go puts them in front of *)
(* the handlers.                                                           *)
(*                                                                         *)
(* Requests are answered in any order, and any of them may be refused:     *)
(* until when a session is valid is Server.tla's subject.  Everything the  *)
(* page does between two awaits is one step, the question of               *)
(* window.confirm included, which holds up the tab.  The page's own        *)
(* dialogs do not.  Directories are fixed; the files in them are changed   *)
(* by this user only.                                                      *)
(***************************************************************************)
CONSTANTS
    Dirs,           \* directories the user visits
    Home,           \* the one the page opens with
    Names,          \* names of files
    Files,          \* the paths there may be a file at: directory and name
    Listings,       \* listings in flight at a time
    Operations,     \* operations in progress at a time
    CsrfTokens,     \* values of the CSRF cookie
    None            \* no cookie, no listing, no file

ASSUME HomeAssumption == Home \in Dirs
ASSUME FilesAssumption == Files \subseteq Dirs \X Names
ASSUME NoneAssumption == None \notin Listings \union CsrfTokens \union Files

VARIABLES
    files,          \* the files there are on the server
    csrf,           \* the CSRF cookie of the browser
    app,            \* what Gate shows
    path, entries, selected, loading, error,    \* state of BrowserPage
    dialog,         \* dialog.paths of the move or copy dialog, {} when it is not open
    list,           \* the listings in flight
    op,             \* the operations in progress
    newest,         \* history: the listing sent last, until it is answered
    astray          \* history: is the screen not that of path, or changed by a page before?

remote == <<files, csrf>>
view == <<path, entries, selected, loading, error, dialog>>
vars == <<remote, app, view, list, op, newest, astray>>

Content(d) == {f \in files : f[1] = d}

Listing == [at : {"free", "sent", "answered"}, dir : Dirs, ok : BOOLEAN, entries : SUBSET Files]
NoListing == [at |-> "free", dir |-> Home, ok |-> FALSE, entries |-> {}]

(* kind and dest of an operation, the directory it was started in, what is *)
(* left to do, and of the request sent its file and its X-CSRF-Token.      *)
Kinds == {"delete", "move", "create"}
Operation == [at : {"free", "sent", "ok", "failed"}, kind : Kinds, dir : Dirs, dest : Dirs,
              todo : SUBSET Files, item : Files \union {None},
              header : CsrfTokens \union {None}, mounted : BOOLEAN]
NoOperation == [at |-> "free", kind |-> "create", dir |-> Home, dest |-> Home, todo |-> {},
                item |-> None, header |-> None, mounted |-> FALSE]

TypeOK ==
    /\ files \subseteq Files
    /\ csrf \in CsrfTokens \union {None}
    /\ app \in {"asking", "login", "page"}
    /\ path \in Dirs
    /\ entries \subseteq Files
    /\ selected \subseteq Files
    /\ loading \in BOOLEAN
    /\ error \in BOOLEAN
    /\ dialog \subseteq Files
    /\ list \in [Listings -> Listing]
    /\ op \in [Operations -> Operation]
    /\ newest \in Listings \union {None}
    /\ astray \in BOOLEAN
    /\ newest # None => list[newest].at # "free"
    /\ app # "page" => ~loading /\ \A l \in Listings : list[l].at = "free"

Init ==
    /\ files \in SUBSET Files
    /\ csrf = None
    /\ app = "asking"
    /\ path = Home
    /\ entries = {}
    /\ selected = {}
    /\ loading = FALSE
    /\ error = FALSE
    /\ dialog = {}
    /\ list = [l \in Listings |-> NoListing]
    /\ op = [o \in Operations |-> NoOperation]
    /\ newest = None
    /\ astray = FALSE

-----------------------------------------------------------------------------
(* BrowserPage comes and goes.                                             *)

(* refresh(d): the listing on the screen stays until the answer comes.     *)
Refresh(d) ==
    \E l \in Listings :
        /\ list[l].at = "free"
        /\ list' = [list EXCEPT ![l] = [NoListing EXCEPT !.at = "sent", !.dir = d]]
        /\ newest' = l
        /\ loading' = TRUE
        /\ error' = FALSE
        /\ astray' = (d # path')

Mount ==
    /\ app' = "page"
    /\ path' = Home
    /\ entries' = {}
    /\ selected' = {}
    /\ dialog' = {}
    /\ Refresh(Home)

(* What is in flight has no page to report to any more.                    *)
Unmount(to) ==
    /\ app' = to
    /\ path' = Home
    /\ entries' = {}
    /\ selected' = {}
    /\ loading' = FALSE
    /\ error' = FALSE
    /\ dialog' = {}
    /\ list' = [l \in Listings |-> NoListing]
    /\ newest' = None
    /\ astray' = FALSE

SetEmpty(c) ==                  \* fault: the cookie is set before it has a value
    IF c = None THEN c' = "" ELSE c' = c

SetNever(c) == c' = c           \* fault: a session without the cookie is not given one

(* ensureCSRFCookie: a request that comes without the cookie takes one     *)
(* home.  Me is the first of a page; the others find it there.             *)
EnsureCSRFCookie(c) == IF c = None THEN c' \in CsrfTokens ELSE c' = c

(* AuthProvider asks who is signed in before anything else is shown.       *)
Me ==
    /\ app = "asking"
    /\ \/ Mount /\ EnsureCSRFCookie(csrf)
       \/ Unmount("login") /\ UNCHANGED csrf
    /\ UNCHANGED <<files, op>>

SignIn ==
    /\ app = "login"
    /\ csrf' \in CsrfTokens
    /\ Mount
    /\ UNCHANGED <<files, op>>

(* logout drops the page whatever the server says.                         *)
SignOut ==
    /\ app = "page"
    /\ Unmount("login")
    /\ op' = [o \in Operations |-> [op[o] EXCEPT !.mounted = FALSE]]
    /\ UNCHANGED <<files, csrf>>

(* Both cookies are those of the browser: a login in another tab sets them *)
(* for this one too.                                                       *)
OtherTabSignsIn ==
    /\ csrf' \in CsrfTokens \ {csrf}
    /\ UNCHANGED <<files, app, view, list, op, newest, astray>>

(* The CSRF cookie ends with the browser, that of a remembered session     *)
(* does not.  A request that is under way may still reach the server.      *)
BrowserRestarts ==
    /\ csrf' = None
    /\ Unmount("asking")
    /\ op' = [o \in Operations |-> IF op[o].at = "sent"
                                   THEN [op[o] EXCEPT !.todo = {}, !.mounted = FALSE]
                                   ELSE NoOperation]
    /\ UNCHANGED files

-----------------------------------------------------------------------------
(* Listings.                                                               *)

Navigate(d) ==
    /\ app = "page"
    /\ d # path
    /\ path' = d
    /\ Refresh(d)
    /\ UNCHANGED <<remote, app, entries, selected, dialog, op>>

(* The server answers, or refuses, or cannot be reached.                   *)
ListFiles(l) ==
    /\ list[l].at = "sent"
    /\ \E ok \in BOOLEAN :
        list' = [list EXCEPT ![l] =
            [at |-> "answered", dir |-> list[l].dir, ok |-> ok,
             entries |-> IF ok THEN Content(list[l].dir) ELSE {}]]
    /\ UNCHANGED <<remote, app, view, op, newest, astray>>

Settled(l) ==
    /\ list' = [list EXCEPT ![l] = NoListing]
    /\ newest' = IF l = newest THEN None ELSE newest
    /\ UNCHANGED <<remote, app, path, dialog, op>>

SelectionKept(l) ==             \* fault: setSelected(new Set()) is forgotten
    /\ list[l].at = "answered" /\ list[l].ok
    /\ entries' = list[l].entries
    /\ loading' = FALSE
    /\ astray' = (astray \/ newest = None)
    /\ Settled(l)
    /\ UNCHANGED <<selected, error>>

(* then and finally: the answer is shown, whichever it is.                 *)
ListingShown(l) ==
    /\ list[l].at = "answered" /\ list[l].ok
    /\ entries' = list[l].entries
    /\ selected' = {}
    /\ loading' = FALSE
    /\ astray' = (astray \/ newest = None)
    /\ Settled(l)
    /\ UNCHANGED error

LoadingKept(l) ==               \* fault: setLoading(false) in then, not in finally
    /\ list[l].at = "answered" /\ ~list[l].ok
    /\ error' = TRUE
    /\ Settled(l)
    /\ UNCHANGED <<entries, selected, loading, astray>>

(* catch and finally: the listing before stays on the screen.              *)
ListingFails(l) ==
    /\ list[l].at = "answered" /\ ~list[l].ok
    /\ error' = TRUE
    /\ loading' = FALSE
    /\ Settled(l)
    /\ UNCHANGED <<entries, selected, astray>>

-----------------------------------------------------------------------------
(* What the user does with the files on the screen.                        *)

(* Clicks; while a listing is awaited there is nothing to click on.        *)
Select(some) ==
    /\ app = "page" /\ ~loading
    /\ some # selected
    /\ selected' = some
    /\ UNCHANGED <<remote, app, path, entries, loading, error, dialog, list, op, newest, astray>>

(* request(): the token is read from the cookie when a change is sent.     *)
Send(o, request, todo) ==
    \E f \in todo :
        op' = [op EXCEPT ![o] = [request EXCEPT !.at = "sent", !.todo = todo \ {f}, !.item = f,
                                                !.header = csrf]]

Start(o, kind, dest, todo) ==
    /\ app = "page" /\ op[o].at = "free"
    /\ Send(o, [NoOperation EXCEPT !.kind = kind, !.dir = path, !.dest = dest,
                                   !.mounted = TRUE], todo)
    /\ UNCHANGED <<remote, app, path, entries, selected, loading, error, list, newest, astray>>

(* The selection is that of the moment of the confirmation.                *)
HandleDelete(o) == Start(o, "delete", path, selected) /\ UNCHANGED dialog

(* setDialog({ kind: "move", paths: [...selected] }): the paths are those  *)
(* of the moment the dialog is opened, whatever is listed until it is      *)
(* confirmed.                                                              *)
OpenMoveDialog ==
    /\ app = "page" /\ selected # {}
    /\ dialog' = selected
    /\ UNCHANGED <<remote, app, path, entries, selected, loading, error, list, op, newest, astray>>

(* Cancelled, or replaced by another dialog.                               *)
CloseDialog ==
    /\ dialog # {}
    /\ dialog' = {}
    /\ UNCHANGED <<remote, app, path, entries, selected, loading, error, list, op, newest, astray>>

MovesSelection(o, dest) ==      \* fault: the selection at confirmation, not dialog.paths
    dialog # {} /\ Start(o, "move", dest, selected) /\ UNCHANGED dialog

(* The dialog stays open until the last file is moved.                     *)
HandleMoveConfirm(o, dest) == Start(o, "move", dest, dialog) /\ UNCHANGED dialog

(* The dialog for the name takes the place of any other.                   *)
HandleNewFileConfirm(o, n) ==
    Start(o, "create", path, {<<path, n>>} \intersect Files) /\ dialog' = {}

(* RequireCSRF: the cookie arrives with the request, the header was        *)
(* written before.                                                         *)
CsrfPasses(o) == csrf # None /\ op[o].header = csrf

(* The handlers, for a file that may or may not be there any more.         *)
Performed(o) ==
    LET f == op[o].item IN
    CASE op[o].kind = "delete" -> files' = files \ {f}
      [] op[o].kind = "move" ->
            /\ f \in files /\ <<op[o].dest, f[2]>> \in Files
            /\ files' = (files \ {f}) \union {<<op[o].dest, f[2]>>}
      [] op[o].kind = "create" -> f \notin files /\ files' = files \union {f}

Answered(o, at) == op' = [op EXCEPT ![o].at = at, ![o].item = None, ![o].header = None]

(* The request succeeds, or is refused or fails or its answer is lost.     *)
Serve(o) ==
    /\ op[o].at = "sent"
    /\ \/ /\ CsrfPasses(o)
          /\ Performed(o)
          /\ \E at \in {"ok", "failed"} : Answered(o, at)
       \/ Answered(o, "failed") /\ UNCHANGED files
    /\ UNCHANGED <<csrf, app, view, list, newest, astray>>

ReadsSelection(o) ==            \* fault: the loop reads the selection anew each time
    /\ op[o].at = "ok" /\ op[o].todo # {}
    /\ Send(o, op[o], selected)
    /\ UNCHANGED <<remote, app, view, list, newest, astray>>

(* The next of the files awaits its turn whatever has become of the page.  *)
NextFile(o) ==
    /\ op[o].at = "ok"
    /\ Send(o, op[o], op[o].todo)
    /\ UNCHANGED <<remote, app, view, list, newest, astray>>

AllServed(o) == op[o].at = "ok" /\ op[o].todo = {}

MovedNotRefreshed(o) ==         \* fault: no refresh(path) at the end
    /\ AllServed(o)
    /\ op' = [op EXCEPT ![o] = NoOperation]
    /\ dialog' = IF op[o].mounted /\ op[o].kind # "delete" THEN {} ELSE dialog
    /\ UNCHANGED <<remote, app, path, entries, selected, loading, error, list, newest, astray>>

(* After the last one the dialog is closed, be it another by now, and the  *)
(* directory the operation was started in is listed, wherever the user is  *)
(* now; the page after this one is not told.                               *)
Finish(o) ==
    /\ AllServed(o)
    /\ op' = [op EXCEPT ![o] = NoOperation]
    /\ dialog' = IF op[o].mounted /\ op[o].kind # "delete" THEN {} ELSE dialog
    /\ IF op[o].mounted
       THEN /\ UNCHANGED path
            /\ Refresh(op[o].dir)
       ELSE /\ astray' = (astray \/ app = "page")
            /\ UNCHANGED <<path, loading, error, list, newest>>
    /\ UNCHANGED <<remote, app, entries, selected>>

(* The first failure ends the loop; what was done is not shown, and the    *)
(* dialog stays open.                                                      *)
Fail(o) ==
    /\ op[o].at = "failed"
    /\ op' = [op EXCEPT ![o] = NoOperation]
    /\ error' = (error \/ op[o].mounted)
    /\ astray' = (astray \/ (~op[o].mounted /\ app = "page"))
    /\ UNCHANGED <<remote, app, path, entries, selected, loading, dialog, list, newest>>

-----------------------------------------------------------------------------
Next ==
    \/ Me \/ SignIn \/ SignOut \/ OtherTabSignsIn \/ BrowserRestarts
    \/ \E d \in Dirs : Navigate(d)
    \/ \E l \in Listings : ListFiles(l) \/ ListingShown(l) \/ ListingFails(l)
    \/ \E some \in SUBSET entries : Select(some)
    \/ OpenMoveDialog \/ CloseDialog
    \/ \E o \in Operations :
        \/ HandleDelete(o)
        \/ \E d \in Dirs : HandleMoveConfirm(o, d)
        \/ \E n \in Names : HandleNewFileConfirm(o, n)
        \/ Serve(o) \/ NextFile(o) \/ Finish(o) \/ Fail(o)

Spec == Init /\ [][Next]_vars

-----------------------------------------------------------------------------
(* What is left to do of an operation.                                     *)
Left(o) == op[o].todo \union ({op[o].item} \ {None})

(* A bulk operation changes files of the listing that was on the page when *)
(* the user confirmed the deletion, or opened the dialog of the move or    *)
(* copy, and neither the listings that replace that one meanwhile nor the  *)
(* clicks made meanwhile add to them (handleDelete, dialog.paths in        *)
(* handleMoveOrCopyConfirm, and the selection dropped with its listing).   *)
(* On the page is also what "Loading..." or the filter covers.             *)
Confirmed(o) ==
    CASE op'[o].kind = "delete" -> entries
      [] op'[o].kind = "move" -> dialog
      [] op'[o].kind = "create" -> Left(o)'

OnlyShownChanged ==
    [][/\ \A o \in Operations :
            IF op[o].at = "free" /\ op'[o].at # "free"
            THEN Left(o)' \subseteq Confirmed(o)
            ELSE Left(o)' \subseteq Left(o)
       /\ dialog' # dialog => dialog' \subseteq entries]_vars

(* When nothing is in flight and no error is shown, the screen is true: it *)
(* lists what is in the directory the user is in, every operation of his   *)
(* done included.  Two things in the code break it, and astray names them: *)
(* refresh shows whatever answer comes last, and an operation ends after   *)
(* the user has left the directory or the page it was started in.          *)
QuietIsTrue ==
    (/\ app = "page" /\ ~error /\ ~astray
     /\ \A l \in Listings : list[l].at = "free"
     /\ \A o \in Operations : op[o].at = "free")
    => entries = Content(path)

(* A page that is shown can make changes: the CSRF cookie is there, so     *)
(* that RequireCSRF never refuses a request for want of it, though the     *)
(* cookie ends with the browser and a remembered session does not          *)
(* (ensureCSRFCookie in RequireAuth).                                      *)
NotLockedOut ==
    /\ app = "page" => csrf # None
    /\ \A o \in Operations : op[o].at = "sent" => op[o].header # None

(* The page does not stay at "Loading...": while it says so an answer is   *)
(* on its way, and any outcome of it ends the wait (the finally of         *)
(* refresh).                                                               *)
LoadingIsAwaited == loading => \E l \in Listings : list[l].at # "free"

=============================================================================
