--------------------------- MODULE BrowserProofs ---------------------------
(***************************************************************************)
(* Proofs about Browser.tla, for any number of directories, files,         *)
(* listings and operations in flight.                                      *)
(***************************************************************************)
EXTENDS Browser, TLAPS

(* What is selected is on the screen: the one fact OnlyShownChanged needs  *)
(* of the states.                                                          *)
SelectedIsShown == selected \subseteq entries

(* Why the screen is true in the end: while nothing excuses it, either the *)
(* listing asked for last is under way, is about the directory the user is *)
(* in and brings what is there, or the screen has it already.              *)
WillBeTrue ==
    (app = "page" /\ ~error /\ ~astray /\ \A o \in Operations : op[o].at = "free")
    => IF newest = None
       THEN entries = Content(path)
       ELSE /\ list[newest].dir = path
            /\ list[newest].at = "answered" /\ list[newest].ok
                => list[newest].entries = Content(path)

(* A request names its file, and an operation that has more of them to do  *)
(* has not outlived the browser, hence not the cookie; the page that       *)
(* started it, if it is still there, is the one shown.                     *)
InProgress ==
    \A o \in Operations :
        /\ op[o].at = "sent" => op[o].item # None
        /\ op[o].todo # {} => csrf # None
        /\ op[o].mounted => app = "page"

BrowserInv == TypeOK /\ SelectedIsShown /\ LoadingIsAwaited /\ NotLockedOut /\ WillBeTrue /\ InProgress

(* A fresh page's state, however it comes about.                           *)
LEMMA ConstantsOK ==
    /\ NoListing \in Listing
    /\ NoOperation \in Operation
    /\ NoListing.at = "free"
    /\ NoOperation.at = "free"
    /\ NoOperation.todo = {}
    /\ NoOperation.mounted = FALSE
  BY HomeAssumption DEF Listing, NoListing, Operation, NoOperation, Kinds

LEMMA InitBrowserInv == Init => BrowserInv
  BY ConstantsOK, HomeAssumption
  DEF Init, BrowserInv, TypeOK, SelectedIsShown, LoadingIsAwaited, NotLockedOut, WillBeTrue, InProgress

(* Sending a listing, from refresh.                                        *)
LEMMA RefreshTypes ==
    ASSUME list \in [Listings -> Listing], NEW d \in Dirs, Refresh(d)
    PROVE  /\ list' \in [Listings -> Listing]
           /\ newest' \in Listings
           /\ list'[newest'].at = "sent"
           /\ list'[newest'].dir = d
           /\ loading' = TRUE
           /\ error' = FALSE
           /\ astray' = (d # path')
<1>1. PICK l \in Listings :
          /\ list' = [list EXCEPT ![l] = [NoListing EXCEPT !.at = "sent", !.dir = d]]
          /\ newest' = l
    BY DEF Refresh
<1>2. [NoListing EXCEPT !.at = "sent", !.dir = d] \in Listing
    BY HomeAssumption DEF Listing, NoListing
<1>3. list' \in [Listings -> Listing] /\ list'[l] = [NoListing EXCEPT !.at = "sent", !.dir = d]
    BY <1>1, <1>2
<1>4. list'[newest'].at = "sent" /\ list'[newest'].dir = d
    BY <1>1, <1>3 DEF NoListing
<1> QED BY <1>1, <1>3, <1>4 DEF Refresh

-----------------------------------------------------------------------------
LEMMA MountKeeps ==
    ASSUME BrowserInv, Mount, files' = files, csrf' \in CsrfTokens, op' = op
    PROVE  BrowserInv'
<1>1. /\ app' = "page" /\ path' = Home /\ entries' = {} /\ selected' = {} /\ dialog' = {}
      /\ Refresh(Home)
    BY DEF Mount
<1>2. /\ list' \in [Listings -> Listing] /\ newest' \in Listings
      /\ list'[newest'].at = "sent" /\ list'[newest'].dir = Home
      /\ loading' = TRUE /\ error' = FALSE /\ astray' = (Home # path')
    BY <1>1, RefreshTypes, HomeAssumption DEF BrowserInv, TypeOK
<1>3. TypeOK'
    BY <1>1, <1>2, HomeAssumption DEF BrowserInv, TypeOK
<1>4. (NotLockedOut /\ InProgress)'
    BY <1>1, NoneAssumption DEF BrowserInv, NotLockedOut, InProgress
<1>5. (SelectedIsShown /\ LoadingIsAwaited)'
    BY <1>1, <1>2 DEF SelectedIsShown, LoadingIsAwaited
<1>6. WillBeTrue'
    BY <1>1, <1>2, NoneAssumption DEF WillBeTrue
<1> QED BY <1>3, <1>4, <1>5, <1>6 DEF BrowserInv

LEMMA UnmountKeeps ==
    ASSUME BrowserInv, NEW to \in {"asking", "login"}, Unmount(to), files' = files,
           csrf' \in CsrfTokens \union {None}, op' \in [Operations -> Operation],
           \A o \in Operations : op'[o].at = "sent" =>
                op[o].at = "sent" /\ op'[o].header = op[o].header /\ op'[o].item = op[o].item,
           \A o \in Operations : (op'[o].todo # {} => csrf' # None) /\ ~op'[o].mounted
    PROVE  BrowserInv'
<1>1. TypeOK'
    BY ConstantsOK, HomeAssumption DEF Unmount, BrowserInv, TypeOK
<1>2. (SelectedIsShown /\ LoadingIsAwaited /\ NotLockedOut /\ WillBeTrue /\ InProgress)'
    BY DEF Unmount, BrowserInv, SelectedIsShown, LoadingIsAwaited, NotLockedOut, WillBeTrue,
           InProgress
<1> QED BY <1>1, <1>2 DEF BrowserInv

(* Signing in and out, and what the other tabs and the browser do.         *)
LEMMA GateKeeps ==
    ASSUME BrowserInv, Me \/ SignIn \/ SignOut \/ OtherTabSignsIn \/ BrowserRestarts
    PROVE  BrowserInv'
<1> USE DEF remote, view
<1>1. CASE Me
  <2>1. CASE Mount /\ EnsureCSRFCookie(csrf)
      BY <1>1, <2>1, MountKeeps DEF Me, EnsureCSRFCookie, BrowserInv, TypeOK
  <2>2. CASE Unmount("login") /\ UNCHANGED csrf
      BY <1>1, <2>2, UnmountKeeps DEF Me, BrowserInv, TypeOK, InProgress
  <2> QED BY <1>1, <2>1, <2>2 DEF Me
<1>2. CASE SignIn
    BY <1>2, MountKeeps DEF SignIn
<1>3. CASE SignOut
  <2>1. op' \in [Operations -> Operation]
    <3>1. op \in [Operations -> Operation] /\ op' = [o \in Operations |-> [op[o] EXCEPT !.mounted = FALSE]]
        BY <1>3 DEF SignOut, BrowserInv, TypeOK
    <3>2. \A r \in Operation : [r EXCEPT !.mounted = FALSE] \in Operation
        BY DEF Operation
    <3> QED BY <3>1, <3>2
  <2>2. \A o \in Operations : op'[o].at = op[o].at /\ op'[o].header = op[o].header
                            /\ op'[o].item = op[o].item /\ op'[o].todo = op[o].todo
                            /\ ~op'[o].mounted
      BY <1>3 DEF SignOut, BrowserInv, TypeOK, Operation
  <2> QED BY <1>3, <2>1, <2>2, UnmountKeeps DEF SignOut, BrowserInv, TypeOK, InProgress
<1>4. CASE OtherTabSignsIn
  <2>1. TypeOK' /\ csrf' # None
      BY <1>4, NoneAssumption DEF OtherTabSignsIn, BrowserInv, TypeOK
  <2>2. (SelectedIsShown /\ LoadingIsAwaited /\ NotLockedOut /\ WillBeTrue /\ InProgress)'
      BY <1>4, <2>1 DEF OtherTabSignsIn, BrowserInv, SelectedIsShown, LoadingIsAwaited,
                        NotLockedOut, WillBeTrue, InProgress, Content
  <2> QED BY <2>1, <2>2 DEF BrowserInv
<1>5. CASE BrowserRestarts
  <2>1. op' \in [Operations -> Operation]
      BY <1>5, ConstantsOK DEF BrowserRestarts, BrowserInv, TypeOK, Operation
  <2>2. \A o \in Operations : op'[o].at = "sent" =>
            op[o].at = "sent" /\ op'[o].header = op[o].header /\ op'[o].item = op[o].item
      BY <1>5, ConstantsOK DEF BrowserRestarts, BrowserInv, TypeOK, Operation
  <2>3. \A o \in Operations : op'[o].todo = {} /\ ~op'[o].mounted
      BY <1>5, ConstantsOK DEF BrowserRestarts, BrowserInv, TypeOK, Operation
  <2> QED BY <1>5, <2>1, <2>2, <2>3, UnmountKeeps DEF BrowserRestarts
<1> QED BY <1>1, <1>2, <1>3, <1>4, <1>5

-----------------------------------------------------------------------------
LEMMA NavigateKeeps ==
    ASSUME BrowserInv, NEW d \in Dirs, Navigate(d)
    PROVE  BrowserInv'
<1> USE DEF remote, view
<1>1. /\ list' \in [Listings -> Listing] /\ newest' \in Listings
      /\ list'[newest'].at = "sent" /\ list'[newest'].dir = d
      /\ loading' = TRUE /\ error' = FALSE /\ astray' = (d # path')
    BY RefreshTypes DEF Navigate, BrowserInv, TypeOK
<1>2. TypeOK'
    BY <1>1 DEF Navigate, BrowserInv, TypeOK
<1>3. (SelectedIsShown /\ LoadingIsAwaited /\ NotLockedOut /\ InProgress)'
    BY <1>1 DEF Navigate, BrowserInv, SelectedIsShown, LoadingIsAwaited, NotLockedOut, InProgress
<1>4. WillBeTrue'
    BY <1>1, NoneAssumption DEF Navigate, WillBeTrue
<1> QED BY <1>2, <1>3, <1>4 DEF BrowserInv

LEMMA ListFilesKeeps ==
    ASSUME BrowserInv, NEW l \in Listings, ListFiles(l)
    PROVE  BrowserInv'
<1> USE DEF remote, view
<1>1. PICK ok \in BOOLEAN :
        list' = [list EXCEPT ![l] =
            [at |-> "answered", dir |-> list[l].dir, ok |-> ok,
             entries |-> IF ok THEN Content(list[l].dir) ELSE {}]]
    BY DEF ListFiles
<1>2. /\ \A k \in Listings : k # l => list'[k] = list[k]
      /\ list'[l].at = "answered" /\ list'[l].ok = ok /\ list'[l].dir = list[l].dir
      /\ ok => list'[l].entries = Content(list[l].dir)
      /\ list' \in [Listings -> Listing]
    BY <1>1 DEF BrowserInv, TypeOK, Listing, Content
<1>3. TypeOK'
    BY <1>2 DEF ListFiles, BrowserInv, TypeOK
<1>4. (SelectedIsShown /\ LoadingIsAwaited /\ NotLockedOut /\ InProgress)'
    BY <1>2 DEF ListFiles, BrowserInv, SelectedIsShown, LoadingIsAwaited, NotLockedOut, InProgress
<1>5. WillBeTrue'
    BY <1>2 DEF ListFiles, BrowserInv, TypeOK, WillBeTrue, Content
<1> QED BY <1>3, <1>4, <1>5 DEF BrowserInv

LEMMA SettledKeeps ==
    ASSUME BrowserInv, NEW l \in Listings, ListingShown(l) \/ ListingFails(l)
    PROVE  BrowserInv'
<1> USE DEF remote, view
<1>1. /\ list' \in [Listings -> Listing]
      /\ list'[l].at = "free"
      /\ \A k \in Listings : k # l => list'[k] = list[k]
    BY ConstantsOK DEF ListingShown, ListingFails, Settled, BrowserInv, TypeOK
<1>2. /\ newest' = (IF l = newest THEN None ELSE newest)
      /\ loading' = FALSE /\ UNCHANGED <<files, csrf, app, path, dialog, op>>
    BY DEF ListingShown, ListingFails, Settled
<1>3. entries' \in SUBSET Files /\ selected' \in SUBSET entries'
      /\ error' \in BOOLEAN /\ astray' \in BOOLEAN
    BY DEF ListingShown, ListingFails, BrowserInv, TypeOK, SelectedIsShown, Listing
<1>4. TypeOK'
    BY <1>1, <1>2, <1>3 DEF BrowserInv, TypeOK
<1>5. (SelectedIsShown /\ LoadingIsAwaited /\ NotLockedOut /\ InProgress)'
    BY <1>1, <1>2, <1>3
    DEF BrowserInv, SelectedIsShown, LoadingIsAwaited, NotLockedOut, InProgress
<1>6. WillBeTrue'
  <2>1. CASE ListingShown(l)
      BY <1>1, <1>2, <2>1, NoneAssumption
      DEF ListingShown, BrowserInv, TypeOK, WillBeTrue, Content
  <2>2. CASE ListingFails(l)
      BY <2>2 DEF ListingFails, WillBeTrue
  <2> QED BY <2>1, <2>2
<1> QED BY <1>4, <1>5, <1>6 DEF BrowserInv

(* Clicks, of which the one that opens a dialog is another.                *)
LEMMA SelectKeeps ==
    ASSUME BrowserInv,
           (\E some \in SUBSET entries : Select(some)) \/ OpenMoveDialog \/ CloseDialog
    PROVE  BrowserInv'
BY DEF Select, OpenMoveDialog, CloseDialog, remote, view, BrowserInv, TypeOK, SelectedIsShown, LoadingIsAwaited, NotLockedOut,
       WillBeTrue, InProgress, Content

-----------------------------------------------------------------------------
(* The first or the next request of an operation.                          *)
LEMMA SendKeeps ==
    ASSUME BrowserInv, NEW o \in Operations, NEW request \in Operation, NEW todo \in SUBSET Files,
           request.mounted => app = "page", csrf # None, Send(o, request, todo),
           UNCHANGED <<remote, app, path, entries, selected, loading, error, list, newest, astray>>,
           dialog' \in SUBSET Files
    PROVE  BrowserInv'
<1> USE DEF remote
<1>1. PICK f \in todo :
        op' = [op EXCEPT ![o] = [request EXCEPT !.at = "sent", !.todo = todo \ {f}, !.item = f,
                                                !.header = csrf]]
    BY DEF Send
<1>2. /\ op' \in [Operations -> Operation]
      /\ op'[o].at = "sent" /\ op'[o].header = csrf /\ op'[o].item \in Files
      /\ op'[o].mounted = request.mounted
      /\ \A p \in Operations : p # o => op'[p] = op[p]
    BY <1>1 DEF BrowserInv, TypeOK, Operation
<1>3. (TypeOK /\ NotLockedOut /\ InProgress)'
    BY <1>2, NoneAssumption DEF BrowserInv, TypeOK, NotLockedOut, InProgress
<1>4. (SelectedIsShown /\ LoadingIsAwaited /\ WillBeTrue)'
    BY <1>2 DEF BrowserInv, SelectedIsShown, LoadingIsAwaited, WillBeTrue
<1> QED BY <1>3, <1>4 DEF BrowserInv

LEMMA StartKeeps ==
    ASSUME BrowserInv, NEW o \in Operations, NEW kind \in Kinds, NEW dest \in Dirs,
           NEW todo \in SUBSET Files, Start(o, kind, dest, todo), dialog' \in SUBSET Files
    PROVE  BrowserInv'
<1> DEFINE request == [NoOperation EXCEPT !.kind = kind, !.dir = path, !.dest = dest,
                                          !.mounted = TRUE]
<1>1. request \in Operation
    BY HomeAssumption DEF BrowserInv, TypeOK, Operation, NoOperation
<1>2. app = "page" /\ csrf # None
    BY DEF Start, BrowserInv, NotLockedOut
<1>3. /\ Send(o, request, todo)
      /\ UNCHANGED <<remote, app, path, entries, selected, loading, error, list, newest, astray>>
    BY DEF Start
<1> HIDE DEF request
<1> QED BY <1>1, <1>2, <1>3, SendKeeps

LEMMA PerformedTypes ==
    ASSUME BrowserInv, NEW o \in Operations, op[o].at = "sent", Performed(o)
    PROVE  files' \in SUBSET Files
<1>1. op[o].item \in Files /\ op[o].kind \in Kinds /\ files \in SUBSET Files
    BY DEF BrowserInv, TypeOK, Operation, InProgress
<1>2. CASE op[o].kind = "delete"
    BY <1>1, <1>2 DEF Performed
<1>3. CASE op[o].kind = "move"
    BY <1>1, <1>3 DEF Performed
<1>4. CASE op[o].kind = "create"
    BY <1>1, <1>4 DEF Performed
<1> QED BY <1>1, <1>2, <1>3, <1>4 DEF Kinds

LEMMA ServeKeeps ==
    ASSUME BrowserInv, NEW o \in Operations, Serve(o)
    PROVE  BrowserInv'
<1> USE DEF remote, view
<1>1. PICK at \in {"ok", "failed"} : Answered(o, at)
    BY DEF Serve
<1>2. files' \in SUBSET Files
    BY PerformedTypes DEF Serve, BrowserInv, TypeOK
<1>3. /\ op' \in [Operations -> Operation]
      /\ op'[o].at \in {"ok", "failed"} /\ op'[o].todo = op[o].todo
      /\ op'[o].mounted = op[o].mounted
      /\ \A p \in Operations : p # o => op'[p] = op[p]
  <2>1. op[o] \in Operation /\ op \in [Operations -> Operation]
      BY DEF BrowserInv, TypeOK
  <2> DEFINE answered == [op[o] EXCEPT !.at = at, !.item = None, !.header = None]
  <2>2. answered \in Operation /\ answered.at = at /\ answered.todo = op[o].todo
        /\ answered.mounted = op[o].mounted
      BY <2>1 DEF Operation
  <2>3. op' = [op EXCEPT ![o] = answered]
      BY <1>1, <2>1 DEF Answered
  <2> HIDE DEF answered
  <2> QED BY <2>1, <2>2, <2>3
<1>4. TypeOK'
    BY <1>2, <1>3 DEF Serve, BrowserInv, TypeOK
<1>5. (SelectedIsShown /\ LoadingIsAwaited /\ NotLockedOut /\ InProgress /\ WillBeTrue)'
    BY <1>3 DEF Serve, BrowserInv, SelectedIsShown, LoadingIsAwaited, NotLockedOut, InProgress,
                WillBeTrue
<1> QED BY <1>4, <1>5 DEF BrowserInv

LEMMA NextFileKeeps ==
    ASSUME BrowserInv, NEW o \in Operations, NextFile(o)
    PROVE  BrowserInv'
<1>1. op[o] \in Operation /\ op[o].todo \in SUBSET Files
    BY DEF BrowserInv, TypeOK, Operation
<1>2. csrf # None /\ (op[o].mounted => app = "page") /\ dialog \in SUBSET Files
    BY DEF NextFile, Send, BrowserInv, TypeOK, InProgress
<1> QED BY <1>1, <1>2, SendKeeps DEF NextFile, view

(* The end of an operation, done or failed.                                *)
LEMMA EndKeeps ==
    ASSUME BrowserInv, NEW o \in Operations, Finish(o) \/ Fail(o)
    PROVE  BrowserInv'
<1> USE DEF remote, view
<1>1. /\ op' = [op EXCEPT ![o] = NoOperation]
      /\ UNCHANGED <<files, csrf, app, path, entries, selected>>
      /\ dialog' \in SUBSET Files
    BY DEF Finish, Fail, BrowserInv, TypeOK
<1>2. op' \in [Operations -> Operation] /\ op'[o].at = "free" /\ op'[o].todo = {}
      /\ op'[o].mounted = FALSE
      /\ \A p \in Operations : p # o => op'[p] = op[p]
    BY <1>1, ConstantsOK DEF BrowserInv, TypeOK
<1>3. CASE Finish(o) /\ op[o].mounted
  <2>1. op[o].dir \in Dirs
      BY DEF BrowserInv, TypeOK, Operation
  <2>2. /\ list' \in [Listings -> Listing] /\ newest' \in Listings
        /\ list'[newest'].at = "sent" /\ list'[newest'].dir = op[o].dir
        /\ loading' = TRUE /\ error' = FALSE /\ astray' = (op[o].dir # path')
      BY <1>3, <2>1, RefreshTypes DEF Finish, BrowserInv, TypeOK
  <2>3. app = "page"
      BY <1>3 DEF BrowserInv, InProgress
  <2>4. TypeOK'
      BY <1>1, <1>2, <2>2, <2>3 DEF BrowserInv, TypeOK
  <2>5. (SelectedIsShown /\ LoadingIsAwaited /\ NotLockedOut /\ InProgress)'
      BY <1>1, <1>2, <2>2
      DEF BrowserInv, SelectedIsShown, LoadingIsAwaited, NotLockedOut, InProgress
  <2>6. WillBeTrue'
      BY <1>1, <1>2, <2>2, NoneAssumption DEF WillBeTrue
  <2> QED BY <2>4, <2>5, <2>6 DEF BrowserInv
<1>4. CASE ~(Finish(o) /\ op[o].mounted)
  <2>1. UNCHANGED <<loading, list, newest>> /\ error' \in BOOLEAN /\ astray' \in BOOLEAN
      BY <1>4 DEF Finish, Fail, BrowserInv, TypeOK, Operation
  <2>2. app = "page" => error' \/ astray'
      BY <1>4 DEF Finish, Fail
  <2>3. TypeOK'
      BY <1>1, <1>2, <2>1 DEF BrowserInv, TypeOK
  <2>4. (SelectedIsShown /\ LoadingIsAwaited /\ NotLockedOut /\ InProgress)'
      BY <1>1, <1>2, <2>1
      DEF BrowserInv, SelectedIsShown, LoadingIsAwaited, NotLockedOut, InProgress
  <2>5. WillBeTrue'
      BY <1>1, <2>2 DEF WillBeTrue
  <2> QED BY <2>3, <2>4, <2>5 DEF BrowserInv
<1> QED BY <1>3, <1>4

-----------------------------------------------------------------------------
LEMMA NextKeepsBrowserInv == BrowserInv /\ [Next]_vars => BrowserInv'
<1> SUFFICES ASSUME BrowserInv, [Next]_vars PROVE BrowserInv'
    OBVIOUS
<1>1. CASE Me \/ SignIn \/ SignOut \/ OtherTabSignsIn \/ BrowserRestarts
    BY <1>1, GateKeeps
<1>2. CASE \E d \in Dirs : Navigate(d)
    BY <1>2, NavigateKeeps
<1>3. CASE \E l \in Listings : ListFiles(l) \/ ListingShown(l) \/ ListingFails(l)
    BY <1>3, ListFilesKeeps, SettledKeeps
<1>4. CASE (\E some \in SUBSET entries : Select(some)) \/ OpenMoveDialog \/ CloseDialog
    BY <1>4, SelectKeeps
<1>5. ASSUME NEW o \in Operations,
             \/ HandleDelete(o)
             \/ \E d \in Dirs : HandleMoveConfirm(o, d)
             \/ \E n \in Names : HandleNewFileConfirm(o, n)
             \/ Serve(o) \/ NextFile(o) \/ Finish(o) \/ Fail(o)
      PROVE  BrowserInv'
  <2>1. path \in Dirs /\ selected \in SUBSET Files /\ dialog \in SUBSET Files
      BY DEF BrowserInv, TypeOK
  <2>2. CASE HandleDelete(o)
      BY <2>1, <2>2, StartKeeps DEF HandleDelete, Kinds
  <2>3. CASE \E d \in Dirs : HandleMoveConfirm(o, d)
      BY <2>1, <2>3, StartKeeps DEF HandleMoveConfirm, Kinds
  <2>4. CASE \E n \in Names : HandleNewFileConfirm(o, n)
    <3>1. PICK n \in Names : /\ Start(o, "create", path, {<<path, n>>} \intersect Files)
                              /\ dialog' = {}
        BY <2>4 DEF HandleNewFileConfirm
    <3>2. {<<path, n>>} \intersect Files \in SUBSET Files /\ "create" \in Kinds
        BY DEF Kinds
    <3> QED BY <2>1, <3>1, <3>2, StartKeeps
  <2> QED BY <1>5, <2>2, <2>3, <2>4, ServeKeeps, NextFileKeeps, EndKeeps
<1>6. CASE UNCHANGED vars
    BY <1>6 DEF vars, remote, view, BrowserInv, TypeOK, SelectedIsShown, LoadingIsAwaited,
                NotLockedOut, WillBeTrue, InProgress, Content
<1> QED BY <1>1, <1>2, <1>3, <1>4, <1>5, <1>6 DEF Next

(* The inductive invariant holds in every reachable state of the page.     *)
THEOREM BrowserInvariance == Spec => []BrowserInv
<1> QED BY InitBrowserInv, NextKeepsBrowserInv, PTL DEF Spec

(* The state of the page has its type, and a page that is gone waits for   *)
(* nothing.                                                                *)
THEOREM BrowserTypeCorrect == Spec => []TypeOK
<1>1. BrowserInv => TypeOK
    BY DEF BrowserInv
<1> QED BY <1>1, BrowserInvariance, PTL

(* The screen is true when nothing is in flight, nothing has failed and    *)
(* nothing ended out of its place.                                         *)
THEOREM ScreenIsTrue == Spec => []QuietIsTrue
<1>1. BrowserInv => QuietIsTrue
    BY DEF BrowserInv, TypeOK, WillBeTrue, QuietIsTrue
<1> QED BY <1>1, BrowserInvariance, PTL

(* A page that is shown has the CSRF cookie.                               *)
THEOREM PageIsNotLockedOut == Spec => []NotLockedOut
<1>1. BrowserInv => NotLockedOut
    BY DEF BrowserInv
<1> QED BY <1>1, BrowserInvariance, PTL

(* "Loading..." is shown only while an answer is on its way.               *)
THEOREM LoadingEnds == Spec => []LoadingIsAwaited
<1>1. BrowserInv => LoadingIsAwaited
    BY DEF BrowserInv
<1> QED BY <1>1, BrowserInvariance, PTL

-----------------------------------------------------------------------------
(* What is left to do of an operation that starts, or goes on.             *)
LEMMA SendLeaves ==
    ASSUME op \in [Operations -> Operation], NEW o \in Operations, NEW request \in Operation,
           NEW todo \in SUBSET Files, Send(o, request, todo)
    PROVE  /\ Left(o)' \subseteq todo
           /\ op'[o].at = "sent"
           /\ op'[o].kind = request.kind
           /\ \A p \in Operations : p # o => op'[p] = op[p]
  BY DEF Send, Left, Operation

(* The files an operation changes are those on the page when the user      *)
(* confirmed it or opened its dialog.                                      *)
THEOREM ChangesWhatWasShown == Spec => OnlyShownChanged
<1> DEFINE Kept(o) == IF op[o].at = "free" /\ op'[o].at # "free"
                      THEN Left(o)' \subseteq Confirmed(o)
                      ELSE Left(o)' \subseteq Left(o)
           Changed == \A o \in Operations : Kept(o)
           Captured == dialog' # dialog => dialog' \subseteq entries
<1>1. ASSUME BrowserInv, Next PROVE Changed
  <2> USE <1>1
  <2>1. /\ op \in [Operations -> Operation] /\ path \in Dirs
        /\ selected \in SUBSET Files /\ selected \subseteq entries
        /\ dialog \in SUBSET Files
      BY DEF BrowserInv, TypeOK, SelectedIsShown
  <2>2. ASSUME NEW o \in Operations, NEW kind \in Kinds, NEW dest \in Dirs,
               NEW todo \in SUBSET Files, Start(o, kind, dest, todo),
               \/ kind = "create"
               \/ kind = "move" /\ todo = dialog
               \/ kind = "delete" /\ todo \subseteq entries
        PROVE  Changed
    <3> DEFINE request == [NoOperation EXCEPT !.kind = kind, !.dir = path, !.dest = dest,
                                              !.mounted = TRUE]
    <3>1. request \in Operation /\ request.kind = kind
        BY <2>1, HomeAssumption DEF Operation, NoOperation
    <3>2. Send(o, request, todo) /\ op[o].at = "free"
        BY <2>2 DEF Start
    <3> HIDE DEF request
    <3>3. /\ Left(o)' \subseteq todo /\ op'[o].kind = kind /\ op'[o].at = "sent"
          /\ \A p \in Operations : p # o => op'[p] = op[p]
        BY <2>1, <3>1, <3>2, SendLeaves
    <3>4. ASSUME NEW p \in Operations, p # o PROVE Kept(p)
        BY <3>3, <3>4 DEF Left
    <3>5. Kept(o)
        BY <2>2, <3>2, <3>3 DEF Confirmed
    <3> QED BY <3>4, <3>5
  <2>3. ASSUME op' \in [Operations -> Operation],
               \A p \in Operations : op'[p].todo \subseteq op[p].todo
                                     /\ op'[p].item \in {op[p].item, None}
                                     /\ (op[p].at = "free" => op'[p].at = "free")
        PROVE  Changed
      BY <2>3 DEF Left
  <2>4. CASE UNCHANGED op
      BY <2>1, <2>3, <2>4
  <2>5. CASE Me \/ SignIn \/ OtherTabSignsIn \/ (\E d \in Dirs : Navigate(d))
             \/ (\E l \in Listings : ListFiles(l) \/ ListingShown(l) \/ ListingFails(l))
             \/ (\E some \in SUBSET entries : Select(some)) \/ OpenMoveDialog \/ CloseDialog
      BY <2>4, <2>5
      DEF Me, SignIn, OtherTabSignsIn, Navigate, ListFiles, ListingShown, ListingFails, Settled,
          Select, OpenMoveDialog, CloseDialog
  <2>6. CASE SignOut \/ BrowserRestarts
    <3>1. \A p \in Operations : op'[p].todo \subseteq op[p].todo
                                /\ op'[p].item \in {op[p].item, None}
                                /\ (op[p].at = "free" => op'[p].at = "free")
      <4>1. CASE SignOut
          BY <2>1, <4>1 DEF SignOut, Operation
      <4>2. CASE BrowserRestarts
        <5> SUFFICES ASSUME NEW p \in Operations
                     PROVE  /\ op'[p].todo \subseteq op[p].todo
                            /\ op'[p].item \in {op[p].item, None}
                            /\ op[p].at = "free" => op'[p].at = "free"
            OBVIOUS
        <5>1. op[p] \in Operation
            BY <2>1
        <5>2. CASE op[p].at = "sent"
            BY <4>2, <5>1, <5>2 DEF BrowserRestarts, Operation
        <5>3. CASE op[p].at # "sent"
          <6>1. op'[p] = NoOperation
              BY <4>2, <5>3 DEF BrowserRestarts
          <6> QED BY <6>1 DEF NoOperation
        <5> QED BY <5>2, <5>3
      <4> QED BY <2>6, <4>1, <4>2
    <3>2. op' \in [Operations -> Operation]
        BY NextKeepsBrowserInv DEF BrowserInv, TypeOK
    <3> QED BY <2>3, <3>1, <3>2
  <2>7. ASSUME NEW o \in Operations,
               \/ HandleDelete(o)
               \/ \E d \in Dirs : HandleMoveConfirm(o, d)
               \/ \E n \in Names : HandleNewFileConfirm(o, n)
        PROVE  Changed
    <3>1. CASE HandleDelete(o)
        BY <2>1, <2>2, <3>1 DEF HandleDelete, Kinds
    <3>2. CASE \E d \in Dirs : HandleMoveConfirm(o, d)
        BY <2>1, <2>2, <3>2 DEF HandleMoveConfirm, Kinds
    <3>3. CASE \E n \in Names : HandleNewFileConfirm(o, n)
      <4>1. PICK n \in Names : Start(o, "create", path, {<<path, n>>} \intersect Files)
          BY <3>3 DEF HandleNewFileConfirm
      <4>2. {<<path, n>>} \intersect Files \in SUBSET Files /\ "create" \in Kinds
          BY DEF Kinds
      <4> QED BY <2>1, <2>2, <4>1, <4>2
    <3> QED BY <2>7, <3>1, <3>2, <3>3
  <2>8. ASSUME NEW o \in Operations, NextFile(o) PROVE Changed
    <3>1. op[o] \in Operation /\ op[o].todo \in SUBSET Files
        BY <2>1 DEF Operation
    <3>2. Left(o)' \subseteq op[o].todo /\ \A p \in Operations : p # o => op'[p] = op[p]
        BY <2>1, <2>8, <3>1, SendLeaves DEF NextFile
    <3> QED BY <2>8, <3>2 DEF NextFile, Left
  <2>9. ASSUME NEW o \in Operations, Serve(o) \/ Finish(o) \/ Fail(o) PROVE Changed
    <3>1. (\E at \in {"ok", "failed"} : Answered(o, at)) \/ op' = [op EXCEPT ![o] = NoOperation]
        BY <2>9 DEF Serve, Finish, Fail
    <3>2. op[o].at # "free"
        BY <2>9 DEF Serve, Finish, Fail, AllServed
    <3>3. \A p \in Operations : op'[p].todo \subseteq op[p].todo
                                /\ op'[p].item \in {op[p].item, None}
                                /\ (op[p].at = "free" => op'[p].at = "free")
      <4>1. \A p \in Operations : p # o => op'[p] = op[p]
          BY <2>1, <3>1 DEF Answered
      <4>2. op'[o].todo \subseteq op[o].todo /\ op'[o].item = None
        <5>1. CASE op' = [op EXCEPT ![o] = NoOperation]
            BY <2>1, <5>1 DEF NoOperation
        <5>2. CASE \E at \in {"ok", "failed"} : Answered(o, at)
          <6>1. PICK at \in {"ok", "failed"} : Answered(o, at)
              BY <5>2
          <6>2. op'[o] = [op[o] EXCEPT !.at = at, !.item = None, !.header = None]
              BY <2>1, <6>1 DEF Answered
          <6>3. op[o] \in Operation
              BY <2>1
          <6> QED BY <6>2, <6>3 DEF Operation
        <5> QED BY <3>1, <5>1, <5>2
      <4> QED BY <3>2, <4>1, <4>2
    <3>4. op' \in [Operations -> Operation]
        BY NextKeepsBrowserInv DEF BrowserInv, TypeOK
    <3> QED BY <2>3, <3>3, <3>4
  <2> QED BY <2>5, <2>6, <2>7, <2>8, <2>9 DEF Next
<1>2. ASSUME BrowserInv, Next PROVE Captured
  <2>1. CASE UNCHANGED dialog \/ dialog' = {}
      BY <2>1
  <2>2. CASE OpenMoveDialog
      BY <1>2, <2>2 DEF OpenMoveDialog, BrowserInv, SelectedIsShown
  <2>3. CASE Me \/ SignIn \/ SignOut \/ OtherTabSignsIn \/ BrowserRestarts
      BY <2>1, <2>3
      DEF Me, SignIn, SignOut, OtherTabSignsIn, BrowserRestarts, Mount, Unmount, view
  <2>4. CASE \/ \E d \in Dirs : Navigate(d)
             \/ \E l \in Listings : ListFiles(l) \/ ListingShown(l) \/ ListingFails(l)
             \/ (\E some \in SUBSET entries : Select(some)) \/ CloseDialog
      BY <2>1, <2>4
      DEF Navigate, ListFiles, ListingShown, ListingFails, Settled, Select, CloseDialog, view
  <2>5. ASSUME NEW o \in Operations,
               \/ HandleDelete(o)
               \/ \E d \in Dirs : HandleMoveConfirm(o, d)
               \/ \E n \in Names : HandleNewFileConfirm(o, n)
               \/ Serve(o) \/ NextFile(o) \/ Finish(o) \/ Fail(o)
        PROVE  Captured
      BY <2>1, <2>5
      DEF HandleDelete, HandleMoveConfirm, HandleNewFileConfirm, Serve, NextFile, Finish, Fail, view
  <2> QED BY <1>2, <2>2, <2>3, <2>4, <2>5 DEF Next
<1>3. BrowserInv /\ [Next]_vars => [Changed /\ Captured]_vars
    BY <1>1, <1>2
<1> QED BY <1>3, InitBrowserInv, NextKeepsBrowserInv, PTL DEF Spec, OnlyShownChanged

=============================================================================
