----------------------------- MODULE FrameBrowser -----------------------------
(***************************************************************************)
(* The frame library: components/GoesData/BrowseTab.tsx, the parts of it   *)
(* under Browse/; the preview it opens is FrameViewers.  Frames are        *)
(* numbered in the order they were captured, newest shown first, one to a  *)
(* page of the list (the code has fifty).  A list is cached per filter and *)
(* read page by page; fetching it, adding a page to it and deleting what   *)
(* it shows overlap in any order.                                          *)
(***************************************************************************)
EXTENDS Requests, SequencesExt

CONSTANT FrameCount  \* frames that are ever fetched; the last one is while the tab is used
ASSUME BrowserAssumption == FrameCount \in Nat \ {0}

VARIABLES
    browse,    \* the tab: filter, lists, selection, dialogs
    fetching,  \* reads of a list in flight: [filter, more, got]
    library,   \* the server's frames
    arrived    \* how many frames it has had
browserVars == <<browse, fetching, library, arrived>>

Filters == {"all", "one"}  \* no filter, and one that keeps every other frame
Newest(filter) == NewestFirst({f \in library : filter = "all" \/ f % 2 = 1})

\* stale: lists that are fetched when they are shown next.  astray: lists that may
\* be out of date without being stale, see fetchNextPage, AnswerDelete and
\* FramesArrive: no fetch that began since has read what is shown, or not all of it.
BrowserInit ==
    /\ arrived = FrameCount - 1 /\ library = 1..arrived
    /\ fetching = {[filter |-> "all", more |-> FALSE, got |-> <<>>]}
    /\ browse = [draft |-> "all", filter |-> "all", stale |-> Filters, astray |-> {},
                 lists |-> [f \in Filters |-> [items |-> <<>>, pages |-> 0, total |-> 0]],
                 selected |-> {}, targets |-> {}]

\* The grid or the rows of cards.
Shown == browse.lists[browse.filter].items
ShownFrames == ToSet(Shown)
hasNextPage == browse.lists[browse.filter].pages < browse.lists[browse.filter].total

-----------------------------------------------------------------------------
(* Reading the lists.  All pages of a list are fetched one after the other in *)
(* the code and at once here: what changes between two of them makes the list *)
(* astray, or has it read anew.                                               *)

Fetch(filter, more) ==
    {x \in fetching : x.filter # filter} \cup {[filter |-> filter, more |-> more, got |-> <<>>]}

\* A list's first fetch is not replaced: who wants it read again gets what it reads.
Joined(filter) == browse.lists[filter].pages = 0 /\ \E x \in fetching : x.filter = filter
Refetch(filter) == IF Joined(filter) THEN fetching ELSE Fetch(filter, FALSE)

\* The filters of the side bar and of the sheet, and Clear all.
EditFilter(filter) ==
    /\ filter # browse.draft
    /\ browse' = [browse EXCEPT !.draft = filter]
    /\ UNCHANGED <<fetching, library, reqVars>>

\* A list comes into view: it is fetched if it is stale, or older than ten seconds.
ShowList(filter, tab) ==
    \/ /\ filter \notin browse.stale \/ \E x \in fetching : x.filter = filter
       /\ browse' = [tab EXCEPT !.filter = filter]
       /\ UNCHANGED fetching
    \/ /\ ~\E x \in fetching : x.filter = filter
       /\ fetching' = Fetch(filter, FALSE)
       /\ browse' = [tab EXCEPT !.filter = filter, !.astray = @ \ {filter}]

\* 300 ms after the last edit.
DebouncedFilter ==
    /\ browse.draft # browse.filter
    /\ ShowList(browse.draft, browse)
    /\ UNCHANGED <<library, reqVars>>

\* The list is pulled down; or the window has come back and nothing is in flight.
RefreshList ==
    /\ ~Joined(browse.filter)
    /\ fetching' = Refetch(browse.filter)
    /\ browse' = [browse EXCEPT !.astray = @ \ {browse.filter}]
    /\ UNCHANGED <<library, reqVars>>

\* The end of the list comes into view, or Load More.  A refetch that is under
\* way is given up for it: the guard is about next pages only.
fetchNextPage ==
    LET f == browse.filter
    IN  /\ hasNextPage
        /\ ~\E x \in fetching : x.filter = f /\ x.more
        /\ fetching' = Fetch(f, TRUE)
        /\ browse' = IF \E x \in fetching : x.filter = f
                     THEN [browse EXCEPT !.astray = @ \cup {f}] ELSE browse
        /\ UNCHANGED <<library, reqVars>>

\* The server's page of a list, by number; a refetch reads as many as there were.
ServeList(x) ==
    LET list == browse.lists[x.filter]
        now == Newest(x.filter)
        size == Min({Max({1, list.pages}), Len(now)})
        page == IF list.pages < Len(now) THEN <<now[list.pages + 1]>> ELSE <<>>
    IN  /\ x.got = <<>>
        /\ fetching' = (fetching \ {x}) \cup {[x EXCEPT !.got = <<
               IF x.more THEN [items |-> list.items \o page, pages |-> list.pages + 1,
                               total |-> Len(now)]
               ELSE [items |-> SubSeq(now, 1, size), pages |-> Max({1, size}),
                     total |-> Len(now)] >>]}
        /\ UNCHANGED <<browse, library, reqVars>>

AnswerList(x) ==
    /\ fetching' = fetching \ {x}
    /\ browse' = IF x.got = <<>>  \* it failed
         THEN [browse EXCEPT !.astray = IF x.more THEN @ ELSE @ \cup {x.filter}]
         ELSE [browse EXCEPT !.lists[x.filter] = x.got[1], !.stale = @ \ {x.filter}]
    /\ UNCHANGED <<library, reqVars>>

-----------------------------------------------------------------------------
(* Selecting, looking at and deleting frames. *)

Toggled(frames, f) == (frames \ {f}) \cup ({f} \ frames)

\* A click on a card with a modifier key, or Compare in its menu.
toggleSelect(f) ==
    /\ browse.targets = {}
    /\ browse' = [browse EXCEPT !.selected = Toggled(@, f)]
    /\ UNCHANGED <<fetching, library, reqVars>>

\* All are thought to be selected when as many are.
AllOrNone(frames) == IF Cardinality(frames) = Len(Shown) THEN {} ELSE ShownFrames

\* The button, and Control-A, which works over an open dialog too.
selectAll ==
    /\ browse' = [browse EXCEPT !.selected = AllOrNone(@)]
    /\ UNCHANGED <<fetching, library, reqVars>>

\* Escape: closes what is open, and clears the selection behind it as well.
EscapeKey ==
    /\ browse' = [browse EXCEPT !.selected = {}, !.targets = {}]
    /\ UNCHANGED <<fetching, library, reqVars>>

\* Process: sent for the selection, one request at a time.
ProcessFrames ==
    /\ browse.targets = {} /\ browse.selected # {} /\ ~isPending("process")
    /\ Send("process", 0, browse.selected)
    /\ UNCHANGED <<browse, fetching, library>>

\* The card's own menu.
AskDeleteOne ==
    /\ browse.targets = {}
    /\ \E f \in ShownFrames : browse' = [browse EXCEPT !.targets = {f}]
    /\ UNCHANGED <<fetching, library, reqVars>>

\* The selection, listed or not: with the buttons, or with the Delete key, which
\* works over an open dialog and while a deletion is in flight; and Cancel.
AskDelete ==
    /\ \/ browse.selected # {} /\ browse' = [browse EXCEPT !.targets = browse.selected]
       \/ browse.targets # {} /\ browse' = [browse EXCEPT !.targets = {}]
    /\ UNCHANGED <<fetching, library, reqVars>>

ConfirmDelete ==
    /\ browse.targets # {} /\ ~isPending("delete")
    /\ Send("delete", 0, browse.targets)
    /\ UNCHANGED <<browse, fetching, library>>

\* The page is left for another one and comes back.
LeaveBrowser ==
    /\ Unmount
    /\ ShowList("all", [browse EXCEPT !.draft = "all", !.selected = {}, !.targets = {}])
    /\ UNCHANGED library

ServeFrames(q) ==
    /\ q.op \in {"delete", "process"}
    /\ \/ /\ library' = IF q.op = "delete" THEN library \ q.val ELSE library
          /\ \E state \in {"ok", "failed"} : Respond(q, state)
       \/ Respond(q, "failed") /\ UNCHANGED library
    /\ UNCHANGED <<browse, fetching>>

\* Mutant: any read in flight is waited for instead of being replaced.
JoinsFetch == IF \E x \in fetching : x.filter = browse.filter THEN fetching
              ELSE Fetch(browse.filter, FALSE)

Invalidated == Refetch(browse.filter)

\* A success empties the selection and closes the dialog, whatever they have
\* become, and has the shown list read again; one of another filter is stale,
\* but a read of it that is in flight will pass for fresh, as will a first read of
\* the one shown.  After a failure the lists stay as they are, also when it was
\* only the answer that was lost.
AnswerDelete(q) ==
    /\ Settle(q) /\ q.op \in {"delete", "process"}
    /\ IF q.op = "delete" /\ q.state = "ok"
       THEN /\ fetching' = Invalidated
            /\ browse' = [browse EXCEPT
                 !.selected = IF q.here THEN {} ELSE @,
                 !.targets = IF q.here THEN {} ELSE @,
                 !.stale = Filters,
                 !.astray = (@ \cup {x.filter : x \in fetching})
                            \ (IF Joined(browse.filter) THEN {} ELSE {browse.filter})]
       ELSE /\ browse' = [browse EXCEPT !.astray = IF q.op = "delete" THEN Filters ELSE @]
            /\ UNCHANGED fetching
    /\ UNCHANGED library

\* Fetched on the server; no list hears of it.
FramesArrive ==
    /\ arrived < FrameCount
    /\ arrived' = arrived + 1 /\ library' = library \cup {arrived + 1}
    /\ browse' = [browse EXCEPT !.astray = Filters]
    /\ UNCHANGED <<fetching, reqVars>>

BrowserNext ==
    \/ FramesArrive
    \/ /\ UNCHANGED arrived
       /\ \/ \E f \in Filters : EditFilter(f)
          \/ DebouncedFilter \/ RefreshList \/ fetchNextPage
          \/ \E x \in fetching : ServeList(x) \/ AnswerList(x)
          \/ \E f \in ShownFrames : toggleSelect(f)
          \/ selectAll \/ EscapeKey
          \/ ProcessFrames \/ AskDeleteOne \/ AskDelete \/ ConfirmDelete \/ LeaveBrowser
          \/ \E q \in reqs : ServeFrames(q) \/ AnswerDelete(q)

-----------------------------------------------------------------------------
(* Properties. *)

BrowserTypeOK ==
    /\ {browse.draft, browse.filter} \cup browse.stale \cup browse.astray \subseteq Filters
    /\ browse.selected \cup browse.targets \subseteq 1..FrameCount
    /\ \A f, g \in fetching : f.filter = g.filter => f = g

\* When nothing is in flight, a list that passes for fresh is the first pages of
\* its filter: deletions and reads, in whatever order they met, have left no
\* frame out and none in twice.  Four ways out of it are the code's own: a next
\* page asked for during a refetch, a first read that a deletion met, a deletion
\* whose answer was lost, and frames that have come since the list was read.
ListIsFirstPages ==
    fetching = {} /\ ~(\E q \in reqs : q.op = "delete") =>
        \A f \in Filters \ (browse.stale \cup browse.astray) :
            LET items == browse.lists[f].items
            IN  /\ Len(items) <= Len(Newest(f))
                /\ items = SubSeq(Newest(f), 1, Len(items))
=============================================================================
