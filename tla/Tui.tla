--------------------------------- MODULE Tui ---------------------------------
(***************************************************************************)
(* The terminal interface: a list of sessions, found by a search worker,   *)
(* and a preview of the selected one, rendered by a preview worker.  The   *)
(* loop handles keys and answers one at a time; a worker drops all queued  *)
(* requests but the newest, and the loop drops every answer whose request  *)
(* id is no longer the active one.  While a query is typed on the home     *)
(* screen the search waits for a pause.                                    *)
(*                                                                         *)
(* A request whose id was replaced is Old wherever it is: in the queue,    *)
(* at the worker or in the channel back.  Both workers answer through one  *)
(* channel in any order, so each has a part of it here.  `query` is the    *)
(* text in the search field; the other filters (source, kind, project,     *)
(* machine, range, grouping) only make a search be asked again, and so     *)
(* does the project field, which is like the search field.  `view` is how  *)
(* the preview is to look: its mode, the tools shown and the text to find, *)
(* whose field counts as part of the preview.  A list and a preview are    *)
(* settled when loaded, empty or in error after an answer, and a preview   *)
(* of nothing is none.  The charts, the timeline's rows and the list of    *)
(* projects are left out.                                                  *)
(*                                                                         *)
(* Source: src/tui.rs.                                                     *)
(***************************************************************************)
EXTENDS Sequences, Naturals

CONSTANTS
    Sessions,   \* what a search may find
    Texts,      \* queries, besides the empty one
    Views,      \* ways to look at a session
    Blank,      \* the empty query, no session
    Old,        \* a request whose id was replaced
    Idle,       \* a worker without a request
    MaxQueue,   \* bound: searches waiting for the worker
    MaxRenders, \* bound: previews waiting for the worker
    MaxAnswers  \* bound: answers waiting for the loop, from each worker

Queries == Texts \cup {Blank}
Lists == {l \in UNION {[1..n -> Sessions] : n \in 0..2} :
            \A i, j \in DOMAIN l : l[i] = l[j] => i = j}
Looks == Sessions \X Views   \* what a preview is of
New == "new"                \* a search request with the active id

VARIABLES
    layout,       \* layout_mode
    focus,
    return_to,    \* detail_return_mode in the layout Detail, elsewhere List
    query,
    view,
    debounce,     \* pending_home_search is set
    list,         \* sessions_state
    results,
    selected,     \* 0 for none
    preview,      \* detail_state
    last_detail,  \* last_detail_session with _mode and _find, Blank for None
    last_query,   \* last_detail_query
    previewed,    \* what detail_lines are of
    searches,     \* search requests not received yet
    searching,    \* the request the search worker has
    found,        \* its answers not handled yet
    renders,      \* the same for the preview worker
    rendering,
    rendered

search_worker == <<searches, searching, found>>
preview_worker == <<renders, rendering, rendered>>
list_vars == <<debounce, list, results, search_worker>>
preview_vars == <<preview, last_detail, last_query, previewed, preview_worker>>
screen == <<layout, focus, return_to, query, view, selected>>
tui_vars == <<screen, list_vars, preview_vars>>

Layouts == {"Home", "Split", "List", "Timeline", "Detail"}
Focuses == {"Query", "List", "Preview"}
LoadStates == {"none", "loading", "settled"}

TypeOK ==
    /\ layout \in Layouts /\ focus \in Focuses /\ return_to \in {"Home", "List"}
    /\ query \in Queries /\ view \in Views /\ debounce \in BOOLEAN
    /\ list \in LoadStates /\ preview \in LoadStates
    /\ results \in Lists /\ selected \in 0..Len(results)
    /\ last_detail \in Looks \cup {Blank} /\ last_query \in Queries
    /\ previewed \in Looks \cup {Blank}
    /\ searches \in Seq({New, Old}) /\ Len(searches) <= MaxQueue
    /\ searching \in {New, Old, Idle}
    /\ found \in Seq({New, Old}) /\ Len(found) <= MaxAnswers
    /\ renders \in Seq(Looks \cup {Old}) /\ Len(renders) <= MaxRenders
    /\ rendering \in Looks \cup {Old, Idle}
    /\ rendered \in Seq(Looks \cup {Old}) /\ Len(rendered) <= MaxAnswers

-----------------------------------------------------------------------------
(* next_request_id: whatever is under way is old.                          *)
AllOld(s) == [i \in DOMAIN s |-> Old]

(* A mutant of SearchOutdated: the id stays the one of the search under    *)
(* way.                                                                    *)
SearchNotOutdated == UNCHANGED search_worker

(* A search that is still to be sent takes a new id already.               *)
SearchOutdated ==
    /\ searches' = AllOld(searches) /\ found' = AllOld(found)
    /\ searching' = IF searching = Idle THEN Idle ELSE Old

(* kickoff_search.                                                         *)
KickoffSearch ==
    /\ Len(searches) < MaxQueue
    /\ debounce' = FALSE /\ list' = "loading"
    /\ searches' = Append(AllOld(searches), New) /\ found' = AllOld(found)
    /\ searching' = IF searching = Idle THEN Idle ELSE Old
    /\ UNCHANGED results

(* schedule_home_search.                                                   *)
ScheduleHomeSearch ==
    /\ debounce' = TRUE /\ list' = "loading"
    /\ SearchOutdated
    /\ UNCHANGED results

RenderOutdated ==
    /\ rendered' = AllOld(rendered)
    /\ rendering' = IF rendering = Idle THEN Idle ELSE Old

(* clear_detail.                                                           *)
ClearDetail ==
    /\ preview' = "none" /\ previewed' = Blank
    /\ last_detail' = Blank /\ last_query' = Blank
    /\ renders' = AllOld(renders) /\ RenderOutdated

RequestDetail(wanted) ==
    /\ Len(renders) < MaxRenders
    /\ preview' = "loading" /\ previewed' = Blank
    /\ last_detail' = wanted /\ last_query' = query'
    /\ renders' = Append(AllOld(renders), wanted) /\ RenderOutdated

(* update_detail, as the last call of a handler; `last` is Blank where   *)
(* the handler has set last_detail_session to None.                        *)
UpdateDetail(last) ==
    IF layout' = "Home"
    THEN last_detail' = last /\ UNCHANGED <<preview, last_query, previewed, preview_worker>>
    ELSE IF selected' = 0 THEN ClearDetail
    ELSE LET wanted == <<results'[selected'], view'>> IN
         IF last = wanted /\ last_query = query' THEN UNCHANGED preview_vars
         ELSE RequestDetail(wanted)

Init ==
    /\ layout = "Home" /\ focus = "Query" /\ return_to = "List"
    /\ query \in Queries /\ view \in Views /\ debounce = FALSE
    /\ list = "loading" /\ results = <<>> /\ selected = 0
    /\ preview = "none" /\ last_detail = Blank /\ last_query = Blank /\ previewed = Blank
    /\ searches = <<New>> /\ searching = Idle /\ found = <<>>
    /\ renders = <<>> /\ rendering = Idle /\ rendered = <<>>

-----------------------------------------------------------------------------
(* The home screen (handle_home_key, handle_home_mouse).  A typed key, a   *)
(* backspace or Escape in the search field.                                *)
TypeAtHome(text) ==
    /\ layout = "Home" /\ focus = "Query" /\ text # query
    /\ query' = text /\ ScheduleHomeSearch
    /\ UNCHANGED <<layout, focus, return_to, view, selected, preview_vars>>

SelectFirst == selected' = IF selected = 0 /\ results # <<>> THEN 1 ELSE selected

(* home_focus_list.                                                        *)
FocusList ==
    /\ layout = "Home" /\ results # <<>> /\ focus' = "List" /\ SelectFirst
    /\ UNCHANGED <<layout, return_to, query, view, list_vars, preview_vars>>

FocusQuery ==
    /\ layout = "Home" /\ focus = "List" /\ focus' = "Query"
    /\ UNCHANGED <<layout, return_to, query, view, selected, list_vars, preview_vars>>

(* enter_browse.                                                           *)
EnterBrowse ==
    /\ layout' = "Split" /\ focus' = "List" /\ SelectFirst
    /\ UNCHANGED <<return_to, query, view>>
    /\ UpdateDetail(Blank)

(* Enter in the search field sends a waiting search first; Tab does not.   *)
EnterAtHome ==
    /\ layout = "Home" /\ focus = "Query"
    /\ IF debounce THEN KickoffSearch ELSE UNCHANGED list_vars
    /\ \/ query # Blank /\ EnterBrowse
       \/ query = Blank /\ results # <<>> /\ focus' = "List" /\ SelectFirst
          /\ UNCHANGED <<layout, return_to, query, view, preview_vars>>
       \/ query = Blank /\ results = <<>> /\ UNCHANGED <<screen, preview_vars>>

TabAtHome == layout = "Home" /\ UNCHANGED list_vars /\ EnterBrowse

(* apply_home_dropdown.                                                    *)
ApplyDropdown ==
    /\ layout = "Home" /\ KickoffSearch
    /\ UNCHANGED <<screen, preview_vars>>

(* enter_full_history, from the popup or from the list.                    *)
EnterFullHistory ==
    /\ layout \in {"Home", "List"} /\ focus = "List"
    /\ return_to' = layout
    /\ layout' = "Detail" /\ focus' = "Preview" /\ view' \in Views
    /\ UNCHANGED <<query, selected, list_vars>>
    /\ UpdateDetail(Blank)

-----------------------------------------------------------------------------
(* move_selection, and a click on the list.  A mutant: the preview stays.  *)
MoveSelectionOnly(to) ==
    /\ layout # "Timeline" /\ focus = "List" /\ to \in DOMAIN results
    /\ selected' = to
    /\ UNCHANGED <<layout, focus, return_to, query, view, list_vars, preview_vars>>

MoveSelection(to) ==
    /\ layout # "Timeline" /\ focus = "List" /\ to \in DOMAIN results
    /\ selected' = to
    /\ UNCHANGED <<layout, focus, return_to, query, view, list_vars>>
    /\ UpdateDetail(last_detail)

Browsing == layout # "Home"

(* toggle_preview_mode, toggle_tools and, in the find field, update_find.  *)
ChangeView(v) ==
    /\ Browsing /\ focus \in {"List", "Preview"}
    /\ view' = v
    /\ UNCHANGED <<layout, focus, return_to, query, selected, list_vars>>
    /\ UpdateDetail(Blank)

(* focus_next, focus_prev, the keys that jump to a field and the mouse.    *)
MoveFocus(to) ==
    /\ Browsing /\ to # focus /\ focus' = to
    /\ query' = IF focus = "List" /\ to = "Query" THEN Blank ELSE query
    /\ UNCHANGED <<layout, return_to, view, selected, list_vars, preview_vars>>

(* Typing in the query field asks for nothing until Enter.                 *)
TypeQuery(text) ==
    /\ Browsing /\ focus = "Query" /\ query' = text
    /\ UNCHANGED <<layout, focus, return_to, view, selected, list_vars, preview_vars>>

Submit ==
    /\ Browsing /\ focus = "Query"
    /\ IF layout = "Timeline" THEN UNCHANGED list_vars ELSE KickoffSearch
    /\ focus' = IF layout = "Detail" THEN "Preview" ELSE "List"
    /\ UNCHANGED <<layout, return_to, query, view, selected, preview_vars>>

(* cycle_session_kind searches in every layout; the source key does so     *)
(* outside the timeline, which it only loads again.                        *)
FilterKey ==
    /\ Browsing /\ focus \in {"List", "Preview"}
    /\ KickoffSearch
    /\ UNCHANGED <<screen, preview_vars>>

(* toggle_layout_mode.                                                     *)
ToggleLayout ==
    /\ Browsing /\ focus \in {"List", "Preview"}
    /\ layout' = CASE layout = "Split" -> "List"
                   [] layout = "List"  -> "Timeline"
                   [] OTHER            -> "Split"
    /\ focus' = IF layout \in {"Split", "List"} THEN "List" ELSE focus
    /\ return_to' = "List"
    /\ UNCHANGED <<query, view, selected, list_vars, preview_vars>>

(* open_selected_timeline_project restores the query of the timeline.      *)
OpenTimelineProject(text) ==
    /\ layout = "Timeline" /\ focus = "List"
    /\ query' = text /\ layout' = "List" /\ KickoffSearch
    /\ UNCHANGED <<focus, return_to, view, selected, preview_vars>>

(* enter_preview.                                                          *)
EnterPreview ==
    /\ layout \in {"Split", "Detail"} /\ focus = "List"
    /\ layout' = "Split" /\ focus' = "Preview" /\ return_to' = "List"
    /\ UNCHANGED <<query, view, selected, list_vars, preview_vars>>

(* exit_detail.                                                            *)
ExitDetail ==
    /\ layout = "Detail"
    /\ layout' = return_to /\ focus' = "List" /\ return_to' = "List"
    /\ UNCHANGED <<query, view, selected, list_vars, preview_vars>>

(* go_home: a query, a text to find or a range is cleared and searched     *)
(* without.                                                                *)
GoHome ==
    /\ layout \in {"Split", "List", "Timeline"} /\ focus = "List"
    /\ layout' = "Home" /\ focus' = "Query" /\ query' = Blank
    /\ \/ KickoffSearch /\ view' \in Views
       \/ query = Blank /\ UNCHANGED <<list_vars, view>>
    /\ UNCHANGED <<return_to, selected, preview_vars>>

-----------------------------------------------------------------------------
(* The loop: the pause is over, or a refresh of the index is done.         *)
FlushHomeSearch ==
    /\ debounce /\ KickoffSearch
    /\ UNCHANGED <<screen, preview_vars>>

IndexDone ==
    /\ KickoffSearch
    /\ UNCHANGED <<screen, preview_vars>>

(* The workers keep only the newest queued request.                        *)
Newest(s) == s[Len(s)]

TakeSearch ==
    /\ searching = Idle /\ searches # <<>>
    /\ searching' = Newest(searches) /\ searches' = <<>>
    /\ UNCHANGED <<found, debounce, list, results, screen, preview_vars>>

AnswerSearch ==
    /\ searching # Idle /\ Len(found) < MaxAnswers
    /\ found' = Append(found, searching) /\ searching' = Idle
    /\ UNCHANGED <<searches, debounce, list, results, screen, preview_vars>>

TakeRender ==
    /\ rendering = Idle /\ renders # <<>>
    /\ rendering' = Newest(renders) /\ renders' = <<>>
    /\ UNCHANGED <<rendered, preview, last_detail, last_query, previewed, screen, list_vars>>

AnswerRender ==
    /\ rendering # Idle /\ Len(rendered) < MaxAnswers
    /\ rendered' = Append(rendered, rendering) /\ rendering' = Idle
    /\ UNCHANGED <<renders, preview, last_detail, last_query, previewed, screen, list_vars>>

-----------------------------------------------------------------------------
(* handle_search_update.  Results replace the list and the selection, and  *)
(* the preview is asked for again.                                         *)
HandleResults(new) ==
    /\ found # <<>> /\ Head(found) # Old
    /\ found' = Tail(found)
    /\ results' = new /\ list' = "settled"
    /\ selected' = IF new = <<>> THEN 0 ELSE 1
    /\ UNCHANGED <<debounce, searches, searching, layout, focus, return_to, query, view>>
    /\ UpdateDetail(Blank)

HandleSearchError ==
    /\ found # <<>> /\ Head(found) # Old
    /\ found' = Tail(found) /\ list' = "settled"
    /\ UNCHANGED <<debounce, results, searches, searching, screen, preview_vars>>

IgnoreSearch ==
    /\ found # <<>> /\ Head(found) = Old
    /\ found' = Tail(found)
    /\ UNCHANGED <<debounce, list, results, searches, searching, screen, preview_vars>>

(* The lines of a preview; none of them, or an error.                      *)
HandleRender ==
    /\ rendered # <<>> /\ Head(rendered) # Old
    /\ rendered' = Tail(rendered) /\ preview' = "settled" /\ previewed' = Head(rendered)
    /\ UNCHANGED <<last_detail, last_query, renders, rendering, screen, list_vars>>

IgnoreRender ==
    /\ rendered # <<>> /\ Head(rendered) = Old
    /\ rendered' = Tail(rendered)
    /\ UNCHANGED <<preview, last_detail, last_query, previewed, renders, rendering, screen, list_vars>>

Next ==
    \/ \E t \in Queries : TypeAtHome(t) \/ TypeQuery(t) \/ OpenTimelineProject(t)
    \/ FocusList \/ FocusQuery \/ EnterAtHome \/ TabAtHome \/ ApplyDropdown \/ EnterFullHistory
    \/ \E i \in 1..2 : MoveSelection(i)
    \/ \E v \in Views : ChangeView(v)
    \/ \E f \in Focuses : MoveFocus(f)
    \/ Submit \/ FilterKey \/ ToggleLayout \/ EnterPreview \/ ExitDetail \/ GoHome
    \/ FlushHomeSearch \/ IndexDone
    \/ TakeSearch \/ AnswerSearch \/ TakeRender \/ AnswerRender
    \/ \E l \in Lists : HandleResults(l)
    \/ HandleSearchError \/ IgnoreSearch
    \/ HandleRender \/ IgnoreRender

Spec == Init /\ [][Next]_tui_vars

-----------------------------------------------------------------------------
Coming(queue, worker, answers) ==
    \/ \E s \in {queue, answers} : s # <<>> /\ s[Len(s)] # Old
    \/ worker \notin {Old, Idle}

(* A list is shown as loaded only when no newer search is under way or     *)
(* waits for a pause in the typing: late answers to superseded searches    *)
(* never settle it.  And a list that is loading will be answered.          *)
NewestIsListed ==
    (list = "loading") <=> (debounce \/ Coming(searches, searching, found))

(* Wherever the preview is visible it is the one of the selected session,  *)
(* looked at the way the reader has chosen, whatever came late from either *)
(* worker; a preview that is loading will be rendered.                     *)
SelectionIsPreviewed ==
    /\ layout # "Home" /\ preview = "settled" =>
           /\ selected # 0 /\ previewed[1] = results[selected] /\ previewed[2] = view
    /\ preview = "loading" => Coming(renders, rendering, rendered)

=============================================================================
