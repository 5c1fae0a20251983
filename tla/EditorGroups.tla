---------------------------- MODULE EditorGroups ----------------------------
(***************************************************************************)
(* The editor panes of the web client: the tabs that the hooks list (chats *)
(* and terminals, files) are spread over up to MaxColumns columns, which   *)
(* are packed to the left after every change.  The column of a tab is kept *)
(* by the page; that a tab exists is decided elsewhere, by the server and  *)
(* by the hooks, and reaches the panes with an effect that runs later.     *)
(* A handler and the state it computes from are one step; the two effects  *)
(* of the page that follow a change of the tabs or of the selection are    *)
(* another.  Tab titles, widths of columns and focus of the keyboard are   *)
(* left out.                                                               *)
(***************************************************************************)
EXTENDS Integers, FiniteSets, SequencesExt

CONSTANTS
    Chats,              \* tabs that are not files: chats and terminals
    Files,
    NoTabId,            \* null
    MaxColumns          \* MAX_EDITOR_COLUMNS

ASSUME EditorAssumption ==
    /\ Chats \cap Files = {} /\ NoTabId \notin Chats \cup Files
    /\ MaxColumns \in Nat /\ MaxColumns >= 2

VARIABLES
    editor,     \* [panes, focus, layout]: EditorGroupsState
    source,     \* the tabs the hooks list
    selection,  \* currentSelectionTabId
    explorer,   \* pendingExplorerFileTabIdsRef
    closing,    \* tabs closed in the panes that the hooks still list
    changed,    \* what changed since the effects last ran
    desktop     \* desktopLayout

editorVars == <<editor, source, selection, explorer, closing, changed, desktop>>

Tabs == Chats \cup Files
Columns == 1..MaxColumns
EmptyPane == [tabs |-> << >>, active |-> NoTabId]

EditorInit ==
    /\ editor = [panes |-> [c \in Columns |-> EmptyPane], focus |-> 1, layout |-> "single"]
    /\ source = {} /\ selection = NoTabId
    /\ explorer = {} /\ closing = {} /\ changed = {}
    /\ desktop \in BOOLEAN

-----------------------------------------------------------------------------
(* The reducers of editorGroups.ts and editorColumns.ts.                   *)
-----------------------------------------------------------------------------
\* A set of numbers in increasing order, each once.
InOrder(S) ==
    CHOOSE s \in [1..Cardinality(S) -> S] :
       Range(s) = S /\ \A i, j \in DOMAIN s : i < j => s[i] < s[j]

\* The elements of s that are in T, in their order.
Filtered(s, T) ==
    LET kept == InOrder({i \in DOMAIN s : s[i] \in T}) IN [i \in DOMAIN kept |-> s[kept[i]]]

Held(pane) == Range(pane.tabs)
Placed(e) == UNION {Held(e.panes[c]) : c \in Columns}
Holding(panes, t) == {c \in Columns : t \in Held(panes[c])}
First(columns) == CHOOSE c \in columns : \A d \in columns : c <= d
Occupied(panes) == {c \in Columns : panes[c].tabs # << >>}

\* The columns a page shows: those with tabs, or the first if there are none.
Shown(e) == {c \in Columns : c = 1 \/ c <= Cardinality(Occupied(e.panes))}

\* The columns that hold tabs move to the left.
Packed(panes) ==
    LET columns == InOrder(Occupied(panes)) IN
    [c \in Columns |-> IF c <= Len(columns) THEN panes[columns[c]] ELSE EmptyPane]

Columned(panes, focus) ==
    [panes |-> panes, focus |-> focus,
     layout |-> IF Cardinality(Occupied(panes)) > 1 THEN "horizontal" ELSE "single"]

\* compactEditorColumns: the focus moves with the tab it is on.
CompactFocusStays(e) == Columned(Packed(e.panes), e.focus)

Compact(e) ==
    LET packed == Packed(e.panes)
        active == e.panes[e.focus].active
        moved  == Holding(packed, active)
    IN Columned(packed,
                IF moved # {} THEN First(moved)
                ELSE IF active # NoTabId \/ packed[e.focus].tabs # << >> THEN e.focus ELSE 1)

\* reconcileEditorGroups: tabs that are gone leave their panes; of the new ones, files
\* opened from the explorer go to the right column, others to the one with the focus.
Reconciled(e, tabs, opened, activate) ==
    LET Kept(pane) ==
            LET left == Filtered(pane.tabs, tabs) IN
            [tabs   |-> left,
             active |-> IF pane.active \in Range(left) THEN pane.active
                        ELSE IF left # << >> THEN left[1] ELSE NoTabId]
        kept   == [c \in Columns |-> Kept(e.panes[c])]
        new    == tabs \ UNION {Held(kept[c]) : c \in Columns}
        files  == SetToSeq(new \cap opened)
        others == SetToSeq(new \ opened)
        target == IF files = << >> THEN e.focus ELSE IF desktop THEN 2 ELSE 1
        filed  == IF files = << >> THEN kept
                  ELSE [kept EXCEPT ![target] = [tabs |-> @.tabs \o files, active |-> Last(files)]]
        Joined(pane) ==
            [tabs   |-> pane.tabs \o others,
             active |-> IF activate \in new THEN activate
                        ELSE IF pane.active # NoTabId THEN pane.active ELSE others[1]]
    IN Compact([e EXCEPT !.focus = target,
                         !.panes = IF others = << >> THEN filed
                                   ELSE [filed EXCEPT ![target] = Joined(@)]])

\* A pane without tab t; if t was its active one, its last tab becomes that.
Lacking(pane, t) ==
    LET left == Filtered(pane.tabs, Tabs \ {t}) IN
    [tabs   |-> left,
     active |-> IF pane.active # t THEN pane.active
                ELSE IF left # << >> THEN Last(left) ELSE NoTabId]

\* moveTabToGroup, moveTabToQuadrant: tab t moves to position i of another column,
\* which gets the focus.
Moved(e, t, c, i) ==
    LET from == First(Holding(e.panes, t)) IN
    IF from = c THEN e
    ELSE Compact([e EXCEPT !.focus = c,
                           !.panes[from] = Lacking(@, t),
                           !.panes[c] = [tabs |-> InsertAt(@.tabs, i, t), active |-> t]])

AtEnd(e, c) == Len(e.panes[c].tabs) + 1

\* destinationForPaneSplit: the first empty column to the right, or the neighbour.
RightOf(e, c) ==
    LET empty == {d \in Columns : d > c /\ e.panes[d].tabs = << >>} IN
    IF empty # {} THEN First(empty) ELSE IF c < MaxColumns THEN c + 1 ELSE c

\* alignEditorActiveTabWithSelection: only in the column with the focus.
Aligned(e, t) ==
    IF t \in Held(e.panes[e.focus]) THEN [e EXCEPT !.panes[e.focus].active = t] ELSE e

-----------------------------------------------------------------------------
(* The hooks: tabs come and go, and one of them is selected.               *)
-----------------------------------------------------------------------------
\* A handler that synchronises the address of the page selects tab t.
SelectTab(t) ==
    /\ selection' = t
    /\ changed' = IF t = selection THEN changed ELSE changed \cup {"selection"}

\* A chat or terminal is opened, here, where it is selected, or elsewhere; or a file
\* by something else than the explorer.
TabAppears(t) ==
    /\ t \notin source
    /\ source' = source \cup {t}
    /\ selection' \in {selection, t}
    /\ changed' = changed \cup {"tabs"} \cup (IF selection' = selection THEN {} ELSE {"selection"})
    /\ UNCHANGED <<editor, explorer, closing, desktop>>

\* A file is opened from the explorer: its place is made before the hooks list it.
OpenFile(f) ==
    /\ f \notin source
    /\ explorer' = explorer \cup {f}
    /\ editor' = IF editor.layout # "single" /\ f \in Held(editor.panes[2]) THEN editor
                 ELSE Reconciled(editor, source \cup {f}, {f}, NoTabId)
    /\ source' = source \cup {f} /\ selection' = f
    /\ changed' = {"tabs", "selection"}
    /\ UNCHANGED <<closing, desktop>>

\* A tab is gone from the list: closed here and now confirmed, or by another client.
\* The hooks select another one, or none.
TabVanishes(t) ==
    /\ t \in source
    /\ source' = source \ {t} /\ closing' = closing \ {t}
    /\ selection' \in IF selection = t THEN source' \cup {NoTabId} ELSE {selection}
    /\ changed' = changed \cup {"tabs"} \cup (IF selection' = selection THEN {} ELSE {"selection"})
    /\ UNCHANGED <<editor, explorer, desktop>>

\* Another tab is selected from outside the panes.
Navigate(t) ==
    /\ t \in source /\ t # selection
    /\ SelectTab(t)
    /\ UNCHANGED <<editor, source, explorer, closing, desktop>>

-----------------------------------------------------------------------------
(* The page.                                                               *)
-----------------------------------------------------------------------------
\* The effects of a render: the tabs are reconciled with the panes, then the active
\* tab with the selection if that is what changed.
Effects ==
    /\ changed # {}
    /\ LET opened == explorer \cap source
           fitted == Reconciled(editor, source, opened, selection)
       IN /\ explorer' = explorer \ opened
          /\ editor' = IF "selection" \in changed /\ selection # NoTabId
                       THEN Aligned(fitted, selection) ELSE fitted
          /\ closing' = closing \ Placed(editor')
    /\ changed' = {}
    /\ UNCHANGED <<source, selection, desktop>>

\* handleFocusGroup: a column on display is clicked, or chosen with the keyboard.
FocusColumn(c) ==
    /\ c \in Shown(editor) /\ c # editor.focus
    /\ editor' = [editor EXCEPT !.focus = c]
    /\ SelectTab(editor.panes[c].active)
    /\ UNCHANGED <<source, explorer, closing, desktop>>

PickTab(c, t) ==
    /\ t \in Held(editor.panes[c])
    /\ editor' = [editor EXCEPT !.focus = c, !.panes[c].active = t]
    /\ SelectTab(t)
    /\ UNCHANGED <<source, explorer, closing, desktop>>

\* handleCloseGroupTab: the tab leaves its pane at once.  The list loses a file at once
\* too; a chat or terminal, when the server or the user has agreed.  What is selected
\* then is the next tab of the pane, or left to the hooks.
CloseTab(c, t) ==
    /\ t \in Held(editor.panes[c])
    /\ editor' = Compact([editor EXCEPT !.panes[c] = Lacking(@, t)])
    /\ source' = source \ (Files \cap {t})
    /\ closing' = closing \cup (Chats \cap {t})
    /\ selection' \in (source \ {t}) \cup {NoTabId}
    /\ changed' = changed \cup (IF t \in Files THEN {"tabs"} ELSE {})
                          \cup (IF selection' = selection THEN {} ELSE {"selection"})
    /\ UNCHANGED <<explorer, desktop>>

\* A tab is dropped on the strip of another column, or put elsewhere in its own.
DropTab(t, c, i) ==
    /\ t \in Placed(editor) /\ c \in Shown(editor) /\ t \notin Held(editor.panes[c])
    /\ i \in 1..AtEnd(editor, c)
    /\ editor' = Moved(editor, t, c, i)
    /\ SelectTab(t)
    /\ UNCHANGED <<source, explorer, closing, desktop>>

ReorderTab(c, t, i) ==
    /\ t \in Held(editor.panes[c]) /\ i \in DOMAIN editor.panes[c].tabs
    /\ editor' = [editor EXCEPT !.panes[c].tabs = InsertAt(Filtered(@, Tabs \ {t}), i, t)]
    /\ UNCHANGED <<source, selection, explorer, closing, changed, desktop>>

\* A tab is dropped on the right edge of a pane, or on the left edge of one that has a
\* neighbour there.
DropOnEdge(t, c, edge) ==
    /\ t \in Placed(editor) /\ c \in Shown(editor)
    /\ edge = "left" => c > 1
    /\ LET to == IF edge = "left" THEN c - 1 ELSE RightOf(editor, c) IN
       /\ to # c
       /\ editor' = Moved(editor, t, to, AtEnd(editor, to))
    /\ SelectTab(t)
    /\ UNCHANGED <<source, explorer, closing, desktop>>

SplitActiveTab ==
    LET t  == editor.panes[editor.focus].active
        to == RightOf(editor, editor.focus)
    IN /\ t # NoTabId
       /\ editor' = Moved(editor, t, to, AtEnd(editor, to))
       /\ UNCHANGED <<source, selection, explorer, closing, changed, desktop>>

\* The window becomes wide or narrow, which reconciles the panes too.
Resize ==
    /\ desktop' = ~desktop
    /\ changed' = changed \cup {"tabs"}
    /\ UNCHANGED <<editor, source, selection, explorer, closing>>

EditorNext ==
    \/ Effects \/ SplitActiveTab \/ Resize
    \/ \E t \in Tabs : TabAppears(t) \/ TabVanishes(t) \/ Navigate(t)
    \/ \E f \in Files : OpenFile(f)
    \/ \E c \in Columns : FocusColumn(c)
    \/ \E t \in Tabs, c \in Columns :
          \/ PickTab(c, t) \/ CloseTab(c, t)
          \/ \E edge \in {"left", "right"} : DropOnEdge(t, c, edge)
          \/ \E i \in 1..Cardinality(Tabs) : DropTab(t, c, i) \/ ReorderTab(c, t, i)

EditorSpec == EditorInit /\ [][EditorNext]_editorVars

-----------------------------------------------------------------------------
OnePlaceEach(panes) ==
    \A c, d \in Columns : \A i \in DOMAIN panes[c].tabs, k \in DOMAIN panes[d].tabs :
       panes[c].tabs[i] = panes[d].tabs[k] => c = d /\ i = k

PackedLeft(panes) == Occupied(panes) = 1..Cardinality(Occupied(panes))

ActiveIsOwn(panes) ==
    \A c \in Columns :
       IF panes[c].tabs = << >> THEN panes[c].active = NoTabId
       ELSE panes[c].active \in Held(panes[c])

LayoutFits(e) ==
    /\ e.focus \in Shown(e)
    /\ e.layout = "horizontal" <=> Cardinality(Occupied(e.panes)) > 1

\* Once the effects have run, the panes hold what the hooks list, except tabs whose
\* closing the hooks have yet to agree to.
PanesMatchTabs == changed = {} => Placed(editor) = source \ closing

\* Whatever is opened, closed, dragged and taken away elsewhere, in any order: every
\* listed tab is in one pane, once; the panes are packed to the left; the tab a pane
\* shows is one of its own; and the focus is on a pane that is on display
\* (editorColumns.ts:47, editorGroups.ts:116).
PanesAreSound ==
    /\ OnePlaceEach(editor.panes) /\ PackedLeft(editor.panes) /\ ActiveIsOwn(editor.panes)
    /\ LayoutFits(editor) /\ PanesMatchTabs
=============================================================================
