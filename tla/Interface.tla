------------------------------ MODULE Interface ------------------------------
(***************************************************************************)
(* assets/js/interface.js and accessibility.js: which parts of the page    *)
(* can be reached, where the focus goes, the section the address shows,    *)
(* and the preferences several tabs share.  The observers run before the   *)
(* next event of the user, animation frames at some later time.            *)
(***************************************************************************)
EXTENDS Naturals, Sequences, FiniteSets

CONSTANTS
    Tabs,          \* open pages of the browser
    Areas,         \* known sections
    Home,          \* the section shown for an unknown address
    MaxHistory     \* bound: entries of the history

VARIABLES
    narrow,        \* the screen is at most 800 pixels wide
    menu,          \* the navigation is open on a narrow screen
    window,        \* the contents of the modal, 0 when it is closed
    wasOpen,       \* modalWasOpen
    inert,         \* the parts that cannot be reached: "main", "sidebar"
    focus,         \* "body", a control of a part, "dialog" or "preferences"
    back,          \* returnFocus of the modal
    opener,        \* history: the focus when the modal was opened
    prefsOpen,     \* the dialog of the preferences
    prefsBack,     \* its returnFocus
    frame,         \* an enhancement waits for the next frame
    restores,      \* replaced controls wait for it: was the modal open
    heading,       \* so does the title of a section reached by keyboard
    path,          \* the history of the tab: sections by address
    at,            \* the entry it shows
    area,          \* appState.currentSection
    prefs,         \* preferences of every tab
    stored,        \* preferences of the browser
    unsaved,       \* tabs the browser did not let save
    themed,        \* what every tab looks like
    dark,          \* the system prefers a dark theme
    storageEvents       \* storage events under way

pageVars == <<narrow, menu, window, wasOpen, inert, focus, back, opener, prefsOpen, prefsBack, frame, restores, heading>>
frames == <<restores, heading>>
pathVars == <<path, at, area>>
prefVars == <<prefs, stored, unsaved, themed, dark, storageEvents>>
interfaceVars == <<pageVars, pathVars, prefVars>>

Themes == {"system", "dark", "light"}

\* The section an address names, or the first of them.
Known(s) == IF s \in Areas THEN s ELSE Home

\* A tab may be opened with an address that names no section, or with none:
\* the section it then shows is drawn without an entry of its own.
InterfaceInit ==
    /\ narrow = FALSE /\ menu = FALSE /\ window = 0 /\ wasOpen = FALSE
    /\ inert = {} /\ focus = "body" /\ back = "body" /\ opener = "body"
    /\ prefsOpen = FALSE /\ prefsBack = "body" /\ frame = FALSE
    /\ restores = {} /\ heading = FALSE
    /\ \E s \in Areas \union {"unknown"} : path = <<s>> /\ area = Known(s)
    /\ at = 1
    /\ prefs = [t \in Tabs |-> "system"] /\ stored = "system" /\ unsaved = {}
    /\ themed = [t \in Tabs |-> "light"] /\ dark = FALSE /\ storageEvents = {}

(***************************************************************************)
(* Parts of the page and focus.  A part that becomes inert, or a control   *)
(* that goes away, loses the focus to the body.                            *)
(***************************************************************************)
InertParts(modalOpen, menuOpen, isNarrow) ==
    (IF modalOpen \/ (isNarrow /\ menuOpen) THEN {"main"} ELSE {})
        \union (IF modalOpen \/ (isNarrow /\ ~menuOpen) THEN {"sidebar"} ELSE {})

\* updateInertState.
UpdateInert(w, m, n) == inert' = InertParts(w # 0, m, n)

Kept(f) == IF f \in inert' \/ (f = "dialog" /\ window' = 0) THEN "body" ELSE f
Focusable(f) == f # "body" /\ f \notin inert'

\* setMobileMenu.
SetMobileMenu(open) ==
    /\ menu' = open /\ UNCHANGED window
    /\ UpdateInert(window, open, narrow')
    /\ focus' = IF prefsOpen \/ window # 0 THEN Kept(focus)
                ELSE IF open THEN "sidebar"
                ELSE IF menu /\ narrow' THEN "main" ELSE Kept(focus)

ToggleMenu ==
    /\ narrow /\ window = 0 /\ ~prefsOpen
    /\ UNCHANGED narrow /\ SetMobileMenu(~menu)
    /\ UNCHANGED <<wasOpen, back, opener, prefsOpen, prefsBack, frame, frames, pathVars, prefVars>>

ClosesMenu == SetMobileMenu(FALSE)

Resize ==
    /\ narrow' = ~narrow /\ ClosesMenu
    /\ UNCHANGED <<wasOpen, back, opener, prefsOpen, prefsBack, frame, frames, pathVars, prefVars>>

\* A control of a part that can be reached; the native dialog takes all.
MoveFocus ==
    /\ ~prefsOpen
    /\ \E f \in {"main", "sidebar", "dialog"} :
         f \notin inert /\ (f = "dialog" <=> window # 0) /\ focus' = f
    /\ UNCHANGED <<narrow, menu, window, wasOpen, inert, back, opener, prefsOpen, prefsBack, frame, frames, pathVars, prefVars>>

NotesFocus == ~wasOpen

\* openModal, by the user or by an answer that arrives, also over an open form.
OpenModalOver ==
    /\ window' = (window % 2) + 1
    /\ UNCHANGED <<narrow, menu, prefsOpen>> /\ UpdateInert(window', menu, narrow)
    /\ prefsBack' = IF prefsBack = "dialog" THEN "body" ELSE prefsBack
    /\ back' = IF NotesFocus THEN focus ELSE back
    /\ opener' = IF window = 0 THEN focus ELSE opener
    /\ wasOpen' = TRUE /\ frame' = TRUE
    /\ focus' = IF prefsOpen THEN focus ELSE "dialog"
    /\ UNCHANGED <<frames, pathVars, prefVars>>

\* closeModal, by the user or by an answer.
CloseModalNow ==
    /\ window # 0 /\ window' = 0 /\ wasOpen' = FALSE
    /\ UNCHANGED <<narrow, menu, opener, prefsOpen, prefsBack, frame>> /\ UpdateInert(window', menu, narrow)
    /\ focus' = IF ~prefsOpen /\ Focusable(back) THEN back ELSE Kept(focus)
    /\ back' = "body"
    /\ UNCHANGED <<frames, pathVars, prefVars>>

\* renderSection: the controls of the section, and its title, are new ones.
SectionDrawn ==
    /\ focus' = IF focus = "main" THEN "body" ELSE focus
    /\ back' = IF back = "main" THEN "body" ELSE back
    /\ opener' = IF opener = "main" THEN "body" ELSE opener
    /\ prefsBack' = IF prefsBack = "main" THEN "body" ELSE prefsBack
    /\ frame' = TRUE /\ heading' = FALSE
    /\ UNCHANGED <<narrow, menu, window, wasOpen, inert, prefsOpen, pathVars, prefVars>>
Redraw == SectionDrawn /\ UNCHANGED restores

\* The handler of a control draws its section anew, as a filter does.
ReplaceControl ==
    focus = "main" /\ ~prefsOpen /\ SectionDrawn /\ restores' = restores \union {window # 0}

\* preserveReplacedControl, in the next frame: the new control is given the
\* focus nobody else took, if it is there and is of the same section.
RestoreControl(wasModal) ==
    /\ wasModal \in restores /\ restores' = restores \ {wasModal}
    /\ \/ /\ wasModal = (window # 0) /\ ~prefsOpen /\ "main" \notin inert
          /\ focus \in {"body", "main"} /\ focus' = "main"
       \/ UNCHANGED focus
    /\ UNCHANGED <<narrow, menu, window, wasOpen, inert, back, opener, prefsOpen, prefsBack, frame, heading, pathVars, prefVars>>

\* A link of the navigation, pressed by keyboard: its title waits for the focus.
GoByKeyboard ==
    /\ focus = "sidebar" /\ ~prefsOpen /\ window = 0
    /\ UNCHANGED <<narrow, window>> /\ menu' = FALSE /\ UpdateInert(window, FALSE, narrow)
    /\ focus' = IF menu /\ narrow THEN "main" ELSE "body"
    /\ frame' = TRUE /\ heading' = TRUE
    /\ UNCHANGED <<wasOpen, back, opener, prefsOpen, prefsBack, restores, pathVars, prefVars>>

\* enhance, in the next frame: not over a dialog, nor out of a field.
FocusHeading ==
    /\ heading /\ heading' = FALSE
    /\ IF prefsOpen \/ window # 0 \/ "main" \in inert THEN UNCHANGED focus
       ELSE focus' = "main"
    /\ UNCHANGED <<narrow, menu, window, wasOpen, inert, back, opener, prefsOpen, prefsBack, frame, restores, pathVars, prefVars>>

Frame ==
    /\ frame /\ frame' = FALSE
    /\ focus' = IF window # 0 /\ ~prefsOpen /\ focus # "dialog" THEN "dialog" ELSE focus
    /\ UNCHANGED <<narrow, menu, window, wasOpen, inert, back, opener, prefsOpen, prefsBack, frames, pathVars, prefVars>>

\* Escape closes the dialog, else the navigation.
Escape ==
    /\ ~prefsOpen
    /\ \/ CloseModalNow
       \/ /\ window = 0 /\ menu /\ UNCHANGED narrow /\ SetMobileMenu(FALSE)
          /\ UNCHANGED <<wasOpen, back, opener, prefsOpen, prefsBack, frame, frames, pathVars, prefVars>>

\* Tab goes round the dialog or the open navigation.
Tab ==
    LET scope == IF window # 0 THEN "dialog" ELSE IF narrow /\ menu THEN "sidebar" ELSE "none" IN
    /\ ~prefsOpen /\ scope # "none" /\ focus' = scope
    /\ UNCHANGED <<narrow, menu, window, wasOpen, inert, back, opener, prefsOpen, prefsBack, frame, frames, pathVars, prefVars>>

OpenPreferences ==
    /\ ~prefsOpen /\ prefsOpen' = TRUE
    /\ prefsBack' = focus /\ focus' = "preferences"
    /\ UNCHANGED <<narrow, menu, window, wasOpen, inert, back, opener, frame, frames, pathVars, prefVars>>
ClosePreferences ==
    /\ prefsOpen /\ prefsOpen' = FALSE
    /\ focus' = IF prefsBack \in inert \/ (prefsBack = "dialog" /\ window = 0) THEN "body" ELSE prefsBack
    /\ prefsBack' = "body"
    /\ UNCHANGED <<narrow, menu, window, wasOpen, inert, back, opener, frame, frames, pathVars, prefVars>>

PageNext ==
    \/ ToggleMenu \/ Resize \/ MoveFocus \/ OpenModalOver \/ CloseModalNow \/ Redraw \/ Frame \/ Escape \/ Tab
    \/ ReplaceControl \/ (\E wasModal \in BOOLEAN : RestoreControl(wasModal))
    \/ GoByKeyboard \/ FocusHeading \/ OpenPreferences \/ ClosePreferences

(***************************************************************************)
(* Sections and the address.                                               *)
(***************************************************************************)
AddsEntry(entry, s) == entry # s

\* navigateSection: the entries after the one shown go when one is added.
Navigate(s, entries, n) ==
    /\ area' = Known(s)
    /\ IF AddsEntry(entries[n], Known(s))
       THEN path' = Append(SubSeq(entries, 1, n), Known(s)) /\ at' = n + 1
       ELSE path' = entries /\ at' = n
ClickLink(s) ==
    /\ at < MaxHistory /\ Navigate(s, path, at)
    /\ UNCHANGED <<pageVars, prefVars>>
\* popstate.
GoBack ==
    /\ at > 1 /\ Navigate(path[at - 1], path, at - 1)
    /\ UNCHANGED <<pageVars, prefVars>>
GoForward ==
    /\ at < Len(path) /\ Navigate(path[at + 1], path, at + 1)
    /\ UNCHANGED <<pageVars, prefVars>>
\* hashchange.
EditAddress(s) ==
    /\ at + 1 < MaxHistory /\ s # path[at]
    /\ Navigate(s, Append(SubSeq(path, 1, at), s), at + 1)
    /\ UNCHANGED <<pageVars, prefVars>>

PathNext ==
    \/ GoBack \/ GoForward
    \/ \E s \in Areas : ClickLink(s)
    \/ \E s \in Areas \union {"unknown"} : EditAddress(s)

(***************************************************************************)
(* Preferences.                                                            *)
(***************************************************************************)
Look(p, isDark) == IF p = "system" THEN (IF isDark THEN "dark" ELSE "light") ELSE p

\* read, normalize.
Normal(p) == IF p \in Themes THEN p ELSE "system"

\* setPreferences, of the user; the other tabs are told of what is stored.
SetPreferences(t, p) ==
    /\ prefs' = [prefs EXCEPT ![t] = p]
    /\ themed' = [themed EXCEPT ![t] = Look(p, dark)]
    /\ \/ /\ stored' = p /\ unsaved' = unsaved \ {t}
          /\ storageEvents' = IF stored = p THEN storageEvents ELSE storageEvents \union {<<u, p>> : u \in Tabs \ {t}}
       \/ unsaved' = unsaved \union {t} /\ UNCHANGED <<stored, storageEvents>>
    /\ UNCHANGED <<dark, pageVars, pathVars>>
\* In the dialog, by its button, and by the button of the page.
ChooseTheme(t, p) == SetPreferences(t, p)
ResetPreferences(t) == SetPreferences(t, "system")
ToggleTheme(t) == SetPreferences(t, IF themed[t] = "dark" THEN "light" ELSE "dark")

\* Something else writes to the storage of the browser.
StorageGarbled ==
    /\ stored # "garbled" /\ stored' = "garbled"
    /\ storageEvents' = storageEvents \union {<<u, "garbled">> : u \in Tabs}
    /\ UNCHANGED <<prefs, unsaved, themed, dark, pageVars, pathVars>>

(* Mutant: the value of the event is taken. *)
ReadNowEvent(v) == Normal(v)

ReadNow(v) == Normal(stored)

Applies(t, p) == [themed EXCEPT ![t] = Look(p, dark)]

StorageEvent(n) ==
    /\ storageEvents' = storageEvents \ {n}
    /\ prefs' = [prefs EXCEPT ![n[1]] = ReadNow(n[2])] /\ unsaved' = unsaved \ {n[1]}
    /\ themed' = Applies(n[1], ReadNow(n[2]))
    /\ UNCHANGED <<stored, dark, pageVars, pathVars>>
SystemTheme ==
    /\ dark' = ~dark
    /\ themed' = [t \in Tabs |-> Look(prefs[t], dark')]
    /\ UNCHANGED <<prefs, stored, unsaved, storageEvents, pageVars, pathVars>>

PrefNext ==
    \/ StorageGarbled \/ SystemTheme
    \/ \E t \in Tabs : ToggleTheme(t) \/ ResetPreferences(t) \/ \E p \in Themes : ChooseTheme(t, p)
    \/ \E n \in storageEvents : StorageEvent(n)

(***************************************************************************)
(* Properties.                                                             *)
(***************************************************************************)
\* What cannot be reached is what the dialog or the navigation covers, through
\* every change of the width, of both and of the preferences.
InertFits == inert = InertParts(window # 0, menu, narrow) /\ (menu => narrow)

\* The focus is never in a part that cannot be reached nor behind the preferences,
\* whichever frames give it to a title or to a control that was replaced.
FocusCanBeReached == focus \notin inert /\ (prefsOpen => focus \notin {"main", "sidebar"})

\* Closing the dialog puts the focus where it was when the first of a row of
\* dialogs was opened, if that can be reached again.
FocusComesBack ==
    [][window # 0 /\ window' = 0 /\ ~prefsOpen /\ opener # "body" /\ opener \notin inert'
           => focus' = opener]_interfaceVars

\* The section shown is the one the address names, after every step through the
\* history; only the address a tab was opened with may name none, while it is the
\* whole history.  No entry repeats the one before it, so that going back to an
\* entry that names a section shows another one.  (Before an entry that names
\* none nobody gets by going back: navigateSection adds the first section again.)
HistoryIsKept ==
    /\ area = IF Len(path) = 1 THEN Known(path[1]) ELSE path[at]
    /\ \A i \in 2..Len(path) : path[i] # path[i - 1]

\* Tabs whose last choice could be stored agree once the events have arrived,
\* whatever their order.
TabsAgree == storageEvents = {} => \A t \in Tabs \ unsaved : prefs[t] = Normal(stored)

\* A tab looks as its preferences and the system say.
LooksAsPreferred == \A t \in Tabs : themed[t] = Look(prefs[t], dark)

\* The address, what can be reached and the preferences stay together.
InterfaceSafety == HistoryIsKept /\ InertFits /\ FocusCanBeReached /\ TabsAgree /\ LooksAsPreferred
=============================================================================
