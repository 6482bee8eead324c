-------------------------------- MODULE AppShell --------------------------------
(***************************************************************************)
(* What surrounds every page: components/Layout.tsx with the theme, the    *)
(* drawer and the news of a version, MobileBottomNav.tsx,                  *)
(* KeyboardShortcuts.tsx with hooks/useHotkeys.ts, and the routes of       *)
(* App.tsx.  localStorage survives a reload, the rest does not.            *)
(***************************************************************************)
EXTENDS Integers, Sequences

CONSTANTS
    Versions,  \* of the server, minor * 10 + patch: they only go up
    Routes,    \* the pages that are visited
    MaxVisits  \* pages visited, hence depth of the history: a bound
ASSUME ShellAssumption == Versions \subseteq Nat \ 0..9 /\ "/" \in Routes /\ MaxVisits \in Nat \ {0}

VARIABLES
    shell,    \* the state of the components
    stored,   \* localStorage
    server,   \* the version that runs
    system,   \* the scheme the system prefers
    popups    \* how often the news of a minor version opened by itself
shellVars == <<shell, stored, server, system, popups>>

Themes == {"dark", "light"}
LegacyRedirects == {"/process"}
Unseen == 0
Minor(version) == version \div 10

theme(scheme) == IF stored.theme \in Themes THEN stored.theme ELSE scheme
Loaded(path) ==
    [path |-> path, back |-> <<>>, theme |-> theme(system), version |-> Unseen,
     answer |-> "asked", showWhatsNew |-> FALSE, drawerOpen |-> FALSE, moreOpen |-> FALSE,
     help |-> FALSE, pending |-> FALSE, timer |-> FALSE]

\* What is stored is unset, or the placeholder of an earlier release.
ShellInit ==
    /\ system \in Themes /\ server \in Versions
    /\ stored = [theme |-> system, lastSeen |-> Unseen]
    /\ shell = Loaded("/")
    /\ popups = [v \in {Minor(w) : w \in Versions} |-> 0]

\* The first render stores the theme, the detected one too.
Reload ==
    /\ shell' = Loaded(shell.path)
    /\ stored' = [stored EXCEPT !.theme = theme(system)]
    /\ UNCHANGED <<server, system, popups>>

-----------------------------------------------------------------------------
(* The theme and the version. *)

toggleTheme ==
    /\ \E other \in Themes \ {shell.theme} :
         shell' = [shell EXCEPT !.theme = other] /\ stored' = [stored EXCEPT !.theme = other]
    /\ UNCHANGED <<server, system, popups>>

SystemTurns == system' \in Themes \ {system} /\ UNCHANGED <<shell, stored, server, popups>>

Upgrade ==
    /\ \E v \in Versions : v > server /\ server' = v
    /\ UNCHANGED <<shell, stored, system, popups>>

\* A change of the patch is no news.
isSignificantVersionBump(lastSeen, current) == Minor(lastSeen) # Minor(current)

\* Mutant: what was seen is stored when the dialog closes.
SeenWhenClosed(version) == stored

SeenAtOnce(version) == [stored EXCEPT !.lastSeen = version]

\* The version is asked for once a load; it may not come.
fetchVersion ==
    /\ shell.answer = "asked"
    /\ \/ /\ isSignificantVersionBump(stored.lastSeen, server)
          /\ shell' = [shell EXCEPT !.answer = "none", !.version = server,
                                    !.showWhatsNew = TRUE]
          /\ stored' = SeenAtOnce(server)
          /\ popups' = [popups EXCEPT ![Minor(server)] = @ + 1]
       \/ /\ ~isSignificantVersionBump(stored.lastSeen, server)
          /\ shell' = [shell EXCEPT !.answer = "none", !.version = server]
          /\ UNCHANGED <<stored, popups>>
       \/ shell' = [shell EXCEPT !.answer = "none"] /\ UNCHANGED <<stored, popups>>
    /\ UNCHANGED <<server, system>>

ShowChangelog ==
    /\ ~shell.showWhatsNew
    /\ shell' = [shell EXCEPT !.showWhatsNew = TRUE]
    /\ UNCHANGED <<stored, server, system, popups>>

\* Closing stores what this load knows.
CloseWhatsNew ==
    /\ shell.showWhatsNew
    /\ shell' = [shell EXCEPT !.showWhatsNew = FALSE]
    /\ stored' = IF shell.version = Unseen THEN stored
                 ELSE [stored EXCEPT !.lastSeen = shell.version]
    /\ UNCHANGED <<server, system, popups>>

-----------------------------------------------------------------------------
(* Navigation. *)

\* A page is visited; the keys are listened to anew, their timer stops.
Visit(state, path) ==
    /\ Len(state.back) < MaxVisits
    /\ shell' = [state EXCEPT !.path = IF path \in LegacyRedirects THEN "/settings" ELSE path,
                              !.back = Append(@, state.path), !.timer = FALSE]
    /\ UNCHANGED <<stored, server, system, popups>>

SidebarLink == ~shell.drawerOpen /\ \E path \in Routes : Visit(shell, path)
AddressBar == \E path \in Routes \cup LegacyRedirects : Visit(shell, path)

\* The drawer, and its links, which close it.
Drawer ==
    \/ /\ shell' = [shell EXCEPT !.drawerOpen = ~@]
       /\ UNCHANGED <<stored, server, system, popups>>
    \/ shell.drawerOpen /\ \E path \in Routes : Visit([shell EXCEPT !.drawerOpen = FALSE], path)

\* The bar at the bottom, its sheet, and their links, which close the sheet.
BottomNav ==
    \/ /\ shell' = [shell EXCEPT !.moreOpen = ~@]
       /\ UNCHANGED <<stored, server, system, popups>>
    \/ \E path \in Routes : Visit([shell EXCEPT !.moreOpen = FALSE], path)

\* The browser's button: no link is clicked, so that nothing closes.
Back ==
    /\ shell.back # <<>>
    /\ shell' = [shell EXCEPT !.path = shell.back[Len(shell.back)], !.timer = FALSE,
                              !.back = SubSeq(shell.back, 1, Len(shell.back) - 1)]
    /\ UNCHANGED <<stored, server, system, popups>>

\* A "g" waits half a second for the key that follows it.
PressG ==
    /\ ~shell.pending
    /\ shell' = [shell EXCEPT !.pending = TRUE, !.timer = TRUE]
    /\ UNCHANGED <<stored, server, system, popups>>
SequenceTimeout ==
    /\ shell.timer
    /\ shell' = [shell EXCEPT !.pending = FALSE, !.timer = FALSE]
    /\ UNCHANGED <<stored, server, system, popups>>

PressDestination ==
    /\ shell.pending
    /\ \E path \in Routes : Visit([shell EXCEPT !.pending = FALSE], path)

\* "?" and Escape end a sequence; Escape closes what listens to it.
PressHelp ==
    /\ \/ shell' = [shell EXCEPT !.help = ~@, !.pending = FALSE, !.timer = FALSE]
       \/ shell' = [shell EXCEPT !.help = FALSE, !.drawerOpen = FALSE, !.moreOpen = FALSE,
                                 !.pending = FALSE, !.timer = FALSE]
    /\ UNCHANGED <<stored, server, system, popups>>

ShellNext ==
    \/ Reload \/ toggleTheme \/ SystemTurns \/ Upgrade \/ fetchVersion \/ ShowChangelog
    \/ CloseWhatsNew \/ SidebarLink \/ AddressBar \/ Drawer \/ BottomNav \/ Back
    \/ PressG \/ SequenceTimeout \/ PressDestination \/ PressHelp

-----------------------------------------------------------------------------
(* Properties. *)

\* In one window the news of a version opens by itself once, over reloads, dialogs left open
\* and upgrades between the load, the answer and the closing.
NewsOncePerVersion == \A minor \in DOMAIN popups : popups[minor] <= 1
=============================================================================
