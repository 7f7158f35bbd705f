--------------------------------- MODULE Theme ---------------------------------
(***************************************************************************)
(* The light and the dark theme: the class of the html element, the value  *)
(* in localStorage, the system's preference and the buttons that switch    *)
(* (frontend/components/ThemeToggle.tsx, the script of app/layout.tsx, the *)
(* buttons of Navbar.tsx and Sidebar.tsx).                                 *)
(*                                                                         *)
(* Each button has its own idea of the theme, which it forms when it comes *)
(* onto the page.  The Navbar has two, of which the width of the window    *)
(* shows one.                                                              *)
(***************************************************************************)
EXTENDS Integers

CONSTANT None

Slots == {"desktop", "mobile", "sidebar"}
Pages == {"navbar", "sidebar"}

VARIABLES
  system,   \* does the system prefer the dark theme?
  blocked,  \* does every use of localStorage throw?
  stored,   \* poryflux-theme: is it dark?
  html,     \* is the page dark?
  toggles,  \* [Slots -> ..]: the state `dark' of each button on the page
  wide,     \* is the window wider than the breakpoint md?
  chosen    \* history: the theme the user switched to last, unless it could not be stored

vars == <<system, blocked, stored, html, toggles, wide, chosen>>

SlotsOf(page) == IF page = "navbar" THEN {"desktop", "mobile"} ELSE {"sidebar"}

\* The buttons of a page, after their effects have run.
Mounted(page, dark) == [s \in Slots |-> IF s \in SlotsOf(page) THEN dark ELSE None]

\* Faulty variant: the preference of the system is asked even if the user has chosen.
ScriptAnyDark == ~ blocked /\ (stored = TRUE \/ system)

\* THEME_SCRIPT: is the page to be dark?
Script == ~ blocked /\ (stored = TRUE \/ (stored = None /\ system))

Visible(s) ==
  /\ toggles[s] # None
  /\ (s = "desktop" => wide) /\ (s = "mobile" => ~ wide)

Init ==
  /\ system \in BOOLEAN /\ blocked \in BOOLEAN /\ stored = None
  /\ html = Script
  /\ \E page \in Pages : toggles = Mounted(page, html)
  /\ wide \in BOOLEAN
  /\ chosen = None

\* A page is loaded: the script runs before anything is shown.
Load(page) ==
  /\ html' = Script
  /\ toggles' = Mounted(page, html')
  /\ chosen' = IF stored = chosen /\ ~ blocked THEN chosen ELSE None
  /\ UNCHANGED <<system, blocked, stored, wide>>

\* The router shows another page.
Navigate(page) ==
  /\ toggles' = Mounted(page, html)
  /\ UNCHANGED <<system, blocked, stored, html, wide, chosen>>

\* toggle(): what this button takes for the theme is switched; the failure to store it
\* is ignored.
Toggle(s) ==
  /\ Visible(s)
  /\ toggles' = [toggles EXCEPT ![s] = ~ @]
  /\ html' = toggles'[s] /\ chosen' = toggles'[s]
  /\ stored' \in IF blocked THEN {stored} ELSE {stored, toggles'[s]}
  /\ UNCHANGED <<system, blocked, wide>>

Resize ==
  /\ wide' = ~ wide
  /\ UNCHANGED <<system, blocked, stored, html, toggles, chosen>>

SystemChanges ==
  /\ system' = ~ system
  /\ UNCHANGED <<blocked, stored, html, toggles, wide, chosen>>
-----------------------------------------------------------------------------
Next ==
  \/ \E page \in Pages : Load(page) \/ Navigate(page)
  \/ \E s \in Slots : Toggle(s)
  \/ Resize \/ SystemChanges

Spec == Init /\ [][Next]_vars
-----------------------------------------------------------------------------
\* The theme the user has switched to stays, over navigation, reloads and changes of
\* the system's preference, unless it could not be stored (ThemeToggle.tsx, toggle;
\* layout.tsx, THEME_SCRIPT).
ChosenThemeStays == chosen # None => html = chosen

=============================================================================
