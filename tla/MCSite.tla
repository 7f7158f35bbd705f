--------------------------------- MODULE MCSite --------------------------------
(***************************************************************************)
(* The site: navigation (Site) and the theme of its pages (Theme).  The    *)
(* two share no state, and the theme looks at nothing but whether a page   *)
(* comes with the Navbar or the Sidebar: a behaviour moves in one of them, *)
(* which `part' says, and leaves the other where it started.               *)
(***************************************************************************)
EXTENDS Site

VARIABLES part, system, blocked, stored, html, toggles, wide, chosen

T == INSTANCE Theme

themeVars == <<system, blocked, stored, html, toggles, wide, chosen>>

MCInit ==
  /\ part \in {"navigation", "theme"}
  /\ Init /\ T!Init
  /\ part = "navigation" => ~ system /\ ~ blocked /\ wide /\ toggles = T!Mounted("navbar", html)
  /\ part = "theme" => hist = <<Page("/")>> /\ ~ cookie

MCNext ==
  /\ part' = part
  /\ \/ part = "navigation" /\ Next /\ UNCHANGED themeVars
     \/ part = "theme" /\ T!Next /\ UNCHANGED vars

MCSpec == MCInit /\ [][MCNext]_<<part, vars, themeVars>>

MCFairness ==
  /\ WF_vars(part = "navigation" /\ GuardRedirects /\ UNCHANGED <<part, themeVars>>)
  /\ WF_vars(part = "navigation" /\ Answers /\ UNCHANGED <<part, themeVars>>)
  /\ WF_vars(part = "navigation" /\ (RefreshEnds \/ SubmitEnds) /\ UNCHANGED <<part, themeVars>>)

MCFairSpec == MCSpec /\ MCFairness

\* Theme's property of the same name: the theme the user has switched to stays
\* (ThemeToggle.tsx, layout.tsx).
ChosenThemeStays == T!ChosenThemeStays

=============================================================================
