----------------------------- MODULE ConsoleTheme ------------------------------
(***************************************************************************)
(* Light or dark: a script of index.html decides before anything is        *)
(* rendered, ThemeProvider decides again when it mounts, and from then on  *)
(* follows the person and the system.  Other tabs share the stored choice. *)
(***************************************************************************)

VARIABLES
    storedTheme,    \* in localStorage; "unset" before the first choice
    systemTheme,    \* what the browser prefers
    phase,          \* "loading" until ThemeProvider has mounted, then "running"
    theme,          \* the provider's state
    applied,        \* the theme and resolved theme at the last run of its effect
    darkness,       \* the class of the document's root
    undisturbed     \* history: nothing has changed since the script

themeVars == <<storedTheme, systemTheme, phase, theme, applied, darkness, undisturbed>>

Looks == {"light", "dark"}
Choices == Looks \union {"system"}

\* Variant: the script knows the stored choice only.
ScriptLook_StoredOnly(s, system) == IF s = "dark" THEN "dark" ELSE "light"

\* The script: dark if that is stored, or if light is not and the system prefers dark.
ScriptLook(s, system) ==
    IF s = "dark" \/ (s # "light" /\ system = "dark") THEN "dark" ELSE "light"

\* ThemeProvider.
FirstTheme(s) == IF s = "unset" THEN "system" ELSE s
Resolved(t, system) == IF t = "system" THEN system ELSE t
resolvedTheme == Resolved(theme, systemTheme)

NeverApplied == [theme |-> "none", look |-> "none"]

ThemeInit ==
    /\ storedTheme \in Choices \union {"unset"}
    /\ systemTheme \in Looks
    /\ phase = "loading"
    /\ theme = "system"
    /\ applied = NeverApplied
    /\ darkness = ScriptLook(storedTheme, systemTheme)
    /\ undisturbed = TRUE

\* The page is loaded again.
LoadPage ==
    /\ phase' = "loading"
    /\ theme' = "system"
    /\ applied' = NeverApplied
    /\ darkness' = ScriptLook(storedTheme, systemTheme)
    /\ undisturbed' = TRUE
    /\ UNCHANGED <<storedTheme, systemTheme>>

\* The provider mounts with what is stored now.
MountProvider ==
    /\ phase = "loading"
    /\ phase' = "running"
    /\ theme' = FirstTheme(storedTheme)
    /\ UNCHANGED <<storedTheme, systemTheme, applied, darkness, undisturbed>>

\* useEffect with [resolvedTheme].
EffectDue == applied.look # resolvedTheme

ApplyTheme ==
    /\ phase = "running"
    /\ EffectDue
    /\ applied' = [theme |-> theme, look |-> resolvedTheme]
    /\ darkness' = resolvedTheme
    /\ UNCHANGED <<storedTheme, systemTheme, phase, theme, undisturbed>>

\* setTheme, from ThemeToggle.
setTheme(next) ==
    /\ phase = "running"
    /\ storedTheme' = next
    /\ theme' = next
    /\ undisturbed' = FALSE
    /\ UNCHANGED <<systemTheme, phase, applied, darkness>>

\* setTheme in another tab: nothing here listens to it.
OtherTabStores ==
    /\ storedTheme' \in Choices
    /\ undisturbed' = FALSE
    /\ UNCHANGED <<systemTheme, phase, theme, applied, darkness>>

\* The system's preference changes, and useSyncExternalStore renders anew.
SystemChanges ==
    /\ systemTheme' \in Looks \ {systemTheme}
    /\ undisturbed' = FALSE
    /\ UNCHANGED <<storedTheme, phase, theme, applied, darkness>>

ThemeNext ==
    \/ LoadPage \/ MountProvider \/ ApplyTheme
    \/ \E next \in Choices : setTheme(next)
    \/ OtherTabStores \/ SystemChanges

ThemeSpec == ThemeInit /\ [][ThemeNext]_themeVars

-----------------------------------------------------------------------------
(* Properties.                                                             *)

\* The class is the one of the last effect, and the theme that of the provider.
ThemeTypeOK ==
    /\ storedTheme \in Choices \union {"unset"}
    /\ systemTheme \in Looks
    /\ phase \in {"loading", "running"}
    /\ theme \in Choices
    /\ applied = NeverApplied \/ applied \in [theme : Choices, look : Looks]
    /\ darkness \in Looks
    /\ applied # NeverApplied => phase = "running" /\ darkness = applied.look
    /\ undisturbed \in BOOLEAN

\* What NoFlash needs to be inductive: while the page loads the script's look stays.
ScriptDecided ==
    undisturbed /\ phase = "loading" => darkness = ScriptLook(storedTheme, systemTheme)

\* The script and the provider decide alike, so that the page does not change its
\* colours while it loads, if neither the choice nor the system has changed since.
NoFlash ==
    undisturbed /\ phase = "running" => darkness = resolvedTheme
=============================================================================
