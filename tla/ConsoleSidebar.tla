---------------------------- MODULE ConsoleSidebar -----------------------------
(***************************************************************************)
(* The sidebar: a column on a wide window and a sheet over the page on a   *)
(* narrow one, with a state for each and one toggle for both.              *)
(***************************************************************************)

VARIABLES
    mobile,         \* the window is narrower than the breakpoint
    mounted,        \* DashboardLayout is there: not on /login
    open,           \* of the column; expanded or collapsed
    openMobile,     \* of the sheet
    openCookie      \* the cookie sidebar_state, of all tabs; "none" before it was set

sidebarVars == <<mobile, mounted, open, openMobile, openCookie>>

CookieOf(value) == IF value THEN "true" ELSE "false"

\* SidebarProvider mounts with defaultOpen: nothing reads the cookie.
SidebarMounts ==
    /\ open' = TRUE
    /\ openMobile' = FALSE

SidebarInit ==
    /\ mobile \in BOOLEAN
    /\ mounted \in BOOLEAN
    /\ open = TRUE
    /\ openMobile = FALSE
    /\ openCookie = "none"

setOpen(value) ==
    /\ open' = value
    /\ openCookie' = CookieOf(value)

toggleSidebar ==
    \/ /\ mobile
       /\ openMobile' = ~openMobile
       /\ UNCHANGED <<open, openCookie>>
    \/ /\ ~mobile
       /\ setOpen(~open)
       /\ UNCHANGED openMobile

\* A click on SidebarTrigger, which the sheet covers, or Ctrl-B, which it does not.
Toggle ==
    /\ mounted
    /\ toggleSidebar
    /\ UNCHANGED <<mobile, mounted>>

\* Escape, or a click beside the sheet.
CloseSheet ==
    /\ mounted /\ mobile /\ openMobile
    /\ openMobile' = FALSE
    /\ UNCHANGED <<mobile, mounted, open, openCookie>>

\* useIsMobile: the window crosses the breakpoint.  Neither state follows.
CrossesBreakpoint ==
    /\ mobile' = ~mobile
    /\ UNCHANGED <<mounted, open, openMobile, openCookie>>

\* To /login and back, or the page is loaded again.  Between the dashboard and the
\* servers the layout stays, and an open sheet with it.
LeaveLayout ==
    /\ mounted
    /\ mounted' = FALSE
    /\ UNCHANGED <<mobile, open, openMobile, openCookie>>

EnterLayout ==
    /\ mounted' = TRUE
    /\ SidebarMounts
    /\ UNCHANGED <<mobile, openCookie>>

\* setOpen in another tab.
OtherTabSetsOpen ==
    /\ openCookie' \in {CookieOf(TRUE), CookieOf(FALSE)}
    /\ UNCHANGED <<mobile, mounted, open, openMobile>>

SidebarNext ==
    \/ Toggle \/ CloseSheet \/ CrossesBreakpoint
    \/ LeaveLayout \/ EnterLayout
    \/ OtherTabSetsOpen

SidebarSpec == SidebarInit /\ [][SidebarNext]_sidebarVars

\* Sidebar: the branch for the window there is; the icons of a collapsed column stay.
SidebarShown ==
    IF ~mounted THEN "nothing"
    ELSE IF mobile THEN IF openMobile THEN "sheet" ELSE "nothing"
    ELSE IF open THEN "expanded" ELSE "collapsed"

-----------------------------------------------------------------------------
(* Properties.                                                             *)

\* Two states, one for each kind of window, and a cookie.
SidebarTypeOK ==
    /\ mobile \in BOOLEAN /\ mounted \in BOOLEAN
    /\ open \in BOOLEAN /\ openMobile \in BOOLEAN
    /\ openCookie \in {"none", "true", "false"}

\* A toggle, on whatever window, after whatever crossings of the breakpoint, changes
\* what is shown: the toggle and the rendering choose the same of the two states.
ToggleIsSeen == [][Toggle => SidebarShown' # SidebarShown]_sidebarVars
=============================================================================
