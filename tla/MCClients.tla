-------------------------------- MODULE MCClients ------------------------------
(***************************************************************************)
(* Instances for TLC of what uses the Core's API: the parts of the Console,*)
(* its chart, the Agent, the size limit its samples meet, and a client     *)
(* that pages through a history.  A behaviour is one of one part, and the  *)
(* others stay in one of their own states: the parts share no variables,   *)
(* and their states add up instead of multiplying.                         *)
(***************************************************************************)
EXTENDS MetricsHistory, ConsoleSession, ConsoleServers, RotateKeyDialog,
        ConsoleDashboard, ConsoleHealth, RelativeTime, ConsoleTheme, ConsoleSidebar,
        Agent, MetricsChart, SizeLimit

CONSTANT Parts      \* the parts that behaviours of this instance are of

VARIABLE part

\* Ages on both sides of every change of unit, and a clock behind the Core's.
MCMoments ==
    {-2500, -1, 4000, 4999, 5000, 59000, 59999, 60000} \union
    {1000 * s : s \in {3599, 3600, 7199, 7200, 86399, 86400, 172799, 172800}}

\* A point is half as long as the range here.
MCChartBuckets == [w \in {2, 4} |-> w \div 2]

\* The Core's defaults, and thresholds that are not above those of any card for a
\* warning and not below those of any for a critical one.
MCThresholds == {[warning |-> 80, critical |-> 90], [warning |-> 70, critical |-> 95]}

MCUptimes == {0, 59, 60, 3599, 3600, 86399, 86400, 89999, 90000, 172799}

\* At rest on the login page, for behaviours of the other parts: SessionSettles.
SessionRests ==
    /\ cookie = "nobody" /\ path = "/login" /\ from = "none"
    /\ me = Fail(Fetch(NoMe, "nobody"))
    /\ login = NoLogin /\ logout = NoLogout
    /\ crashed = FALSE

ClientsInit ==
    /\ part \in Parts
    /\ Init
    /\ IF part = "session" THEN SessionInit ELSE SessionRests
    /\ ServersInit
    /\ RotateInit
    /\ DashInit /\ (part # "dashboard" => query = "polled" /\ urlServer = 0)
    /\ HealthInit /\ (part # "health" =>
                        /\ samples = [n \in Numbers |-> [m \in Metrics |-> 80]]
                        /\ configured = CHOOSE t \in Thresholds : TRUE)
    /\ TimeInit /\ (part # "time" => clock = 4000 /\ seen = 0 /\ uptime = 0)
    /\ ThemeInit /\ (part # "theme" => storedTheme = "unset" /\ systemTheme = "dark")
    /\ SidebarInit /\ (part # "sidebar" => mobile /\ mounted)
    /\ AgentInit
    /\ ChartInit /\ (part # "chart" => window = 2)
    /\ SizeInit /\ (part # "size" => size = 0)

\* What does not belong to the part stays.
Only(p) ==
    /\ part = p
    /\ UNCHANGED part
    /\ IF p = "history" THEN TRUE ELSE UNCHANGED vars
    /\ IF p = "session" THEN TRUE ELSE UNCHANGED sessionVars
    /\ IF p = "servers" THEN TRUE ELSE UNCHANGED serversVars
    /\ IF p = "rotation" THEN TRUE ELSE UNCHANGED rotateVars
    /\ IF p = "dashboard" THEN TRUE ELSE UNCHANGED dashVars
    /\ IF p = "health" THEN TRUE ELSE UNCHANGED healthVars
    /\ IF p = "time" THEN TRUE ELSE UNCHANGED timeVars
    /\ IF p = "theme" THEN TRUE ELSE UNCHANGED themeVars
    /\ IF p = "sidebar" THEN TRUE ELSE UNCHANGED sidebarVars
    /\ IF p = "agent" THEN TRUE ELSE UNCHANGED agentVars
    /\ IF p = "chart" THEN TRUE ELSE UNCHANGED chartVars
    /\ IF p = "size" THEN TRUE ELSE UNCHANGED sizeVars

ClientsNext ==
    \/ Only("history") /\ Next
    \/ Only("session") /\ SessionNext
    \/ Only("servers") /\ ServersNext
    \/ Only("rotation") /\ RotateNext
    \/ Only("dashboard") /\ DashNext
    \/ Only("health") /\ HealthNext
    \/ Only("time") /\ TimeNext
    \/ Only("theme") /\ ThemeNext
    \/ Only("sidebar") /\ SidebarNext
    \/ Only("agent") /\ AgentNext
    \/ Only("chart") /\ ChartNext
    \/ Only("size") /\ SizeNext

clientsVars == <<part, vars, sessionVars, serversVars, rotateVars, dashVars,
                 healthVars, timeVars, themeVars, sidebarVars, agentVars, chartVars,
                 sizeVars>>

\* The fairness of each part, of a behaviour that is its own.
ClientsFairness ==
    /\ WF_sessionVars(part = "session" /\ AnswerMe)
    /\ SF_sessionVars(part = "session" /\ RedirectToLogin)
    /\ SF_sessionVars(part = "session" /\ LeaveLogin)
    /\ WF_dashVars(part = "dashboard" /\ Ask)
    /\ WF_dashVars(part = "dashboard" /\ CoreReads)
    /\ WF_dashVars(part = "dashboard" /\ \E q \in flying : Arrive(q) \/ Lose(q))

ClientsSpec == ClientsInit /\ [][ClientsNext]_clientsVars /\ ClientsFairness
=============================================================================
