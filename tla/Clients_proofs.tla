---------------------------- MODULE Clients_proofs -----------------------------
(***************************************************************************)
(* Theorems about the parts of the Console, the Agent, the chart and the   *)
(* size limit, for any users, servers, levels, moments, intervals, sizes   *)
(* and numbers of requests.                                                *)
(***************************************************************************)
EXTENDS ConsoleSession, ConsoleServers, RotateKeyDialog, ConsoleDashboard,
        ConsoleHealth, RelativeTime, ConsoleTheme, ConsoleSidebar, Agent,
        MetricsChart, SizeLimit, FiniteSetTheorems, TLAPS

-----------------------------------------------------------------------------
(* Theme.                                                                  *)

LEMMA ThemeStep ==
    ASSUME ThemeTypeOK, ScriptDecided, NoFlash, [ThemeNext]_themeVars
    PROVE  ThemeTypeOK' /\ ScriptDecided' /\ NoFlash'
<1> USE DEF ThemeTypeOK, ScriptDecided, NoFlash, resolvedTheme, Resolved, Looks, Choices,
            NeverApplied
<1>1. CASE LoadPage
  BY <1>1 DEF LoadPage, ScriptLook
<1>2. CASE MountProvider
  BY <1>2 DEF MountProvider, ScriptLook, FirstTheme
<1>3. CASE ApplyTheme
  BY <1>3 DEF ApplyTheme
<1>4. ASSUME NEW next \in Choices, setTheme(next)
      PROVE  ThemeTypeOK' /\ ScriptDecided' /\ NoFlash'
  BY <1>4 DEF setTheme
<1>5. CASE OtherTabStores
  BY <1>5 DEF OtherTabStores
<1>6. CASE SystemChanges
  BY <1>6 DEF SystemChanges
<1>7. CASE UNCHANGED themeVars
  BY <1>7 DEF themeVars
<1> QED
  BY <1>1, <1>2, <1>3, <1>4, <1>5, <1>6, <1>7 DEF ThemeNext

\* The theme's variables are well typed, and the class of the page is the one that the
\* last effect of ThemeProvider applied.
THEOREM ThemeTypes == ThemeSpec => []ThemeTypeOK
<1>1. ThemeInit => ThemeTypeOK /\ ScriptDecided /\ NoFlash
  BY DEF ThemeInit, ThemeTypeOK, ScriptDecided, NoFlash, ScriptLook, Looks, Choices,
         NeverApplied
<1> QED
  BY <1>1, ThemeStep, PTL DEF ThemeSpec

\* index.html and ThemeProvider decide on the same colours, whatever is stored and the
\* system prefers.
THEOREM PageDoesNotFlash == ThemeSpec => []NoFlash
<1>1. ThemeInit => ThemeTypeOK /\ ScriptDecided /\ NoFlash
  BY DEF ThemeInit, ThemeTypeOK, ScriptDecided, NoFlash, ScriptLook, Looks, Choices,
         NeverApplied
<1> QED
  BY <1>1, ThemeStep, PTL DEF ThemeSpec

-----------------------------------------------------------------------------
(* Sidebar.                                                                *)

LEMMA SidebarStep ==
    ASSUME SidebarTypeOK, [SidebarNext]_sidebarVars
    PROVE  SidebarTypeOK' /\ (Toggle => SidebarShown' # SidebarShown)
<1> USE DEF SidebarTypeOK, CookieOf
<1>1. CASE Toggle
  <2>1. CASE mobile
    <3>1. mobile' /\ mounted' /\ openMobile' = ~openMobile
          /\ UNCHANGED <<open, openCookie, mobile, mounted>>
      BY <1>1, <2>1 DEF Toggle, toggleSidebar
    <3>2. SidebarTypeOK'
      BY <3>1
    <3>3. SidebarShown = (IF openMobile THEN "sheet" ELSE "nothing")
          /\ SidebarShown' = (IF openMobile' THEN "sheet" ELSE "nothing")
      BY <1>1, <2>1, <3>1 DEF SidebarShown, Toggle
    <3> QED
      BY <3>1, <3>2, <3>3
  <2>2. CASE ~mobile
    <3>1. ~mobile' /\ mounted' /\ open' = ~open /\ openCookie' = CookieOf(~open)
          /\ UNCHANGED <<mobile, mounted, openMobile>>
      BY <1>1, <2>2 DEF Toggle, toggleSidebar, setOpen
    <3>2. SidebarTypeOK'
      BY <1>1, <2>2, <3>1 DEF Toggle, toggleSidebar, setOpen
    <3>3. SidebarShown = (IF open THEN "expanded" ELSE "collapsed")
          /\ SidebarShown' = (IF open' THEN "expanded" ELSE "collapsed")
      BY <1>1, <2>2, <3>1 DEF SidebarShown, Toggle
    <3> QED
      BY <3>1, <3>2, <3>3
  <2> QED
    BY <2>1, <2>2
<1>2. CASE CloseSheet /\ ~Toggle
  BY <1>2 DEF CloseSheet
<1>3. CASE CrossesBreakpoint /\ ~Toggle
  BY <1>3 DEF CrossesBreakpoint
<1>4. CASE LeaveLayout /\ ~Toggle
  BY <1>4 DEF LeaveLayout
<1>5. CASE EnterLayout /\ ~Toggle
  BY <1>5 DEF EnterLayout, SidebarMounts
<1>6. CASE OtherTabSetsOpen /\ ~Toggle
  BY <1>6 DEF OtherTabSetsOpen
<1>7. CASE UNCHANGED sidebarVars /\ ~Toggle
  BY <1>7 DEF sidebarVars
<1> QED
  BY <1>1, <1>2, <1>3, <1>4, <1>5, <1>6, <1>7 DEF SidebarNext

\* No toggle is without effect, on either kind of window.
THEOREM SidebarTogglesSeen == SidebarSpec => ToggleIsSeen
<1>1. SidebarInit => SidebarTypeOK
  BY DEF SidebarInit, SidebarTypeOK
<1>2. ASSUME SidebarTypeOK, [SidebarNext]_sidebarVars
      PROVE  [Toggle => SidebarShown' # SidebarShown]_sidebarVars
  BY <1>2, SidebarStep
<1> QED
  BY <1>1, <1>2, SidebarStep, PTL DEF SidebarSpec, ToggleIsSeen

-----------------------------------------------------------------------------
(* Health.                                                                 *)

LEMMA HealthDetailInv == HealthSpec => []DetailIsAnswer
<1> USE ThresholdsAssumption DEF DetailIsAnswer, Numbers
<1>1. HealthInit => DetailIsAnswer
  <2> SUFFICES ASSUME HealthInit
               PROVE  DetailIsAnswer
    OBVIOUS
  <2>1. newest = 0 /\ latest = 0 /\ 0 \in 0 .. MaxHealthSamples /\ 0 \in 0 .. newest
    BY DEF HealthInit
  <2>2. detail = Skeleton /\ detail.sample = 0 /\ ~heard /\ ~kept
        /\ heard \in BOOLEAN /\ kept \in BOOLEAN
    BY DEF HealthInit, Skeleton
  <2>3. samples \in [1 .. MaxHealthSamples -> [Metrics -> Levels]] /\ configured \in Thresholds
    BY DEF HealthInit
  <2> QED
    BY <2>1, <2>2, <2>3
<1>2. ASSUME DetailIsAnswer, [HealthNext]_healthVars
      PROVE  DetailIsAnswer'
  <2>1. CASE SampleStored
    BY <1>2, <2>1 DEF SampleStored, CoreHealth
  <2>2. CASE FallsSilent
    BY <1>2, <2>2 DEF FallsSilent, CoreHealth
  <2>3. CASE SamplesExpire
    BY <1>2, <2>3 DEF SamplesExpire, CoreHealth
  <2>4. CASE DetailArrives
    <3>1. detail'.sample \in 0 .. newest /\ detail'.connectivity \in ConnectivityBadges
      BY <1>2, <2>4 DEF DetailArrives, CoreStatus, NewestRow, ConnectivityBadges
    <3>2. detail'.health = IF detail'.connectivity = "online" /\ detail'.sample # 0
                           THEN CoreHealth(configured, samples[detail'.sample]) ELSE "unknown"
      BY <1>2, <2>4 DEF DetailArrives, CoreStatus, NewestRow
    <3> QED
      BY <1>2, <2>4, <3>1, <3>2 DEF DetailArrives, CoreHealth
  <2>5. CASE LatestArrives
    BY <1>2, <2>5 DEF LatestArrives, CoreHealth
  <2>6. CASE UNCHANGED healthVars
    BY <1>2, <2>6 DEF healthVars, CoreHealth
  <2> QED
    BY <1>2, <2>1, <2>2, <2>3, <2>4, <2>5, <2>6 DEF HealthNext
<1> QED
  BY <1>1, <1>2, PTL DEF HealthSpec

\* For all levels and all thresholds that LoadConfig accepts, in both directions.
LEMMA StatusesAgree ==
    ASSUME NEW t \in Thresholds, NEW levels \in [Metrics -> Levels]
    PROVE  /\ \A m \in Metrics :
                t.critical <= criticalAt[m] /\ getStatus(m, levels[m]) = "critical"
                  => CoreHealth(t, levels) = "critical"
           /\ (\A m \in Metrics : criticalAt[m] <= t.critical)
              /\ CoreHealth(t, levels) = "critical"
                  => \E m \in Metrics : getStatus(m, levels[m]) = "critical"
           /\ \A m \in Metrics :
                t.warning <= warnAt[m] /\ CoreHealth(t, levels) = "healthy"
                  => getStatus(m, levels[m]) = "good"
           /\ (\A m \in Metrics : warnAt[m] <= t.warning)
              /\ (\A m \in Metrics : getStatus(m, levels[m]) = "good")
                  => CoreHealth(t, levels) = "healthy"
<1>1. \A m \in Metrics : levels[m] \in Int
  BY ThresholdsAssumption
<1>2. t.warning \in Int /\ t.critical \in Int /\ t.warning < t.critical
  BY ThresholdsAssumption
<1>3. \A m \in Metrics : warnAt[m] \in Int /\ criticalAt[m] \in Int /\ warnAt[m] < criticalAt[m]
  BY DEF Metrics, warnAt, criticalAt
<1>4. ASSUME NEW m \in Metrics, t.critical <= criticalAt[m], levels[m] >= criticalAt[m]
      PROVE  CoreHealth(t, levels) = "critical"
  BY <1>1, <1>2, <1>3, <1>4 DEF CoreHealth
<1>5. ASSUME \A m \in Metrics : criticalAt[m] <= t.critical, CoreHealth(t, levels) = "critical"
      PROVE  \E m \in Metrics : getStatus(m, levels[m]) = "critical"
  <2>1. PICK m \in Metrics : levels[m] >= t.critical
    BY <1>5 DEF CoreHealth
  <2>2. levels[m] >= criticalAt[m]
    BY <1>1, <1>2, <1>3, <1>5, <2>1
  <2> QED
    BY <2>2 DEF getStatus
<1>6. ASSUME NEW m \in Metrics, t.warning <= warnAt[m], CoreHealth(t, levels) = "healthy"
      PROVE  getStatus(m, levels[m]) = "good"
  <2>1. ~(levels[m] >= t.warning)
    BY <1>6 DEF CoreHealth
  <2> QED
    BY <1>1, <1>2, <1>3, <1>6, <2>1 DEF getStatus
<1>7. ASSUME \A m \in Metrics : warnAt[m] <= t.warning,
             \A m \in Metrics : getStatus(m, levels[m]) = "good"
      PROVE  CoreHealth(t, levels) = "healthy"
  <2>1. \A m \in Metrics : ~(levels[m] >= warnAt[m])
    BY <1>7 DEF getStatus
  <2>2. \A m \in Metrics : ~(levels[m] >= t.warning) /\ ~(levels[m] >= t.critical)
    BY <1>1, <1>2, <1>3, <1>7, <2>1
  <2> QED
    BY <2>2 DEF CoreHealth
<1>8. \A m \in Metrics : getStatus(m, levels[m]) = "critical" => levels[m] >= criticalAt[m]
  BY DEF getStatus
<1> QED
  BY <1>4, <1>5, <1>6, <1>7, <1>8

\* The badges say what the Core says of the sample they name.
THEOREM HealthTypes == HealthSpec => []HealthTypeOK
<1>1. DetailIsAnswer => HealthTypeOK
  <2>1. ASSUME DetailIsAnswer, detail # Skeleton
        PROVE  detail.connectivity \in ConnectivityBadges /\ detail.health \in HealthBadges
    BY <2>1 DEF DetailIsAnswer, CoreHealth, ConnectivityBadges, HealthBadges
  <2>2. \A m \in Metrics : CardStatus(m) \in StatusBadges
    BY DEF CardStatus, getStatus, StatusBadges
  <2> QED
    BY <2>1, <2>2 DEF HealthTypeOK
<1> QED
  BY <1>1, HealthDetailInv, PTL

\* What the cards and the badge say of the same sample, for every level and every
\* configuration that the Core accepts, as far as the thresholds of the two compare.
THEOREM CardsAgree == HealthSpec => []CardsAgreeWithHealth
<1>1. ASSUME DetailIsAnswer, detail.connectivity = "online", detail.sample # 0,
             latest = detail.sample
      PROVE  CardsAgreeWithHealth
  <2>1. detail # Skeleton /\ detail.sample \in Numbers /\ configured \in Thresholds
    BY <1>1, ThresholdsAssumption DEF DetailIsAnswer, Skeleton, Numbers
  <2>2. detail.health = CoreHealth(configured, samples[latest])
        /\ samples[latest] \in [Metrics -> Levels]
    BY <1>1, <2>1 DEF DetailIsAnswer
  <2> QED
    BY <2>1, <2>2, StatusesAgree DEF CardsAgreeWithHealth, CardStatus
<1>2. DetailIsAnswer => CardsAgreeWithHealth
  BY <1>1 DEF CardsAgreeWithHealth
<1> QED
  BY <1>2, HealthDetailInv, PTL

-----------------------------------------------------------------------------
(* Relative time.                                                          *)

LEMMA TimeTypeInv == TimeSpec => []TimeTypeOK
<1> USE MomentsAssumption DEF TimeTypeOK
<1>1. TimeInit => TimeTypeOK
  BY DEF TimeInit
<1>2. ASSUME TimeTypeOK, [TimeNext]_timeVars
      PROVE  TimeTypeOK'
  BY <1>2 DEF TimeNext, timeVars, Passes, Tick, Answered
<1> QED
  BY <1>1, <1>2, PTL DEF TimeSpec

LEMMA ElapsedIsNat ==
    ASSUME NEW a \in Int, NEW b \in Int
    PROVE  Elapsed(a, b) \in Nat
BY DEF Elapsed

LEMMA ElapsedMonotone ==
    ASSUME NEW a \in Int, NEW b \in Int, NEW c \in Int, a <= b
    PROVE  Elapsed(a, c) <= Elapsed(b, c)
BY DEF Elapsed

\* What a label of s seconds stands for.
LEMMA LabelExact ==
    ASSUME NEW s \in Nat
    PROVE  /\ Label(s).unit = "now" => s < 5
           /\ Label(s).unit # "now" =>
                /\ LeastAge(Label(s)) <= s
                /\ s < LeastAge(Label(s)) + SecondsOf[Label(s).unit]
           /\ Label(s).unit \in {"now", "seconds", "minutes", "hours", "days"}
           /\ Label(s).n \in Nat
           /\ Label(s).unit = "seconds" => Label(s).n < 60
           /\ Label(s).unit = "minutes" => Label(s).n \in 1 .. 59
           /\ Label(s).unit = "hours" => Label(s).n \in 1 .. 23
           /\ Label(s).unit = "days" => Label(s).n >= 1
<1> USE DEF LeastAge, SecondsOf
<1>1. CASE s < 5
  BY <1>1 DEF Label
<1>2. CASE s >= 5 /\ s < 60
  BY <1>2 DEF Label
<1>3. CASE s >= 60 /\ Minutes(s) < 60
  <2>1. Label(s) = [unit |-> "minutes", n |-> Minutes(s)]
    BY <1>3 DEF Label
  <2>2. Minutes(s) \in 1 .. 59 /\ 60 * Minutes(s) <= s /\ s < 60 * Minutes(s) + 60
    BY <1>3 DEF Minutes
  <2> QED
    BY <2>1, <2>2
<1>4. CASE s >= 60 /\ Minutes(s) >= 60 /\ Hours(s) < 24
  <2>1. Label(s) = [unit |-> "hours", n |-> Hours(s)]
    BY <1>4 DEF Label, Minutes
  <2>2. Hours(s) \in 1 .. 23 /\ 3600 * Hours(s) <= s /\ s < 3600 * Hours(s) + 3600
    BY <1>4 DEF Minutes, Hours
  <2> QED
    BY <2>1, <2>2
<1>5. CASE s >= 60 /\ Minutes(s) >= 60 /\ Hours(s) >= 24
  <2>1. Label(s) = [unit |-> "days", n |-> Days(s)]
    BY <1>5 DEF Label, Minutes, Hours
  <2>2. Days(s) \in Nat /\ Days(s) >= 1 /\ 86400 * Days(s) <= s
        /\ s < 86400 * Days(s) + 86400
    BY <1>5 DEF Minutes, Hours, Days
  <2> QED
    BY <2>1, <2>2
<1> QED
  BY <1>1, <1>2, <1>3, <1>4, <1>5 DEF Minutes, Hours

\* A later age is not told as a lesser one.
LEMMA LabelMonotone ==
    ASSUME NEW s \in Nat, NEW t \in Nat, s <= t
    PROVE  LeastAge(Label(s)) <= LeastAge(Label(t))
<1> USE DEF LeastAge, SecondsOf
<1>1. CASE s < 5
  BY <1>1, LabelExact DEF Label
<1>2. CASE s >= 5 /\ t < 60
  BY <1>2 DEF Label
<1>3. CASE s >= 5 /\ s < 60 /\ t >= 60
  BY <1>3 DEF Label, Minutes, Hours, Days
<1>4. CASE s >= 60 /\ Minutes(t) < 60
  BY <1>4 DEF Label, Minutes
<1>5. CASE s >= 60 /\ Minutes(s) < 60 /\ Minutes(t) >= 60
  BY <1>5 DEF Label, Minutes, Hours, Days
<1>6. CASE s >= 60 /\ Minutes(s) >= 60 /\ Hours(t) < 24
  BY <1>6 DEF Label, Minutes, Hours
<1>7. CASE s >= 60 /\ Minutes(s) >= 60 /\ Hours(s) < 24 /\ Hours(t) >= 24
  BY <1>7 DEF Label, Minutes, Hours, Days
<1>8. CASE Hours(s) >= 24
  BY <1>8 DEF Label, Minutes, Hours, Days
<1> QED
  BY <1>1, <1>2, <1>3, <1>4, <1>5, <1>6, <1>7, <1>8 DEF Minutes, Hours

\* The moment rendered is one the browser's clock had.
THEOREM TimeTypes == TimeSpec => []TimeTypeOK
BY TimeTypeInv

\* formatRelativeTime is exact, for all moments of the two clocks.
THEOREM AgeIsExact == TimeSpec => []AgeExact
<1>1. TimeTypeOK => AgeExact
  BY MomentsAssumption, ElapsedIsNat, LabelExact DEF TimeTypeOK, AgeExact, ShownAge
<1> QED
  BY <1>1, TimeTypeInv, PTL

\* formatUptime is exact, for all uptimes.
THEOREM UptimeIsExact == TimeSpec => []UptimeExact
<1>1. ASSUME NEW u \in Nat
      PROVE  LET label == UptimeLabel(u)
                 told == 86400 * label.days + 3600 * label.hours + 60 * label.minutes
             IN  /\ label.hours \in 0 .. 23 /\ label.minutes \in 0 .. 59
                 /\ told <= u
                 /\ u < told + (IF label.days = 0 THEN 60 ELSE 3600)
  BY DEF UptimeLabel
<1>2. TimeTypeOK => UptimeExact
  BY <1>1, MomentsAssumption DEF TimeTypeOK, UptimeExact
<1> QED
  BY <1>2, TimeTypeInv, PTL

\* Both labels of a server are exact.
THEOREM LabelsAreExact == TimeSpec => []LabelsExact
BY AgeIsExact, UptimeIsExact, PTL DEF LabelsExact

\* The age shown grows with the clock, over all changes of unit, for all moments.
THEOREM AgeGrows == TimeSpec => AgeNeverShrinks
<1>1. ASSUME TimeTypeOK, TimeTypeOK', [TimeNext]_timeVars
      PROVE  [seen' = seen => LeastAge(ShownAge) <= LeastAge(ShownAge')]_timeVars
  <2> SUFFICES ASSUME seen' = seen
               PROVE  LeastAge(ShownAge) <= LeastAge(ShownAge')
    OBVIOUS
  <2>1. now \in Int /\ now' \in Int /\ seen \in Int /\ now <= now'
    BY <1>1, MomentsAssumption DEF TimeTypeOK, TimeNext, timeVars, Passes, Tick, Answered
  <2>2. Elapsed(now, seen) \in Nat /\ Elapsed(now', seen) \in Nat
        /\ Elapsed(now, seen) <= Elapsed(now', seen)
    BY <2>1, ElapsedIsNat, ElapsedMonotone
  <2>3. ShownAge = Label(Elapsed(now, seen)) /\ ShownAge' = Label(Elapsed(now', seen))
    BY DEF ShownAge
  <2> QED
    BY <2>2, <2>3, LabelMonotone
<1> QED
  BY <1>1, TimeTypeInv, PTL DEF TimeSpec, AgeNeverShrinks

-----------------------------------------------------------------------------
(* Rotation.                                                               *)

LEMMA RotateInitInv == RotateInit => RotateInv
<1> SUFFICES ASSUME RotateInit
             PROVE  RotateInv
  OBVIOUS
<1>1. confirming \in BOOLEAN /\ ~confirming /\ alone \in BOOLEAN
  BY DEF RotateInit
<1>2. config = "null" /\ asked = 0 /\ activeKey = 0 /\ 0 \in 0 .. MaxRotations
  BY RotationsAssumption DEF RotateInit
<1>3. rotations \in [Rotations -> RotationStates]
  BY DEF RotateInit, RotationStates
<1> QED
  BY <1>1, <1>2, <1>3
  DEF RotateInv, RotateTypeOK, ToldKeyIsActive, AloneStaysAlone, ConfigOpen

LEMMA RotateInvStep ==
    ASSUME RotateInv, [RotateNext]_rotateVars
    PROVE  RotateInv'
<1> USE RotationsAssumption
    DEF RotateInv, RotateTypeOK, ToldKeyIsActive, AloneStaysAlone, Rotations, InFlight,
        ConfigOpen, RotationStates
<1>1. CASE Confirming
  BY <1>1 DEF Confirming
<1>2. CASE CloseConfig
  BY <1>2 DEF CloseConfig
<1>3. CASE RowRemounts
  <2>1. confirming' \in BOOLEAN /\ ~confirming'
    BY <1>3 DEF RowRemounts
  <2>2. config' = "null" /\ asked' = 0 /\ 0 \in 0 .. MaxRotations
    BY <1>3 DEF RowRemounts
  <2>3. UNCHANGED <<rotations, activeKey, alone>>
    BY <1>3 DEF RowRemounts
  <2> QED
    BY <2>1, <2>2, <2>3
<1>4. ASSUME NEW n \in Rotations, Rotate(n)
      PROVE  RotateInv'
  <2>1. /\ confirming /\ config = "null" /\ rotations[n] = "none"
        /\ rotations' = [rotations EXCEPT ![n] = "sent"]
        /\ asked' = n
        /\ UNCHANGED <<confirming, config, activeKey>>
    BY <1>4 DEF Rotate, Send, Unused
  <2>2. alone' \in BOOLEAN
    BY <1>4 DEF Rotate, Send
  <2>3. alone' => \A m \in Rotations : ~InFlight(m) /\ rotations[m] # "lost"
    BY <1>4 DEF Rotate, Send, RotatePending
  <2>4. n # 0 /\ n \in 0 .. MaxRotations
    OBVIOUS
  <2>5. RotateTypeOK'
    <3>1. confirming' \in BOOLEAN /\ config' = "null" /\ asked' \in 0 .. MaxRotations
          /\ activeKey' \in 0 .. MaxRotations
      BY <2>1, <2>4
    <3>2. rotations' \in [Rotations -> RotationStates]
      BY <2>1
    <3>3. asked' # 0 => rotations'[asked'] # "none"
      BY <2>1, <2>4
    <3>4. activeKey' # 0 => rotations'[activeKey'] \in {"stored", "failed", "answered"}
      BY <2>1
    <3> QED
      BY <2>2, <3>1, <3>2, <3>3, <3>4
  <2>6. ToldKeyIsActive'
    BY <2>1, <2>4
  <2>7. AloneStaysAlone'
    BY <2>1, <2>3, <2>4
  <2> QED
    BY <2>5, <2>6, <2>7
<1>5. ASSUME NEW n \in Rotations, RotateStored(n)
      PROVE  RotateInv'
  BY <1>5 DEF RotateStored
<1>6. ASSUME NEW n \in Rotations, RotateFails(n)
      PROVE  RotateInv'
  BY <1>6 DEF RotateFails
<1>7. ASSUME NEW n \in Rotations, RotateAnswered(n)
      PROVE  RotateInv'
  <2>1. CASE asked = n
    <3>1. confirming' \in BOOLEAN /\ ~confirming'
      BY <1>7, <2>1 DEF RotateAnswered
    <3>2. config' = "undefined" /\ rotations[n] = "stored"
          /\ rotations' = [rotations EXCEPT ![n] = "answered"]
          /\ UNCHANGED <<asked, activeKey, alone>>
      BY <1>7, <2>1 DEF RotateAnswered, RotateAnswerFields
    <3> QED
      BY <2>1, <3>1, <3>2
  <2>2. CASE asked # n
    BY <1>7, <2>2 DEF RotateAnswered
  <2> QED
    BY <2>1, <2>2
<1>8. CASE UNCHANGED rotateVars
  BY <1>8 DEF rotateVars
<1> QED
  BY <1>1, <1>2, <1>3, <1>4, <1>5, <1>6, <1>7, <1>8 DEF RotateNext

\* The confirmation and the second dialog are never open at once, and the active key is
\* that of a rotation that took place.
THEOREM RotateTypes == RotateSpec => []RotateTypeOK
<1>1. RotateInv => RotateTypeOK
  BY DEF RotateInv
<1> QED
  BY <1>1, RotateInitInv, RotateInvStep, PTL DEF RotateSpec

\* For any number of rotations: the one a row was told of last is the active one, unless
\* another could still be stored when it was clicked (see ToldKeyIsActive).
THEOREM ToldKey == RotateSpec => []ToldKeyIsActive
<1>1. RotateInv => ToldKeyIsActive
  BY DEF RotateInv
<1> QED
  BY <1>1, RotateInitInv, RotateInvStep, PTL DEF RotateSpec

-----------------------------------------------------------------------------
(* Session.                                                                *)

\* The part of SessionInv that is about the query of the current user.
MeGood(q, c, crash) ==
    /\ q \in MeQueries
    /\ q.has => q.data \in Users
    /\ ~q.has => q.status # "success"
    /\ q.status = "pending" => ~q.has /\ (crash \/ IsFetching(q))
    /\ c = "nobody" => ~q.has
    /\ c = "nobody" /\ IsFetching(q) => q.carries \notin Users

\* The rest of it.
SessionGood ==
    /\ cookie \in Cookies
    /\ path \in Paths
    /\ from \in ProtectedPaths \union {"none"}
    /\ login \in [state : {"idle", "sent"}, user : Users \union {"nobody"},
                  mounted : BOOLEAN]
    /\ login.state = "sent" => login.user \in Users
    /\ logout \in [state : {"idle", "sent"}, mounted : BOOLEAN]
    /\ crashed \in BOOLEAN

LEMMA SessionInvParts == SessionInv <=> SessionGood /\ MeGood(me, cookie, crashed)
BY DEF SessionInv, SessionGood, MeGood, SessionTypeOK, LoggedOutForgets, LoggedOutAsksForNobody

LEMMA SessionInvPartsNext == SessionInv' <=> SessionGood' /\ MeGood(me', cookie', crashed')
BY DEF SessionInv, SessionGood, MeGood, SessionTypeOK, LoggedOutForgets, LoggedOutAsksForNobody

LEMMA NobodyIsNoUser == "nobody" \notin Users /\ "expired" \notin Users
BY UsersAssumption

LEMMA FetchGood ==
    ASSUME NEW q, NEW c \in Cookies, NEW crash, MeGood(q, c, crash)
    PROVE  MeGood(Fetch(q, c), c, crash)
<1>1. CASE IsFetching(q)
  BY <1>1 DEF Fetch
<1>2. CASE ~IsFetching(q)
  BY <1>2, NobodyIsNoUser DEF Fetch, IsFetching, MeGood, MeQueries
<1> QED
  BY <1>1, <1>2

LEMMA FirstFetchGood ==
    ASSUME NEW c \in Cookies, NEW crash
    PROVE  MeGood(Fetch(NoMe, c), c, crash)
BY NobodyIsNoUser DEF MeGood, MeQueries, NoMe, Unfetched, Fetch, IsFetching, Cookies

LEMMA MountsGood ==
    ASSUME NEW q, NEW c \in Cookies, NEW crash, MeGood(q, c, crash), NEW r \in Mounts(q, c)
    PROVE  MeGood(r, c, crash)
<1>1. r = q \/ r = Fetch(q, c)
  BY DEF Mounts
<1> QED
  BY <1>1, FetchGood

LEMMA VisitGood ==
    ASSUME SessionInv, NEW p \in Paths, NEW f \in ProtectedPaths \union {"none"}, Visit(p, f)
    PROVE  SessionInv'
<1>1. SessionGood /\ MeGood(me, cookie, crashed)
  BY SessionInvParts
<1>2. me' = me \/ me' \in Mounts(me, cookie)
  BY DEF Visit
<1>3. MeGood(me', cookie, crashed)
  BY <1>1, <1>2, MountsGood DEF SessionGood
<1>4. cookie' = cookie /\ crashed' = crashed
  BY DEF Visit
<1>5. SessionGood'
  BY <1>1 DEF Visit, SessionGood
<1> QED
  BY <1>3, <1>4, <1>5, SessionInvPartsNext

LEMMA LoadGood ==
    ASSUME SessionInv, NEW p \in Paths, NEW f \in ProtectedPaths \union {"none"}, Load(p, f)
    PROVE  SessionInv'
<1>1. SessionGood
  BY SessionInvParts
<1>2. MeGood(me', cookie', crashed')
  BY <1>1, FirstFetchGood DEF Load, SessionGood
<1>3. SessionGood'
  BY <1>1 DEF Load, SessionGood, NoLogin, NoLogout
<1> QED
  BY <1>2, <1>3, SessionInvPartsNext

LEMMA SessionInitInv == SessionInit => SessionInv
<1> SUFFICES ASSUME SessionInit
             PROVE  SessionInv
  OBVIOUS
<1>1. cookie \in Cookies /\ me = Fetch(NoMe, cookie)
  BY DEF SessionInit, Cookies
<1>2. SessionGood
  BY <1>1 DEF SessionInit, SessionGood, NoLogin, NoLogout
<1> QED
  BY <1>1, <1>2, FirstFetchGood, SessionInvParts

LEMMA AnswerMeGood ==
    ASSUME SessionInv, AnswerMe
    PROVE  SessionInv'
<1>1. SessionGood /\ MeGood(me, cookie, crashed)
  BY SessionInvParts
<1>2. SessionGood' /\ cookie' = cookie
  BY <1>1 DEF AnswerMe, MeAnswer, MeRefused, MeFails, SessionGood
<1>3. CASE MeAnswer
  <2>1. cookie # "nobody" /\ me.carries \in Users
    BY <1>1, <1>3 DEF MeAnswer, MeGood
  <2>2. MeGood(me', cookie, crashed)
    BY <1>1, <1>3, <2>1 DEF MeAnswer, MeGood, MeQueries, Succeed, IsFetching
  <2> QED
    BY <1>2, <1>3, <2>2, SessionInvPartsNext DEF MeAnswer
<1>4. CASE MeRefused \/ MeFails
  <2>1. me' = Fail(me)
    BY <1>4 DEF MeRefused, MeFails
  <2>2. MeGood(me', cookie, crashed')
    BY <1>1, <2>1 DEF MeGood, MeQueries, Fail, IsFetching
  <2> QED
    BY <1>2, <2>2, SessionInvPartsNext
<1> QED
  BY <1>3, <1>4 DEF AnswerMe

LEMMA SessionInvStep ==
    ASSUME SessionInv, [SessionNext]_sessionVars
    PROVE  SessionInv'
<1>1. SessionGood /\ MeGood(me, cookie, crashed)
  BY SessionInvParts
<1>2. CASE AnswerMe
  BY <1>2, AnswerMeGood
<1>3. CASE Reconnect
  <2>1. MeGood(me', cookie', crashed')
    BY <1>1, <1>3, FetchGood DEF Reconnect, SessionGood
  <2> QED
    BY <1>1, <1>3, <2>1, SessionInvPartsNext DEF Reconnect, SessionGood
<1>4. CASE Expire
  <2>1. cookie' = "expired" /\ UNCHANGED <<path, from, me, login, logout, crashed>>
    BY <1>4 DEF Expire
  <2>2. MeGood(me', cookie', crashed')
    BY <1>1, <2>1 DEF MeGood
  <2>3. SessionGood'
    BY <1>1, <2>1 DEF SessionGood, Cookies
  <2> QED
    BY <2>2, <2>3, SessionInvPartsNext
<1>5. CASE Browse
  <2>1. PICK p \in Paths, f \in ProtectedPaths \union {"none"} : Visit(p, f)
    BY <1>5 DEF Browse
  <2> QED
    BY <2>1, VisitGood
<1>6. CASE RedirectToLogin
  BY <1>6, VisitGood DEF RedirectToLogin, Paths
<1>7. CASE LeaveLogin
  BY <1>7, VisitGood DEF LeaveLogin, Paths, ProtectedPaths
<1>8. CASE Reload
  BY <1>1, <1>8, LoadGood DEF Reload, SessionGood
<1>9. ASSUME NEW user \in Users, SubmitLogin(user)
      PROVE  SessionInv'
  <2>1. SessionGood'
    BY <1>1, <1>9 DEF SubmitLogin, SessionGood
  <2> QED
    BY <1>1, <1>9, <2>1, SessionInvPartsNext DEF SubmitLogin
<1>10. CASE LoginAnswer
  <2>1. login.user \in Users /\ cookie' = login.user /\ me' = SetData(me, login.user)
        /\ login' = NoLogin /\ UNCHANGED <<logout, crashed>>
    BY <1>1, <1>10 DEF LoginAnswer, SessionGood
  <2>2. path' \in Paths /\ from' \in ProtectedPaths \union {"none"}
    BY <1>1, <1>10 DEF LoginAnswer, SessionGood, RedirectTo, Paths, ProtectedPaths
  <2>3. SessionGood'
    BY <1>1, <2>1, <2>2 DEF SessionGood, NoLogin, Cookies
  <2>4. MeGood(me', cookie', crashed')
    BY <1>1, <2>1, NobodyIsNoUser DEF MeGood, MeQueries, SetData, IsFetching
  <2> QED
    BY <2>3, <2>4, SessionInvPartsNext
<1>11. CASE LoginFails
  <2>1. SessionGood'
    BY <1>1, <1>11 DEF LoginFails, SessionGood, NoLogin
  <2> QED
    BY <1>1, <1>11, <2>1, SessionInvPartsNext DEF LoginFails
<1>12. CASE SubmitLogout
  <2>1. SessionGood'
    BY <1>1, <1>12 DEF SubmitLogout, SessionGood
  <2> QED
    BY <1>1, <1>12, <2>1, SessionInvPartsNext DEF SubmitLogout
<1>13. CASE LogoutSettles
  <2>1. cookie' \in Cookies /\ crashed' = crashed
    BY <1>1, <1>13 DEF LogoutSettles, SessionGood, Cookies
  <2>2. path' \in Paths /\ from' \in ProtectedPaths \union {"none"}
    BY <1>1, <1>13 DEF LogoutSettles, SessionGood, Paths, ProtectedPaths
  <2>3. SessionGood'
    BY <1>1, <1>13, <2>1, <2>2 DEF LogoutSettles, SessionGood, NoLogout
  <2>4. MeGood(me', cookie', crashed')
    <3>1. CASE crashed
      BY <1>13, <2>1, <3>1
      DEF LogoutSettles, ForgottenMe, MeGood, MeQueries, NoMe, Unfetched, IsFetching, Cookies
    <3>2. CASE ~crashed
      BY <1>13, <2>1, <3>2, FirstFetchGood DEF LogoutSettles, ForgottenMe
    <3> QED
      BY <3>1, <3>2
  <2> QED
    BY <2>3, <2>4, SessionInvPartsNext
<1>14. CASE UNCHANGED sessionVars
  BY <1>1, <1>14, SessionInvPartsNext DEF sessionVars, SessionGood
<1> QED
  BY <1>2, <1>3, <1>4, <1>5, <1>6, <1>7, <1>8, <1>9, <1>10, <1>11, <1>12, <1>13, <1>14
  DEF SessionNext

\* For any users: no page of the Console waits for a request that was dropped.
THEOREM SessionTypes == SessionSpec => []SessionTypeOK
<1>1. SessionInv => SessionTypeOK
  BY DEF SessionInv
<1> QED
  BY <1>1, SessionInitInv, SessionInvStep, PTL DEF SessionSpec

\* For any users, and whatever requests were in flight: after a logout that cleared the
\* cookie the Console shows no user.
THEOREM LogoutForgets == SessionSpec => []LoggedOutForgets
<1>1. SessionInv => LoggedOutForgets
  BY DEF SessionInv
<1> QED
  BY <1>1, SessionInitInv, SessionInvStep, PTL DEF SessionSpec

-----------------------------------------------------------------------------
(* Servers.                                                                *)

LEMMA CreatesAreNumbers == Creates \subseteq Nat \ {0} /\ Creates \subseteq AllServers
BY ServersAssumption DEF Creates, AllServers

LEMMA ClosedDialogFacts ==
    /\ ClosedDialog \in [open : BOOLEAN, asked : 0 .. MaxCreates, key : 0 .. MaxCreates]
    /\ ~ClosedDialog.open /\ ClosedDialog.asked = 0 /\ ClosedDialog.key = 0
<1>1. 0 \in 0 .. MaxCreates
  BY ServersAssumption
<1> QED
  BY <1>1 DEF ClosedDialog

\* A list that is fetched anew has the data it had, and an answer only if it had one.
LEMMA FetchList ==
    ASSUME NEW q \in ListQueries, NEW r, r = Fetch(q, {}) \/ r = Invalidate(q, {})
    PROVE  /\ r \in ListQueries
           /\ r.has = q.has
           /\ r.data = q.data
           /\ IsFetching(r)
           /\ r.carries \in {q.carries, {}}
           /\ r.request = "read" => q.request = "read" /\ r.carries = q.carries
           /\ r.status = q.status \/ (r.status = "pending" /\ ~q.has)
           /\ r = Invalidate(q, {}) /\ q.has => r.request = "asked"
<1> USE DEF ListQueries, IsFetching
<1>1. CASE r = Fetch(q, {})
  <2>1. CASE q.request = "idle"
    BY <1>1, <2>1 DEF Fetch, Invalidate
  <2>2. CASE q.request # "idle"
    BY <1>1, <2>2 DEF Fetch, Invalidate
  <2> QED
    BY <2>1, <2>2
<1>2. CASE r = Invalidate(q, {})
  <2> DEFINE dropped == [q EXCEPT !.invalid = TRUE,
                                  !.request = IF q.has THEN "idle" ELSE @]
  <2>1. r = Fetch(dropped, {})
    BY <1>2 DEF Invalidate
  <2>2. CASE q.has
    BY <2>1, <2>2 DEF Fetch
  <2>3. CASE ~q.has /\ q.request = "idle"
    BY <2>1, <2>3 DEF Fetch
  <2>4. CASE ~q.has /\ q.request # "idle"
    BY <2>1, <2>4 DEF Fetch
  <2> QED
    BY <2>2, <2>3, <2>4
<1> QED
  BY <1>1, <1>2

LEMMA ServersInitInv == ServersInit => ServersInv
<1> SUFFICES ASSUME ServersInit
             PROVE  ServersInv
  OBVIOUS
<1>1. list \in ListQueries /\ list.status = "pending" /\ list.request = "asked"
      /\ list.data = {} /\ list.carries = {} /\ ~list.has
  BY DEF ServersInit, Fetch, Unfetched, IsFetching, ListQueries
<1>2. stored = OldServers /\ onServers \in BOOLEAN /\ onServers /\ asking = {}
      /\ dialog = ClosedDialog /\ givenUp = {}
  BY DEF ServersInit
<1>3. creates = [n \in Creates |-> "none"] /\ deletes = [s \in AllServers |-> "none"]
  BY DEF ServersInit
<1>4. \A n \in Creates : n \notin OldServers
  BY ServersAssumption DEF Creates
<1>5. ServersTypeOK
  <2>1. stored \subseteq AllServers /\ asking \subseteq Rows /\ givenUp \subseteq AllServers
    BY <1>2 DEF AllServers
  <2>2. creates \in [Creates -> CreateStates]
        /\ deletes \in [AllServers -> {"none", "sent", "stored", "answered"}]
    BY <1>3 DEF CreateStates
  <2> QED
    BY <1>1, <1>2, <2>1, <2>2, ClosedDialogFacts DEF ServersTypeOK, IsFetching
<1>6. ClosedDialogForgets /\ ClosedDialogIsNew
  BY <1>2 DEF ClosedDialogForgets, ClosedDialogIsNew, ClosedDialog
<1>7. SeenWereStored /\ DeletedAreGone /\ ListWasThere
  BY <1>1, <1>2, <1>3, <1>4, CreatesAreNumbers DEF SeenWereStored, DeletedAreGone, ListWasThere
<1>8. ListHasOwnChanges /\ AnswerHasOwnChanges
  BY <1>1 DEF ListHasOwnChanges, AnswerHasOwnChanges
<1> QED
  BY <1>5, <1>6, <1>7, <1>8 DEF ServersInv

\* A step that at most fetches the list again, and closes delete dialogs if it leaves
\* the page.
LEMMA OnlyListFetched ==
    ASSUME ServersInv, list' = list \/ list' = Fetch(list, {}),
           UNCHANGED <<stored, creates, deletes, givenUp>>,
           onServers' \in BOOLEAN,
           dialog' \in {dialog, ClosedDialog}, dialog'.open => onServers',
           asking' \in {asking, {}}, asking' # {} => onServers'
    PROVE  ServersInv'
<1> USE DEF ServersInv
<1>1. list' \in ListQueries /\ list'.has = list.has /\ list'.data = list.data
      /\ list'.carries \in {list.carries, {}}
      /\ (list'.request = "read" => list.request = "read" /\ list'.carries = list.carries)
      /\ (list'.status = list.status \/ (list'.status = "pending" /\ ~list.has))
  BY FetchList DEF ServersTypeOK
<1>2. list' = list \/ IsFetching(list')
  BY FetchList DEF ServersTypeOK
<1>3. asking' \subseteq Rows'
  BY <1>1 DEF ServersTypeOK, Rows
<1>4. ServersTypeOK'
  <2>1. dialog' \in [open : BOOLEAN, asked : 0 .. MaxCreates, key : 0 .. MaxCreates]
        /\ (dialog'.open => onServers') /\ dialog'.key \in {0, dialog'.asked}
    BY ClosedDialogFacts DEF ServersTypeOK
  <2>2. \A s, t \in asking' : s = t
    BY DEF ServersTypeOK
  <2>3. (list'.status = "pending" => IsFetching(list'))
        /\ (list'.status = "success" => list'.has)
    BY <1>1, <1>2 DEF ServersTypeOK
  <2>4. stored' \subseteq AllServers
        /\ creates' \in [Creates -> CreateStates]
        /\ deletes' \in [AllServers -> {"none", "sent", "stored", "answered"}]
        /\ givenUp' \subseteq AllServers
    BY DEF ServersTypeOK
  <2> QED
    BY <1>1, <1>3, <2>1, <2>2, <2>3, <2>4 DEF ServersTypeOK
<1>5. ClosedDialogForgets' /\ ClosedDialogIsNew'
  BY DEF ClosedDialogForgets, ClosedDialogIsNew, ClosedDialog
<1>6. ListHasOwnChanges'
  BY <1>2 DEF ListHasOwnChanges
<1>7. SeenWereStored' /\ DeletedAreGone' /\ ListWasThere' /\ AnswerHasOwnChanges'
  BY <1>1 DEF SeenWereStored, DeletedAreGone, ListWasThere, AnswerHasOwnChanges
<1> QED
  BY <1>4, <1>5, <1>6, <1>7

LEMMA ServersInvStep ==
    ASSUME ServersInv, [ServersNext]_serversVars
    PROVE  ServersInv'
<1> USE DEF ServersInv
<1>1. CASE ListRead
  <2>1. /\ list.request = "asked"
        /\ list' = [list EXCEPT !.request = "read", !.carries = stored]
        /\ UNCHANGED <<stored, onServers, dialog, creates, asking, deletes, givenUp>>
    BY <1>1 DEF ListRead
  <2>2. list' \in ListQueries /\ list'.request = "read" /\ list'.carries = stored
        /\ list'.has = list.has /\ list'.data = list.data /\ list'.status = list.status
    BY <2>1 DEF ServersTypeOK, ListQueries
  <2>3. Rows' = Rows
    BY <2>1, <2>2 DEF Rows
  <2>4. ServersTypeOK'
    BY <2>1, <2>2, <2>3 DEF ServersTypeOK, IsFetching
  <2>5. ClosedDialogForgets' /\ ClosedDialogIsNew'
    BY <2>1 DEF ClosedDialogForgets, ClosedDialogIsNew
  <2>6. ListHasOwnChanges' /\ ListWasThere' /\ SeenWereStored' /\ DeletedAreGone'
    BY <2>1, <2>2
    DEF ListHasOwnChanges, ListWasThere, SeenWereStored, DeletedAreGone, IsFetching
  <2>7. AnswerHasOwnChanges'
    BY <2>1, <2>2 DEF AnswerHasOwnChanges, DeletedAreGone
  <2> QED
    BY <2>4, <2>5, <2>6, <2>7
<1>2. CASE ListArrives
  <2>1. /\ list.request = "read"
        /\ list' = Succeed(list, list.carries)
        /\ asking' = asking \cap list.carries
        /\ UNCHANGED <<stored, onServers, dialog, creates, deletes, givenUp>>
    BY <1>2 DEF ListArrives
  <2>2. list' \in ListQueries /\ list'.request = "idle" /\ list'.carries = list.carries
        /\ list'.has /\ list'.data = list.carries /\ list'.status = "success"
    BY <2>1 DEF ServersTypeOK, ListQueries, Succeed
  <2>3. asking' \subseteq Rows'
    BY <2>1, <2>2 DEF Rows, ServersTypeOK
  <2>4. ServersTypeOK'
    BY <2>1, <2>2, <2>3 DEF ServersTypeOK
  <2>5. ClosedDialogForgets' /\ ClosedDialogIsNew'
    BY <2>1 DEF ClosedDialogForgets, ClosedDialogIsNew
  <2>6. ListHasOwnChanges'
    BY <2>1, <2>2 DEF ListHasOwnChanges, AnswerHasOwnChanges
  <2>7. ListWasThere' /\ SeenWereStored' /\ DeletedAreGone' /\ AnswerHasOwnChanges'
    BY <2>1, <2>2 DEF ListWasThere, SeenWereStored, DeletedAreGone, AnswerHasOwnChanges
  <2> QED
    BY <2>4, <2>5, <2>6, <2>7
<1>3. CASE ListFails
  <2>1. /\ list' = Fail(list)
        /\ asking' = {}
        /\ UNCHANGED <<stored, onServers, dialog, creates, deletes, givenUp>>
    BY <1>3 DEF ListFails
  <2>2. list' \in ListQueries /\ list'.request = "idle" /\ list'.carries = list.carries
        /\ list'.has = list.has /\ list'.data = list.data /\ list'.status = "error"
    BY <2>1 DEF ServersTypeOK, ListQueries, Fail
  <2>3. ServersTypeOK'
    BY <2>1, <2>2 DEF ServersTypeOK
  <2>4. ClosedDialogForgets' /\ ClosedDialogIsNew'
    BY <2>1 DEF ClosedDialogForgets, ClosedDialogIsNew
  <2>5. ListHasOwnChanges' /\ ListWasThere' /\ SeenWereStored' /\ DeletedAreGone'
        /\ AnswerHasOwnChanges'
    BY <2>1, <2>2
    DEF ListHasOwnChanges, ListWasThere, SeenWereStored, DeletedAreGone, AnswerHasOwnChanges
  <2> QED
    BY <2>3, <2>4, <2>5
<1>4. CASE MovePage
  <2>1. list' = list \/ list' = Fetch(list, {})
    BY <1>4 DEF MovePage, Mounts
  <2>2. UNCHANGED <<stored, creates, deletes, givenUp>>
    BY <1>4 DEF MovePage
  <2>3. onServers' \in BOOLEAN
    BY <1>4 DEF MovePage
  <2>4. dialog' \in {dialog, ClosedDialog} /\ asking' \in {asking, {}}
    BY <1>4 DEF MovePage
  <2>5. dialog'.open => onServers'
    BY <1>4, ClosedDialogFacts DEF MovePage, ServersTypeOK
  <2>6. asking' # {} => onServers'
    BY <1>4 DEF MovePage, ServersTypeOK, Rows
  <2> QED
    BY <2>1, <2>2, <2>3, <2>4, <2>5, <2>6, OnlyListFetched
<1>5. CASE OpenDialog
  <2>1. ~dialog.open /\ onServers /\ dialog' = [dialog EXCEPT !.open = TRUE]
        /\ UNCHANGED <<stored, list, onServers, creates, asking, deletes, givenUp>>
    BY <1>5 DEF OpenDialog
  <2>2. dialog' \in [open : BOOLEAN, asked : 0 .. MaxCreates, key : 0 .. MaxCreates]
        /\ dialog'.open /\ dialog'.key = dialog.key /\ dialog'.asked = dialog.asked
    BY <2>1 DEF ServersTypeOK
  <2>3. ServersTypeOK'
    BY <2>1, <2>2 DEF ServersTypeOK, Rows
  <2> QED
    BY <2>1, <2>2, <2>3
    DEF ClosedDialogForgets, ClosedDialogIsNew, ListHasOwnChanges, ListWasThere,
        SeenWereStored, DeletedAreGone, AnswerHasOwnChanges
<1>6. CASE CloseDialog
  <2>1. dialog' = ClosedDialog
        /\ UNCHANGED <<stored, list, onServers, creates, asking, deletes, givenUp>>
    BY <1>6 DEF CloseDialog
  <2>2. ServersTypeOK'
    BY <2>1, ClosedDialogFacts DEF ServersTypeOK, Rows
  <2> QED
    BY <2>1, <2>2, ClosedDialogFacts
    DEF ClosedDialogForgets, ClosedDialogIsNew, ListHasOwnChanges, ListWasThere,
        SeenWereStored, DeletedAreGone, AnswerHasOwnChanges
<1>7. ASSUME NEW n \in Creates, SubmitCreate(n)
      PROVE  ServersInv'
  <2>1. dialog.open /\ dialog.key = 0 /\ creates[n] = "none"
        /\ creates' = [creates EXCEPT ![n] = "sent"] /\ dialog' = [dialog EXCEPT !.asked = n]
        /\ UNCHANGED <<stored, list, onServers, asking, deletes, givenUp>>
    BY <1>7 DEF SubmitCreate
  <2>2. n \in 0 .. MaxCreates
    BY ServersAssumption DEF Creates
  <2>3. dialog' \in [open : BOOLEAN, asked : 0 .. MaxCreates, key : 0 .. MaxCreates]
        /\ dialog'.open /\ dialog'.key = 0
    BY <2>1, <2>2 DEF ServersTypeOK
  <2>4. creates' \in [Creates -> CreateStates]
        /\ creates'[n] = "sent" /\ \A m \in Creates \ {n} : creates'[m] = creates[m]
    BY <2>1 DEF ServersTypeOK, CreateStates
  <2>5. ServersTypeOK'
    BY <2>1, <2>3, <2>4 DEF ServersTypeOK, Rows
  <2>6. SeenWereStored'
    BY <2>1, <2>4 DEF SeenWereStored
  <2> QED
    BY <2>1, <2>3, <2>4, <2>5, <2>6
    DEF ClosedDialogForgets, ClosedDialogIsNew, ListHasOwnChanges, ListWasThere,
        DeletedAreGone, AnswerHasOwnChanges
<1>8. ASSUME NEW n \in Creates, CreateStored(n)
      PROVE  ServersInv'
  <2>1. creates[n] \in {"sent", "lost"} /\ stored' = stored \union {n}
        /\ \/ creates' = [creates EXCEPT ![n] = "stored"]
           \/ creates' = [creates EXCEPT ![n] = "failed"]
        /\ UNCHANGED <<list, onServers, dialog, asking, deletes, givenUp>>
    BY <1>8 DEF CreateStored
  <2>2. creates' \in [Creates -> CreateStates]
        /\ creates'[n] \in {"stored", "failed"}
        /\ \A m \in Creates \ {n} : creates'[m] = creates[m]
    BY <2>1 DEF ServersTypeOK, CreateStates
  <2>3. stored' \subseteq AllServers
    BY <2>1, CreatesAreNumbers DEF ServersTypeOK
  <2>4. ServersTypeOK'
    BY <2>1, <2>2, <2>3 DEF ServersTypeOK, Rows
  <2>5. deletes[n] = "none"
    BY <2>1 DEF SeenWereStored
  <2>6. SeenWereStored' /\ DeletedAreGone'
    BY <2>1, <2>2, <2>5 DEF SeenWereStored, DeletedAreGone
  <2> QED
    BY <2>1, <2>2, <2>4, <2>6
    DEF ClosedDialogForgets, ClosedDialogIsNew, ListHasOwnChanges, ListWasThere,
        AnswerHasOwnChanges
<1>9. ASSUME NEW n \in Creates, CreateFails(n)
      PROVE  ServersInv'
  <2>1. /\ \/ Pending(creates[n]) /\ creates' = [creates EXCEPT ![n] = "failed"]
           \/ creates[n] = "sent" /\ creates' = [creates EXCEPT ![n] = "lost"]
        /\ UNCHANGED <<stored, list, onServers, dialog, asking, deletes, givenUp>>
    BY <1>9 DEF CreateFails
  <2>2. creates' \in [Creates -> CreateStates]
        /\ creates'[n] \in {"failed", "lost"}
        /\ (creates'[n] = "lost" => creates[n] = "sent")
        /\ \A m \in Creates \ {n} : creates'[m] = creates[m]
    BY <2>1 DEF ServersTypeOK, CreateStates
  <2>3. ServersTypeOK'
    BY <2>1, <2>2 DEF ServersTypeOK, Rows
  <2>4. SeenWereStored'
    BY <2>1, <2>2 DEF SeenWereStored
  <2> QED
    BY <2>1, <2>2, <2>3, <2>4
    DEF ClosedDialogForgets, ClosedDialogIsNew, ListHasOwnChanges, ListWasThere,
        DeletedAreGone, AnswerHasOwnChanges
<1>10. ASSUME NEW n \in Creates, CreateAnswered(n)
       PROVE  ServersInv'
  <2>1. creates[n] = "stored" /\ list' = Invalidate(list, {})
        /\ creates' = [creates EXCEPT ![n] = IF list.has THEN "answered" ELSE "early"]
        /\ dialog' = (IF dialog.asked = n THEN [dialog EXCEPT !.key = n] ELSE dialog)
        /\ UNCHANGED <<stored, onServers, asking, deletes, givenUp>>
    BY <1>10 DEF CreateAnswered
  <2>2. list' \in ListQueries /\ list'.has = list.has /\ list'.data = list.data
        /\ IsFetching(list') /\ list'.carries \in {list.carries, {}}
        /\ (list'.request = "read" => list.request = "read" /\ list'.carries = list.carries)
        /\ (list'.status = list.status \/ (list'.status = "pending" /\ ~list.has))
        /\ (list.has => list'.request = "asked")
    BY <2>1, FetchList DEF ServersTypeOK
  <2>3. creates' \in [Creates -> CreateStates]
        /\ creates'[n] = (IF list.has THEN "answered" ELSE "early")
        /\ \A m \in Creates \ {n} : creates'[m] = creates[m]
    BY <2>1 DEF ServersTypeOK, CreateStates
  <2>4. n \in 0 .. MaxCreates /\ n # 0
    BY ServersAssumption DEF Creates
  <2>5. dialog' \in [open : BOOLEAN, asked : 0 .. MaxCreates, key : 0 .. MaxCreates]
        /\ dialog'.open = dialog.open /\ dialog'.asked = dialog.asked
        /\ dialog'.key \in {0, dialog'.asked}
        /\ (dialog.asked # n => dialog' = dialog)
    BY <2>1, <2>4 DEF ServersTypeOK
  <2>6. dialog.asked = n => dialog.open
    BY <2>4, ClosedDialogFacts DEF ClosedDialogIsNew
  <2>7. asking' \subseteq Rows'
    BY <2>1, <2>2 DEF ServersTypeOK, Rows
  <2>8. ServersTypeOK'
    <3>1. (list'.status = "pending" => IsFetching(list'))
          /\ (list'.status = "success" => list'.has)
      BY <2>2 DEF ServersTypeOK
    <3> QED
      BY <2>1, <2>2, <2>3, <2>5, <2>7, <3>1 DEF ServersTypeOK
  <2>9. ClosedDialogForgets' /\ ClosedDialogIsNew'
    BY <2>5, <2>6 DEF ClosedDialogForgets, ClosedDialogIsNew
  <2>10. ListHasOwnChanges'
    BY <2>2 DEF ListHasOwnChanges
  <2>11. ListWasThere' /\ SeenWereStored' /\ DeletedAreGone'
    BY <2>1, <2>2, <2>3 DEF ListWasThere, SeenWereStored, DeletedAreGone
  <2>12. AnswerHasOwnChanges'
    BY <2>1, <2>2, <2>3 DEF AnswerHasOwnChanges
  <2> QED
    BY <2>8, <2>9, <2>10, <2>11, <2>12
<1>11. ASSUME NEW s \in AllServers, AskDelete(s)
       PROVE  ServersInv'
  <2>1. s \in Rows /\ asking' = {s}
        /\ UNCHANGED <<stored, list, onServers, dialog, creates, deletes, givenUp>>
    BY <1>11 DEF AskDelete
  <2>2. ServersTypeOK'
    BY <2>1 DEF ServersTypeOK, Rows
  <2> QED
    BY <2>1, <2>2
    DEF ClosedDialogForgets, ClosedDialogIsNew, ListHasOwnChanges, ListWasThere,
        SeenWereStored, DeletedAreGone, AnswerHasOwnChanges
<1>12. CASE CancelDelete
  BY <1>12, OnlyListFetched DEF CancelDelete, ServersTypeOK
<1>13. ASSUME NEW s \in AllServers, ConfirmDelete(s)
       PROVE  ServersInv'
  <2>1. asking = {s} /\ deletes' = [deletes EXCEPT ![s] = "sent"] /\ asking' = {}
        /\ UNCHANGED <<stored, list, onServers, dialog, creates, givenUp>>
    BY <1>13 DEF ConfirmDelete
  <2>2. s \in list.data /\ list.status # "error"
    BY <2>1 DEF ServersTypeOK, Rows
  <2>3. list.has
    BY <2>2 DEF ServersTypeOK
  <2>4. deletes' \in [AllServers -> {"none", "sent", "stored", "answered"}]
        /\ deletes'[s] = "sent" /\ \A t \in AllServers \ {s} : deletes'[t] = deletes[t]
    BY <2>1 DEF ServersTypeOK
  <2>5. ServersTypeOK'
    BY <2>1, <2>4 DEF ServersTypeOK
  <2>6. SeenWereStored'
    BY <2>1, <2>2, <2>4, CreatesAreNumbers DEF SeenWereStored
  <2> QED
    BY <2>1, <2>3, <2>4, <2>5, <2>6
    DEF ClosedDialogForgets, ClosedDialogIsNew, ListHasOwnChanges, ListWasThere,
        DeletedAreGone, AnswerHasOwnChanges
<1>14. ASSUME NEW s \in AllServers, DeleteStored(s)
       PROVE  ServersInv'
  <2>1. deletes[s] = "sent" /\ stored' = stored \ {s}
        /\ deletes' = [deletes EXCEPT ![s] = "stored"]
        /\ UNCHANGED <<list, onServers, dialog, creates, asking, givenUp>>
    BY <1>14 DEF DeleteStored
  <2>2. deletes' \in [AllServers -> {"none", "sent", "stored", "answered"}]
        /\ deletes'[s] = "stored" /\ \A t \in AllServers \ {s} : deletes'[t] = deletes[t]
    BY <2>1 DEF ServersTypeOK
  <2>3. ServersTypeOK'
    BY <2>1, <2>2 DEF ServersTypeOK, Rows
  <2> QED
    BY <2>1, <2>2, <2>3, CreatesAreNumbers
    DEF ClosedDialogForgets, ClosedDialogIsNew, ListHasOwnChanges, ListWasThere,
        SeenWereStored, DeletedAreGone, AnswerHasOwnChanges
<1>15. ASSUME NEW s \in AllServers, DeleteFails(s)
       PROVE  ServersInv'
  <2>1. deletes' = [deletes EXCEPT ![s] = "none"] /\ deletes[s] # "none"
        /\ givenUp' \in {givenUp, givenUp \union {s}}
        /\ UNCHANGED <<stored, list, onServers, dialog, creates, asking>>
    BY <1>15 DEF DeleteFails, Pending
  <2>2. deletes' \in [AllServers -> {"none", "sent", "stored", "answered"}]
        /\ deletes'[s] = "none" /\ \A t \in AllServers \ {s} : deletes'[t] = deletes[t]
    BY <2>1 DEF ServersTypeOK
  <2>3. ServersTypeOK'
    BY <2>1, <2>2 DEF ServersTypeOK, Rows
  <2> QED
    BY <2>1, <2>2, <2>3, CreatesAreNumbers
    DEF ClosedDialogForgets, ClosedDialogIsNew, ListHasOwnChanges, ListWasThere,
        SeenWereStored, DeletedAreGone, AnswerHasOwnChanges
<1>16. ASSUME NEW s \in AllServers, DeleteAnswered(s)
       PROVE  ServersInv'
  <2>1. deletes[s] = "stored" /\ deletes' = [deletes EXCEPT ![s] = "answered"]
        /\ list' = Invalidate(list, {})
        /\ UNCHANGED <<stored, onServers, dialog, creates, asking, givenUp>>
    BY <1>16 DEF DeleteAnswered
  <2>2. list.has
    BY <2>1 DEF ListWasThere
  <2>3. list' \in ListQueries /\ list'.has /\ list'.data = list.data
        /\ IsFetching(list') /\ list'.carries \in {list.carries, {}}
        /\ list'.status = list.status /\ list'.request = "asked"
    BY <2>1, <2>2, FetchList DEF ServersTypeOK
  <2>4. deletes' \in [AllServers -> {"none", "sent", "stored", "answered"}]
        /\ deletes'[s] = "answered" /\ \A t \in AllServers \ {s} : deletes'[t] = deletes[t]
    BY <2>1 DEF ServersTypeOK
  <2>5. asking' \subseteq Rows'
    BY <2>1, <2>3 DEF ServersTypeOK, Rows
  <2>6. ServersTypeOK'
    BY <2>1, <2>3, <2>4, <2>5 DEF ServersTypeOK
  <2>7. ClosedDialogForgets' /\ ClosedDialogIsNew'
    BY <2>1 DEF ClosedDialogForgets, ClosedDialogIsNew
  <2>8. ListHasOwnChanges' /\ AnswerHasOwnChanges'
    BY <2>3 DEF ListHasOwnChanges, AnswerHasOwnChanges
  <2>9. ListWasThere' /\ SeenWereStored' /\ DeletedAreGone'
    BY <2>1, <2>2, <2>3, <2>4, CreatesAreNumbers
    DEF ListWasThere, SeenWereStored, DeletedAreGone
  <2> QED
    BY <2>6, <2>7, <2>8, <2>9
<1>17. ASSUME NEW s \in AllServers, DeleteStoredLate(s)
       PROVE  ServersInv'
  <2>1. stored' = stored \ {s} /\ givenUp' = givenUp \ {s}
        /\ UNCHANGED <<list, onServers, dialog, creates, asking, deletes>>
    BY <1>17 DEF DeleteStoredLate
  <2>2. ServersTypeOK'
    BY <2>1 DEF ServersTypeOK, Rows
  <2> QED
    BY <2>1, <2>2
    DEF ClosedDialogForgets, ClosedDialogIsNew, ListHasOwnChanges, ListWasThere,
        SeenWereStored, DeletedAreGone, AnswerHasOwnChanges
<1>18. CASE UNCHANGED serversVars
  <2>1. UNCHANGED <<stored, list, onServers, dialog, creates, asking, deletes, givenUp>>
    BY <1>18 DEF serversVars
  <2>2. onServers' \in BOOLEAN
    BY <2>1 DEF ServersTypeOK
  <2>3. list' = list \/ list' = Fetch(list, {})
    BY <2>1
  <2>4. UNCHANGED <<stored, creates, deletes, givenUp>>
    BY <2>1
  <2>5. dialog' \in {dialog, ClosedDialog} /\ asking' \in {asking, {}}
    BY <2>1
  <2>6. dialog'.open => onServers'
    BY <2>1 DEF ServersTypeOK
  <2>7. asking' # {} => onServers'
    BY <2>1 DEF ServersTypeOK, Rows
  <2> QED
    BY <2>2, <2>3, <2>4, <2>5, <2>6, <2>7, OnlyListFetched
<1> QED
  BY <1>1, <1>2, <1>3, <1>4, <1>5, <1>6, <1>7, <1>8, <1>9, <1>10, <1>11, <1>12, <1>13,
     <1>14, <1>15, <1>16, <1>17, <1>18
  DEF ServersNext

\* For any servers and any number of creations and deletions: a dialog follows a
\* creation that was sent, and a delete dialog is on its row.
THEOREM ServersTypes == ServersSpec => []ServersTypeOK
<1>1. ServersInv => ServersTypeOK
  BY DEF ServersInv
<1> QED
  BY <1>1, ServersInitInv, ServersInvStep, PTL DEF ServersSpec

\* A key is never behind a closed dialog.
THEOREM DialogForgets == ServersSpec => []ClosedDialogForgets
<1>1. ServersInv => ClosedDialogForgets
  BY DEF ServersInv
<1> QED
  BY <1>1, ServersInitInv, ServersInvStep, PTL DEF ServersSpec

\* The list agrees with what this tab has been told of, whenever it is not being fetched.
THEOREM ListAgrees == ServersSpec => []ListHasOwnChanges
<1>1. ServersInv => ListHasOwnChanges
  BY DEF ServersInv
<1> QED
  BY <1>1, ServersInitInv, ServersInvStep, PTL DEF ServersSpec

-----------------------------------------------------------------------------
(* The dashboard.                                                          *)

LEMMA NewestIsOne ==
    ASSUME NEW S \in SUBSET Servers, S # {}
    PROVE  Newest(S) \in S
<1>1. \E s \in S : \A t \in S : t <= s
  BY DashboardAssumption
<1> QED
  BY <1>1 DEF Newest

LEMMA SelectedIsServer ==
    ASSUME DashTypeOK
    PROVE  SelectedServer \in Servers \union {0}
  BY NewestIsOne DEF DashTypeOK, SelectedServer

LEMMA KeyIsKey ==
    ASSUME NEW s \in Servers, NEW r \in Ranges
    PROVE  /\ Key(s, r) \in Keys
           /\ Key(s, r)[1] = s
           /\ query = "range" => Key(s, r)[2] = r
  BY DEF Key, Keys

LEMMA RequestFits ==
    ASSUME query \in {"polled", "range"}, NEW s \in Servers, NEW r \in Ranges
    PROVE  /\ Request(s, r) \in [key : Keys, server : Servers, range : Ranges \union {"any"},
                                  read : BOOLEAN, sample : 0 .. MaxSamples]
           /\ Request(s, r).key = Key(s, r)
           /\ Request(s, r).server = Request(s, r).key[1]
           /\ query = "range" => Request(s, r).range = Request(s, r).key[2]
           /\ Request(s, r).sample = 0
           /\ Request(s, r).read <=> query = "range"
<1>1. 0 \in 0 .. MaxSamples
  BY DashboardAssumption
<1>2. Key(s, r) \in Keys /\ Key(s, r)[1] = s /\ (query = "range" => Key(s, r)[2] = r)
  BY KeyIsKey
<1>3. CASE query = "range"
  <2>1. Request(s, r) = [key |-> Key(s, r), server |-> s, range |-> r, read |-> TRUE,
                         sample |-> 0]
    BY <1>3 DEF Request
  <2> QED
    BY <1>1, <1>2, <1>3, <2>1
<1>4. CASE query # "range"
  <2>1. Request(s, r) = [key |-> Key(s, r), server |-> s, range |-> "any", read |-> FALSE,
                         sample |-> 0]
    BY <1>4 DEF Request
  <2> QED
    BY <1>1, <1>2, <1>4, <2>1
<1> QED
  BY <1>3, <1>4

LEMMA CacheSamples ==
    ASSUME DashTypeOK, NEW k \in Keys
    PROVE  cache[k] \in Answers /\ cache[k].sample \in Nat
  BY DashboardAssumption DEF DashTypeOK, Answers

LEMMA FlyingSamples ==
    ASSUME DashTypeOK, NEW q \in flying
    PROVE  q.key \in Keys /\ q.sample \in Nat
  BY DashboardAssumption DEF DashTypeOK

LEMMA FlyingMatches ==
    ASSUME AnswersMatch, NEW q \in flying
    PROVE  q.server = q.key[1] /\ (query = "range" => q.range = q.key[2])
  BY DEF AnswersMatch

LEMMA DashInitInv == DashInit => DashInv
<1> SUFFICES ASSUME DashInit
             PROVE  DashInv
  OBVIOUS
<1>1. /\ query \in {"polled", "range"} /\ urlServer \in Servers \union {0} /\ servers = {}
      /\ listStatus = "pending" /\ range = DefaultRange /\ flying = {} /\ sample = 1 /\ lost = 0
      /\ cache = [k \in Keys |-> NoAnswer]
  BY DEF DashInit
<1>2. NoAnswer \in Answers /\ ~NoAnswer.has /\ NoAnswer.sample = 0
  <2>1. 0 \in 0 .. MaxSamples /\ 0 \in Servers \union {0} /\ "any" \in Ranges \union {"any"}
    BY DashboardAssumption
  <2> QED
    BY <2>1 DEF NoAnswer, Answers
<1>3. DashTypeOK
  BY <1>1, <1>2, DashboardAssumption DEF DashTypeOK
<1>4. AnswersMatch /\ SamplesInOrder
  BY <1>1, <1>2 DEF AnswersMatch, SamplesInOrder
<1> QED
  BY <1>3, <1>4 DEF DashInv

\* What the cache has is not replaced by an older sample.
NothingOlder == \A k \in Keys : cache[k].sample <= cache'[k].sample

\* A step that asks for at most one key, which is not asked for yet, and stores nothing
\* in the cache.
LEMMA OnlyAsked ==
    ASSUME DashInv, UNCHANGED <<query, cache, lost>>,
           sample' \in 1 .. MaxSamples, sample <= sample',
           urlServer' \in Servers \union {0}, servers' \subseteq Servers,
           listStatus' \in {"pending", "success", "error"},
           listStatus' = "pending" => servers' = {},
           range' \in Ranges,
           \/ flying' = flying
           \/ \E s \in Servers, r \in Ranges :
                ~Fetching(Key(s, r)) /\ flying' = flying \union {Request(s, r)}
    PROVE  DashInv' /\ NothingOlder
<1> USE DEF DashInv
<1>1. CASE flying' = flying
  <2>1. DashTypeOK'
    BY <1>1 DEF DashTypeOK
  <2>2. AnswersMatch' /\ SamplesInOrder'
    <3>1. \A k \in Keys : cache[k].sample <= sample'
      BY CacheSamples DEF SamplesInOrder, DashTypeOK
    <3>2. \A p \in flying : p.sample <= sample'
      BY FlyingSamples DEF SamplesInOrder, DashTypeOK
    <3>3. AnswersMatch'
      BY <1>1 DEF AnswersMatch
    <3>4. \A p \in flying' : p.read => cache'[p.key].sample <= p.sample
      BY <1>1 DEF SamplesInOrder
    <3>5. query' = "range" => /\ \A k \in Keys : cache'[k].sample = 0
                              /\ \A p \in flying' : p.read /\ p.sample = 0
      BY <1>1 DEF SamplesInOrder
    <3> QED
      BY <1>1, <3>1, <3>2, <3>3, <3>4, <3>5 DEF SamplesInOrder
  <2>3. NothingOlder
    BY CacheSamples DEF NothingOlder
  <2> QED
    BY <2>1, <2>2, <2>3
<1>2. ASSUME NEW s \in Servers, NEW r \in Ranges, ~Fetching(Key(s, r)),
             flying' = flying \union {Request(s, r)}
      PROVE  DashInv'
  <2> DEFINE q == Request(s, r)
  <2>1. /\ q \in [key : Keys, server : Servers, range : Ranges \union {"any"},
                   read : BOOLEAN, sample : 0 .. MaxSamples]
        /\ q.key = Key(s, r) /\ q.server = q.key[1]
        /\ query = "range" => q.range = q.key[2]
        /\ q.sample = 0 /\ (q.read <=> query = "range")
    BY RequestFits DEF DashTypeOK
  <2>2. flying' = flying \union {q}
    BY <1>2
  <2>3. \A p \in flying : p.key # q.key
    BY <1>2, <2>1 DEF Fetching
  <2> HIDE DEF q
  <2>4. \A p1, p2 \in flying' : p1.key = p2.key => p1 = p2
    BY <2>2, <2>3 DEF DashTypeOK
  <2>5. DashTypeOK'
    BY <2>1, <2>2, <2>4 DEF DashTypeOK
  <2>6. AnswersMatch'
    BY <2>1, <2>2 DEF AnswersMatch
  <2>7. SamplesInOrder'
    <3>1. \A k \in Keys : cache[k].sample <= sample'
      BY CacheSamples DEF SamplesInOrder, DashTypeOK
    <3>2. \A p \in flying : p.sample <= sample'
      BY FlyingSamples DEF SamplesInOrder, DashTypeOK
    <3>3. q.read => cache[q.key].sample <= q.sample
      BY <2>1 DEF SamplesInOrder
    <3>4. q.sample <= sample'
      BY <2>1
    <3>5. \A p \in flying' : p.read => cache'[p.key].sample <= p.sample
      BY <2>2, <3>3 DEF SamplesInOrder
    <3>6. \A p \in flying' : p.sample <= sample'
      BY <2>2, <3>2, <3>4
    <3>7. query' = "range" => /\ \A k \in Keys : cache'[k].sample = 0
                              /\ \A p \in flying' : p.read /\ p.sample = 0
      BY <2>1, <2>2 DEF SamplesInOrder
    <3> QED
      BY <3>1, <3>5, <3>6, <3>7 DEF SamplesInOrder
  <2> QED
    BY <2>5, <2>6, <2>7
<1>3. NothingOlder
  BY CacheSamples DEF NothingOlder
<1> QED
  BY <1>1, <1>2, <1>3

\* An answer takes the place of another under the key of its request, which is over.
LEMMA OneAnswered ==
    ASSUME DashInv, NEW q \in flying, NEW answer \in Answers,
           flying' = flying \ {q}, cache' = [cache EXCEPT ![q.key] = answer],
           UNCHANGED <<query, urlServer, servers, listStatus, range, sample>>,
           lost' \in 0 .. MaxLost,
           answer.has => /\ answer.server = q.key[1]
                         /\ query = "range" => answer.range = q.key[2],
           answer.sample <= sample, query = "range" => answer.sample = 0,
           cache[q.key].sample <= answer.sample
    PROVE  DashInv' /\ NothingOlder
<1> USE DEF DashInv
<1>1. q.key \in Keys
  BY FlyingSamples
<1>2. /\ cache' \in [Keys -> Answers] /\ cache'[q.key] = answer
      /\ \A k \in Keys \ {q.key} : cache'[k] = cache[k]
  BY <1>1 DEF DashTypeOK
<1>3. DashTypeOK'
  BY <1>2 DEF DashTypeOK
<1>4. AnswersMatch'
  BY <1>1, <1>2 DEF AnswersMatch
<1>5. \A k \in Keys : cache'[k].sample <= sample'
  BY <1>1, <1>2 DEF SamplesInOrder
<1>6. \A p \in flying' : p.sample <= sample'
  BY DEF SamplesInOrder
<1>7. \A p \in flying' : p.key \in Keys \ {q.key}
  BY FlyingSamples DEF DashTypeOK
<1>8. \A p \in flying' : p.read => cache'[p.key].sample <= p.sample
  BY <1>2, <1>7 DEF SamplesInOrder
<1>9. query' = "range" => /\ \A k \in Keys : cache'[k].sample = 0
                          /\ \A p \in flying' : p.read /\ p.sample = 0
  BY <1>1, <1>2 DEF SamplesInOrder
<1>10. NothingOlder
  BY <1>1, <1>2, CacheSamples DEF NothingOlder
<1> QED
  BY <1>3, <1>4, <1>5, <1>6, <1>8, <1>9, <1>10 DEF SamplesInOrder

LEMMA SelectsAsks ==
    ASSUME NEW s \in Servers \union {0}, NEW r \in Ranges, Selects(s, r)
    PROVE  \/ flying' = flying
           \/ \E t \in Servers, p \in Ranges :
                ~Fetching(Key(t, p)) /\ flying' = flying \union {Request(t, p)}
  BY DEF Selects, CanAsk

LEMMA DashInvStep ==
    ASSUME DashInv, [DashNext]_dashVars
    PROVE  DashInv' /\ NothingOlder
<1> USE DEF DashInv
<1>1. CASE Ask
  <2>1. /\ SelectedServer # 0 /\ ~Fetching(Key(SelectedServer, range))
        /\ flying' = flying \union {Request(SelectedServer, range)}
        /\ UNCHANGED <<query, urlServer, servers, listStatus, range, cache, sample, lost>>
    BY <1>1 DEF Ask, CanAsk
  <2>2. SelectedServer \in Servers
    BY <2>1, SelectedIsServer
  <2>3. sample' \in 1 .. MaxSamples /\ sample <= sample'
    BY <2>1, DashboardAssumption DEF DashTypeOK
  <2> QED
    BY <2>1, <2>2, <2>3, OnlyAsked DEF DashTypeOK
<1>2. CASE CoreReads
  <2>1. PICK q \in flying :
            /\ ~q.read
            /\ flying' = (flying \ {q}) \union {[q EXCEPT !.read = TRUE, !.sample = sample]}
    BY <1>2 DEF CoreReads
  <2>2. UNCHANGED <<query, urlServer, servers, listStatus, range, cache, sample, lost>>
    BY <1>2 DEF CoreReads
  <2> DEFINE r == [q EXCEPT !.read = TRUE, !.sample = sample]
  <2>3. r \in [key : Keys, server : Servers, range : Ranges \union {"any"},
               read : BOOLEAN, sample : 0 .. MaxSamples]
        /\ r.key = q.key /\ r.server = q.server /\ r.range = q.range /\ r.sample = sample
    <3>1. q \in [key : Keys, server : Servers, range : Ranges \union {"any"},
                 read : BOOLEAN, sample : 0 .. MaxSamples]
      BY DEF DashTypeOK
    <3>2. sample \in 0 .. MaxSamples
      BY DashboardAssumption DEF DashTypeOK
    <3> QED
      BY <3>1, <3>2
  <2>4. flying' = (flying \ {q}) \union {r}
    BY <2>1
  <2>5. q.key \in Keys /\ query # "range"
    BY <2>1, FlyingSamples DEF SamplesInOrder
  <2> HIDE DEF r
  <2>6. \A p1, p2 \in flying' : p1.key = p2.key => p1 = p2
    BY <2>3, <2>4 DEF DashTypeOK
  <2>7. DashTypeOK'
    BY <2>2, <2>3, <2>4, <2>6 DEF DashTypeOK
  <2>8. AnswersMatch'
    BY <2>2, <2>3, <2>4 DEF AnswersMatch
  <2>9. SamplesInOrder'
    <3>1. sample <= sample
      BY DEF DashTypeOK
    <3>2. \A p \in flying' : p.sample <= sample'
      BY <2>2, <2>3, <2>4, <3>1 DEF SamplesInOrder
    <3>3. cache[r.key].sample <= r.sample
      BY <2>3, <2>5 DEF SamplesInOrder
    <3>4. \A p \in flying' : p.read => cache'[p.key].sample <= p.sample
      BY <2>2, <2>4, <3>3 DEF SamplesInOrder
    <3> QED
      BY <2>2, <2>5, <3>2, <3>4 DEF SamplesInOrder
  <2>10. NothingOlder
    BY <2>2, CacheSamples DEF NothingOlder
  <2> QED
    BY <2>7, <2>8, <2>9, <2>10
<1>3. ASSUME NEW q \in flying, Arrive(q)
      PROVE  DashInv' /\ NothingOlder
  <2> DEFINE answer == [has |-> TRUE, server |-> q.server, range |-> q.range,
                        sample |-> q.sample, failed |-> FALSE]
  <2>1. /\ q.read /\ flying' = flying \ {q}
        /\ cache' = [cache EXCEPT ![q.key] = answer]
        /\ UNCHANGED <<query, urlServer, servers, listStatus, range, sample, lost>>
    BY <1>3 DEF Arrive
  <2>2. answer \in Answers /\ answer.server = q.server /\ answer.range = q.range
        /\ answer.sample = q.sample
    BY DEF DashTypeOK, Answers
  <2>3. q.key \in Keys /\ lost' \in 0 .. MaxLost
    BY <2>1, FlyingSamples DEF DashTypeOK
  <2> HIDE DEF answer
  <2>4. answer.has => /\ answer.server = q.key[1]
                      /\ query = "range" => answer.range = q.key[2]
    <3>1. q.server = q.key[1] /\ (query = "range" => q.range = q.key[2])
      BY FlyingMatches
    <3> QED
      BY <2>2, <3>1
  <2>5. answer.sample <= sample /\ (query = "range" => answer.sample = 0)
    BY <2>2 DEF SamplesInOrder
  <2>6. cache[q.key].sample <= answer.sample
    BY <2>1, <2>2 DEF SamplesInOrder
  <2> QED
    BY <2>1, <2>2, <2>3, <2>4, <2>5, <2>6, OneAnswered
<1>4. ASSUME NEW q \in flying, Lose(q)
      PROVE  DashInv' /\ NothingOlder
  <2> DEFINE answer == [cache[q.key] EXCEPT !.failed = TRUE]
  <2>1. /\ flying' = flying \ {q}
        /\ cache' = [cache EXCEPT ![q.key] = answer]
        /\ lost < MaxLost /\ lost' = lost + 1
        /\ UNCHANGED <<query, urlServer, servers, listStatus, range, sample>>
    BY <1>4 DEF Lose
  <2>2. q.key \in Keys /\ cache[q.key] \in Answers
    BY FlyingSamples, CacheSamples
  <2>3. answer \in Answers /\ answer.has = cache[q.key].has
        /\ answer.server = cache[q.key].server /\ answer.range = cache[q.key].range
        /\ answer.sample = cache[q.key].sample
    BY <2>2 DEF Answers
  <2>4. lost' \in 0 .. MaxLost
    BY <2>1, DashboardAssumption DEF DashTypeOK
  <2> HIDE DEF answer
  <2>5. answer.has => /\ answer.server = q.key[1]
                      /\ query = "range" => answer.range = q.key[2]
    BY <2>2, <2>3 DEF AnswersMatch
  <2>6. answer.sample <= sample /\ (query = "range" => answer.sample = 0)
    BY <2>2, <2>3 DEF SamplesInOrder
  <2>7. cache[q.key].sample <= answer.sample
    BY <2>2, <2>3, CacheSamples
  <2> QED
    BY <2>1, <2>3, <2>4, <2>5, <2>6, <2>7, OneAnswered
<1>5. CASE NewSample
  <2>1. sample' = sample + 1 /\ sample < MaxSamples
        /\ UNCHANGED <<query, urlServer, servers, listStatus, range, cache, flying, lost>>
    BY <1>5 DEF NewSample
  <2>2. sample' \in 1 .. MaxSamples /\ sample <= sample'
    BY <2>1, DashboardAssumption DEF DashTypeOK
  <2> QED
    BY <2>1, <2>2, OnlyAsked DEF DashTypeOK
<1>6. CASE ListLoads
  <2>1. PICK S \in SUBSET Servers :
            /\ servers' = S /\ listStatus' = "success"
            /\ Selects(IF urlServer # 0 \/ S = {} THEN urlServer ELSE Newest(S), range)
            /\ UNCHANGED <<query, urlServer, range, cache, sample, lost>>
    BY <1>6 DEF ListLoads
  <2> DEFINE s == IF urlServer # 0 \/ S = {} THEN urlServer ELSE Newest(S)
  <2>2. s \in Servers \union {0}
    BY NewestIsOne DEF DashTypeOK
  <2>3. Selects(s, range)
    BY <2>1
  <2> HIDE DEF s
  <2>4. range \in Ranges
    BY DEF DashTypeOK
  <2>5. \/ flying' = flying
        \/ \E t \in Servers, r \in Ranges :
             ~Fetching(Key(t, r)) /\ flying' = flying \union {Request(t, r)}
    BY <2>2, <2>3, <2>4, SelectsAsks
  <2>6. listStatus' \in {"pending", "success", "error"} /\ listStatus' # "pending"
    BY <2>1
  <2>7. sample' \in 1 .. MaxSamples /\ sample <= sample'
    BY <2>1, DashboardAssumption DEF DashTypeOK
  <2> QED
    BY <2>1, <2>5, <2>6, <2>7, OnlyAsked DEF DashTypeOK
<1>7. CASE ListBreaks
  <2>1. listStatus' = "error"
        /\ UNCHANGED <<query, urlServer, servers, range, cache, flying, sample, lost>>
    BY <1>7 DEF ListBreaks
  <2>2. sample' \in 1 .. MaxSamples /\ sample <= sample'
    BY <2>1, DashboardAssumption DEF DashTypeOK
  <2> QED
    BY <2>1, <2>2, OnlyAsked DEF DashTypeOK
<1>8. ASSUME NEW s \in Servers, SelectServer(s)
      PROVE  DashInv' /\ NothingOlder
  <2>1. urlServer' = s /\ Selects(s, range)
        /\ UNCHANGED <<query, servers, listStatus, range, cache, sample, lost>>
    BY <1>8 DEF SelectServer
  <2>2. sample' \in 1 .. MaxSamples /\ sample <= sample'
    BY <2>1, DashboardAssumption DEF DashTypeOK
  <2>3. range \in Ranges
    BY DEF DashTypeOK
  <2>4. \/ flying' = flying
        \/ \E t \in Servers, r \in Ranges :
             ~Fetching(Key(t, r)) /\ flying' = flying \union {Request(t, r)}
    BY <2>1, <2>3, SelectsAsks
  <2> QED
    BY <2>1, <2>2, <2>4, OnlyAsked DEF DashTypeOK
<1>9. ASSUME NEW r \in Ranges, SelectRange(r)
      PROVE  DashInv' /\ NothingOlder
  <2>1. range' = r /\ Selects(SelectedServer, r)
        /\ UNCHANGED <<query, urlServer, servers, listStatus, cache, sample, lost>>
    BY <1>9 DEF SelectRange
  <2>2. sample' \in 1 .. MaxSamples /\ sample <= sample'
    BY <2>1, DashboardAssumption DEF DashTypeOK
  <2>3. \/ flying' = flying
        \/ \E t \in Servers, p \in Ranges :
             ~Fetching(Key(t, p)) /\ flying' = flying \union {Request(t, p)}
    BY <2>1, SelectedIsServer, SelectsAsks
  <2> QED
    BY <2>1, <2>2, <2>3, OnlyAsked DEF DashTypeOK
<1>10. ASSUME NEW s \in Servers \union {0}, OpenDashboard(s)
       PROVE  DashInv' /\ NothingOlder
  <2> DEFINE t == IF s # 0 \/ servers = {} THEN s ELSE Newest(servers)
  <2>1. urlServer' = s /\ range' \in {range, DefaultRange} /\ Selects(t, range')
        /\ UNCHANGED <<query, servers, listStatus, cache, sample, lost>>
    BY <1>10 DEF OpenDashboard
  <2>2. t \in Servers \union {0}
    BY NewestIsOne DEF DashTypeOK
  <2> HIDE DEF t
  <2>3. range' \in Ranges
    BY <2>1, DashboardAssumption DEF DashTypeOK
  <2>4. \/ flying' = flying
        \/ \E u \in Servers, r \in Ranges :
             ~Fetching(Key(u, r)) /\ flying' = flying \union {Request(u, r)}
    BY <2>1, <2>2, <2>3, SelectsAsks
  <2>5. sample' \in 1 .. MaxSamples /\ sample <= sample'
    BY <2>1, DashboardAssumption DEF DashTypeOK
  <2> QED
    BY <2>1, <2>3, <2>4, <2>5, OnlyAsked DEF DashTypeOK
<1>11. CASE UNCHANGED dashVars
  <2>1. UNCHANGED <<query, urlServer, servers, listStatus, range, cache, flying, sample, lost>>
    BY <1>11 DEF dashVars
  <2>2. sample' \in 1 .. MaxSamples /\ sample <= sample'
    BY <2>1, DashboardAssumption DEF DashTypeOK
  <2> QED
    BY <2>1, <2>2, OnlyAsked DEF DashTypeOK
<1> QED
  BY <1>1, <1>2, <1>3, <1>4, <1>5, <1>6, <1>7, <1>8, <1>9, <1>10,
     <1>11 DEF DashNext

LEMMA ShownIsCached ==
    ASSUME DashInv, Shown.has
    PROVE  /\ SelectedServer \in Servers /\ SelectedKey \in Keys
           /\ Shown = cache[SelectedKey] /\ cache[SelectedKey].has
<1>1. ~NoAnswer.has
  BY DEF NoAnswer
<1>2. Shown # NoAnswer
  BY <1>1
<1>3. SelectedServer # 0 /\ Shown \in {TileShown, ChartShown}
  BY <1>2 DEF Shown
<1>4. Shown = cache[SelectedKey]
  BY <1>2, <1>3 DEF TileShown, ChartShown
<1>5. SelectedServer \in Servers /\ range \in Ranges
  BY <1>3, SelectedIsServer DEF DashInv, DashTypeOK
<1> QED
  BY <1>4, <1>5, KeyIsKey DEF SelectedKey

\* For any servers, ranges and requests in flight: answers lie under keys, and no key
\* is asked for twice at a time.
THEOREM DashTypes == DashSpec => []DashTypeOK
<1>1. DashInv => DashTypeOK
  BY DEF DashInv
<1> QED
  BY <1>1, DashInitInv, DashInvStep, PTL DEF DashSpec

\* Whatever is selected, and in whatever order answers arrive, what is shown is of the
\* selection.
THEOREM ShownMatches == DashSpec => []ShownIsSelected
<1>1. ASSUME DashInv
      PROVE  ShownIsSelected
  <2>1. SUFFICES ASSUME Shown.has
                 PROVE  /\ Shown.server = SelectedServer
                        /\ query = "range" => Shown.range = range
    BY DEF ShownIsSelected
  <2>2. SelectedKey \in Keys /\ SelectedServer \in Servers
        /\ Shown = cache[SelectedKey] /\ cache[SelectedKey].has
    BY <1>1, <2>1, ShownIsCached
  <2>3. range \in Ranges
    BY <1>1 DEF DashInv, DashTypeOK
  <2>4. SelectedKey[1] = SelectedServer /\ (query = "range" => SelectedKey[2] = range)
    BY <2>2, <2>3, KeyIsKey DEF SelectedKey
  <2> QED
    BY <1>1, <2>2, <2>4 DEF DashInv, AnswersMatch
<1> QED
  BY <1>1, DashInitInv, DashInvStep, PTL DEF DashSpec

\* Polls that overtake each other never take the page back to an older sample.
THEOREM ShownGoesForward == DashSpec => ShownNeverGoesBack
<1> DEFINE IsCached == Shown.has => SelectedKey \in Keys /\ Shown = cache[SelectedKey]
<1>1. DashInv => IsCached
  BY ShownIsCached
<1>2. ASSUME DashInv, [DashNext]_dashVars, IsCached, IsCached',
             Shown.has, Shown'.has, SelectedServer' = SelectedServer, range' = range
      PROVE  Shown.sample <= Shown'.sample
  <2>1. query' = query
    BY <1>2 DEF DashNext, dashVars, Ask, CoreReads, Arrive, Lose, NewSample, ListLoads,
                ListBreaks, SelectServer, SelectRange, OpenDashboard
  <2>2. SelectedKey' = SelectedKey
    BY <1>2, <2>1 DEF SelectedKey, Key
  <2>3. SelectedKey \in Keys /\ Shown = cache[SelectedKey] /\ Shown' = cache'[SelectedKey]
    BY <1>2, <2>2
  <2> QED
    BY <1>2, <2>3, DashInvStep DEF NothingOlder
<1>3. DashInv /\ IsCached /\ IsCached' /\ [DashNext]_dashVars =>
        [Shown.has /\ Shown'.has /\ SelectedServer' = SelectedServer /\ range' = range
          => Shown.sample <= Shown'.sample]_dashVars
  BY <1>2
<1> HIDE DEF IsCached
<1> QED
  BY <1>1, <1>3, DashInitInv, DashInvStep, PTL DEF DashSpec, ShownNeverGoesBack

-----------------------------------------------------------------------------
(* The Agent.                                                              *)

\* Where the ticks fall: the last tick is Interval - toTick old.
TicksInv ==
    /\ running /\ toTick # 0 /\ attempt = "none" => since <= Interval + Timeout
    /\ running /\ toTick # 0 /\ ~due => since + toTick <= Interval + Timeout
    /\ running /\ toTick # 0 /\ ~due => sinceBefore >= Interval - toTick
    /\ running /\ toTick # 0 /\ due => since >= Interval - toTick
    /\ running /\ due => sinceBefore >= Interval

\* What the Core has seen of an Agent whose last attempt was accepted.
SeenInv ==
    /\ attempt = "stored" => lastSeen <= since
    /\ running /\ ~failed => toTick # 0
    /\ running /\ ~failed /\ attempt = "none" => lastSeen <= since
    /\ running /\ ~failed /\ attempt # "none" =>
          lastSeen <= sinceBefore /\ sinceBefore <= Interval + Timeout + since

AgentInv == AgentTypeOK /\ TicksInv /\ SeenInv

LEMMA AgentStarts == AgentInit => AgentInv
<1> SUFFICES ASSUME AgentInit PROVE AgentInv
  OBVIOUS
<1> USE AgentAssumption DEF AgentInit, LongAgo
<1>f. AgentFlags
  BY DEF AgentFlags
<1>0. AgentTypes
  BY <1>f DEF AgentTypes
<1>1. AgentTypeOK
  BY <1>0 DEF AgentTypeOK
<1>2. TicksInv
  BY DEF TicksInv
<1>3. SeenInv
  BY DEF SeenInv
<1> QED
  BY <1>1, <1>2, <1>3 DEF AgentInv

LEMMA AgentStep == AgentInv /\ [AgentNext]_agentVars => AgentInv'
<1> SUFFICES ASSUME AgentInv, [AgentNext]_agentVars PROVE AgentInv'
  OBVIOUS
<1> USE AgentAssumption DEF LongAgo
<1>0. AgentTypeOK /\ TicksInv /\ SeenInv
  BY DEF AgentInv
<1>1. CASE Launch
  <2>f. AgentFlags'
    BY <1>0, <1>1 DEF AgentFlags, AgentTypes, AgentTypeOK, Launch
  <2>0. AgentTypes'
    BY <1>0, <1>1, <2>f DEF AgentTypes, AgentTypeOK, Launch
  <2>1. AgentTypeOK'
    BY <1>0, <1>1, <2>0 DEF AgentTypes, AgentTypeOK, Launch
  <2>2. TicksInv'
    BY <1>0, <1>1 DEF AgentTypes, AgentTypeOK, TicksInv, Launch
  <2>3. SeenInv'
    BY <1>0, <1>1 DEF AgentTypes, AgentTypeOK, TicksInv, SeenInv, Launch
  <2> QED
    BY <2>1, <2>2, <2>3 DEF AgentInv
<1>2. CASE StopAgent
  <2>f. AgentFlags'
    BY <1>0, <1>2 DEF AgentFlags, AgentTypes, AgentTypeOK, StopAgent, Abandons
  <2>0. AgentTypes'
    BY <1>0, <1>2, <2>f DEF AgentTypes, AgentTypeOK, StopAgent, Abandons
  <2>1. AgentTypeOK'
    BY <1>0, <1>2, <2>0 DEF AgentTypes, AgentTypeOK, StopAgent, Abandons
  <2>2. TicksInv'
    BY <1>0, <1>2 DEF AgentTypes, AgentTypeOK, TicksInv, StopAgent, Abandons
  <2>3. SeenInv'
    BY <1>0, <1>2 DEF AgentTypes, AgentTypeOK, TicksInv, SeenInv, StopAgent, Abandons
  <2> QED
    BY <2>1, <2>2, <2>3 DEF AgentInv
<1>3. CASE CollectFails
  <2>f. AgentFlags'
    BY <1>0, <1>3 DEF AgentFlags, AgentTypes, AgentTypeOK, CollectFails, Ready, TickerAfter
  <2>0. AgentTypes'
    BY <1>0, <1>3, <2>f DEF AgentTypes, AgentTypeOK, CollectFails, Ready, TickerAfter
  <2>1. AgentTypeOK'
    BY <1>0, <1>3, <2>0 DEF AgentTypes, AgentTypeOK, CollectFails, Ready, TickerAfter
  <2>2. TicksInv'
    BY <1>0, <1>3 DEF AgentTypes, AgentTypeOK, TicksInv, CollectFails, Ready, TickerAfter
  <2>3. SeenInv'
    BY <1>0, <1>3 DEF AgentTypes, AgentTypeOK, TicksInv, SeenInv, CollectFails, Ready, TickerAfter
  <2> QED
    BY <2>1, <2>2, <2>3 DEF AgentInv
<1>4. CASE SendSample
  <2>f. AgentFlags'
    BY <1>0, <1>4 DEF AgentFlags, AgentTypes, AgentTypeOK, SendSample, Ready
  <2>0. AgentTypes'
    BY <1>0, <1>4, <2>f DEF AgentTypes, AgentTypeOK, SendSample, Ready
  <2>1. AgentTypeOK'
    BY <1>0, <1>4, <2>0 DEF AgentTypes, AgentTypeOK, SendSample, Ready
  <2>2. TicksInv'
    BY <1>0, <1>4 DEF AgentTypes, AgentTypeOK, TicksInv, SendSample, Ready
  <2>3. SeenInv'
    BY <1>0, <1>4 DEF AgentTypes, AgentTypeOK, TicksInv, SeenInv, SendSample, Ready
  <2> QED
    BY <2>1, <2>2, <2>3 DEF AgentInv
<1>5. CASE Accepted
  <2>f. AgentFlags'
    BY <1>0, <1>5 DEF AgentFlags, AgentTypes, AgentTypeOK, Accepted, TickerAfter
  <2>0. AgentTypes'
    BY <1>0, <1>5, <2>f DEF AgentTypes, AgentTypeOK, Accepted, TickerAfter
  <2>1. AgentTypeOK'
    BY <1>0, <1>5, <2>0 DEF AgentTypes, AgentTypeOK, Accepted, TickerAfter
  <2>2. TicksInv'
    BY <1>0, <1>5 DEF AgentTypes, AgentTypeOK, TicksInv, Accepted, TickerAfter
  <2>3. SeenInv'
    BY <1>0, <1>5 DEF AgentTypes, AgentTypeOK, TicksInv, SeenInv, Accepted, TickerAfter
  <2> QED
    BY <2>1, <2>2, <2>3 DEF AgentInv
<1>6. CASE SendFails
  <2>f. AgentFlags'
    BY <1>0, <1>6 DEF AgentFlags, AgentTypes, AgentTypeOK, SendFails, Abandons, TickerAfter
  <2>0. AgentTypes'
    BY <1>0, <1>6, <2>f DEF AgentTypes, AgentTypeOK, SendFails, Abandons, TickerAfter
  <2>1. AgentTypeOK'
    BY <1>0, <1>6, <2>0 DEF AgentTypes, AgentTypeOK, SendFails, Abandons, TickerAfter
  <2>2. TicksInv'
    BY <1>0, <1>6 DEF AgentTypes, AgentTypeOK, TicksInv, SendFails, Abandons, TickerAfter
  <2>3. SeenInv'
    BY <1>0, <1>6 DEF AgentTypes, AgentTypeOK, TicksInv, SeenInv, SendFails, Abandons, TickerAfter
  <2> QED
    BY <2>1, <2>2, <2>3 DEF AgentInv
<1>7. CASE CoreStores
  <2>f. AgentFlags'
    BY <1>0, <1>7 DEF AgentFlags, AgentTypes, AgentTypeOK, CoreStores
  <2>0. AgentTypes'
    BY <1>0, <1>7, <2>f DEF AgentTypes, AgentTypeOK, CoreStores
  <2>1. AgentTypeOK'
    BY <1>0, <1>7, <2>0 DEF AgentTypes, AgentTypeOK, CoreStores
  <2>2. TicksInv'
    BY <1>0, <1>7 DEF AgentTypes, AgentTypeOK, TicksInv, CoreStores
  <2>3. SeenInv'
    BY <1>0, <1>7 DEF AgentTypes, AgentTypeOK, TicksInv, SeenInv, CoreStores
  <2> QED
    BY <2>1, <2>2, <2>3 DEF AgentInv
<1>8. CASE CoreStoresLate
  <2>f. AgentFlags'
    BY <1>0, <1>8 DEF AgentFlags, AgentTypes, AgentTypeOK, CoreStoresLate
  <2>0. AgentTypes'
    BY <1>0, <1>8, <2>f DEF AgentTypes, AgentTypeOK, CoreStoresLate
  <2>1. AgentTypeOK'
    BY <1>0, <1>8, <2>0 DEF AgentTypes, AgentTypeOK, CoreStoresLate
  <2>2. TicksInv'
    BY <1>0, <1>8 DEF AgentTypes, AgentTypeOK, TicksInv, CoreStoresLate
  <2>3. SeenInv'
    BY <1>0, <1>8 DEF AgentTypes, AgentTypeOK, TicksInv, SeenInv, CoreStoresLate
  <2> QED
    BY <2>1, <2>2, <2>3 DEF AgentInv
<1>9. CASE TimePasses
  <2>f. AgentFlags'
    BY <1>0, <1>9 DEF AgentFlags, AgentTypes, AgentTypeOK, TimePasses, Ready, InTime, Later
  <2>0. AgentTypes'
    BY <1>0, <1>9, <2>f DEF AgentTypes, AgentTypeOK, TimePasses, Ready, InTime, Later
  <2>1. AgentTypeOK'
    BY <1>0, <1>9, <2>0 DEF AgentTypes, AgentTypeOK, TimePasses, Ready, InTime, Later
  <2>2. TicksInv'
    BY <1>0, <1>9 DEF AgentTypes, AgentTypeOK, TicksInv, TimePasses, Ready, InTime, Later
  <2>3. SeenInv'
    BY <1>0, <1>9 DEF AgentTypes, AgentTypeOK, TicksInv, SeenInv, TimePasses, Ready, InTime, Later
  <2> QED
    BY <2>1, <2>2, <2>3 DEF AgentInv
<1>10. CASE UNCHANGED agentVars
  <2>f. AgentFlags'
    BY <1>0, <1>10 DEF AgentFlags, AgentTypes, AgentTypeOK, agentVars
  <2>0. AgentTypes'
    BY <1>0, <1>10, <2>f DEF AgentTypes, AgentTypeOK, agentVars
  <2>1. AgentTypeOK'
    BY <1>0, <1>10, <2>0 DEF AgentTypes, AgentTypeOK, agentVars
  <2>2. TicksInv'
    BY <1>0, <1>10 DEF AgentTypes, AgentTypeOK, TicksInv, agentVars
  <2>3. SeenInv'
    BY <1>0, <1>10 DEF AgentTypes, AgentTypeOK, TicksInv, SeenInv, agentVars
  <2> QED
    BY <2>1, <2>2, <2>3 DEF AgentInv
<1> QED
  BY <1>1, <1>2, <1>3, <1>4, <1>5, <1>6, <1>7, <1>8, <1>9, <1>10 DEF AgentNext

LEMMA AgentInvariant == AgentSpec => []AgentInv
  BY AgentStarts, AgentStep, PTL DEF AgentSpec

\* A request belongs to a running Agent and is no older than its timeout; an Agent
\* without a ticker is at its first attempt.
THEOREM AgentIsTyped == AgentSpec => []AgentTypeOK
<1>1. AgentInv => AgentTypeOK
  BY DEF AgentInv
<1> QED
  BY <1>1, AgentInvariant, PTL

\* The Core calls a server offline only if its Agent is down or its last attempt failed,
\* for every interval, timeout and threshold of AgentAssumption.
THEOREM OfflineIsTrouble == AgentSpec => []OfflineMeansTrouble
<1>1. AgentInv => OfflineMeansTrouble
  BY AgentAssumption
     DEF AgentInv, AgentTypes, AgentTypeOK, TicksInv, SeenInv, LongAgo, OfflineMeansTrouble
<1> QED
  BY <1>1, AgentInvariant, PTL

\* Run's loop begins an attempt at least every Interval + Timeout, whatever fails.
THEOREM AgentIsHeard == AgentSpec => []NeverSilent
<1>1. AgentInv => NeverSilent
  BY AgentAssumption
     DEF AgentInv, AgentTypes, AgentTypeOK, TicksInv, LongAgo, NeverSilent
<1> QED
  BY <1>1, AgentInvariant, PTL

\* The ticker's channel holds one tick, so slow attempts are not followed by a burst.
THEOREM TicksDoNotPileUp == AgentSpec => NoBursts
<1>1. AgentInv /\ [AgentNext]_agentVars => [SendSample \/ CollectFails => sinceBefore >= Interval]_agentVars
  BY DEF AgentInv, TicksInv, SendSample, CollectFails, Ready
<1> QED
  BY <1>1, AgentInvariant, PTL DEF AgentSpec, NoBursts

-----------------------------------------------------------------------------
(* The chart.                                                              *)

LEMMA Remainder ==
    ASSUME NEW a \in Int, NEW b \in Nat \ {0}
    PROVE  a % b \in Int /\ 0 <= a % b
  OBVIOUS

\* While a request is under way what maintenance takes is older than its window.
WantedThere ==
    request \in {"asked", "points"} =>
        /\ chartNow <= end + MaxDelay
        /\ \A at \in wanted : end - window <= at /\ at <= end
        /\ chartServer => wanted \subseteq chartRows

\* The points' samples are there when the statistics are read.
PointsThere ==
    request = "points" =>
        \A p \in points : \A at \in p.of :
            /\ end - window <= at /\ at <= end
            /\ chartServer => at \in chartRows

\* What was wanted has its points as soon as they are read.
WantedHasPoint ==
    request \in {"points", "answered"} /\ chartServer =>
        \A at \in wanted : PointTime(at) \in Series

ChartInv == ChartTypeOK /\ WantedThere /\ PointsThere /\ WantedHasPoint /\ PeakCovers

LEMMA ChartStarts == ChartInit => ChartInv
<1> SUFFICES ASSUME ChartInit PROVE ChartInv
  OBVIOUS
<1> USE ChartAssumption DEF ChartInit
<1>1. ChartTypeOK
  BY DEF ChartTypeOK, ChartTimes
<1>2. WantedThere /\ PointsThere /\ WantedHasPoint /\ PeakCovers
  BY DEF WantedThere, PointsThere, WantedHasPoint, PeakCovers
<1> QED
  BY <1>1, <1>2 DEF ChartInv

\* A run of maintenance takes nothing that a request under way wants.
LEMMA WindowIsKept ==
    ASSUME ChartTypeOK, request \in {"asked", "points"}, chartNow <= end + MaxDelay,
           NEW started \in ChartTimes, started <= chartNow,
           NEW at \in Int, end - window <= at
    PROVE  at >= RetentionCutoff(started)
<1> USE ChartAssumption DEF ChartTypeOK, ChartTimes
<1>1. started - RawRetention \in Int /\ started - RawRetention <= end - window
  OBVIOUS
<1>2. (started - RawRetention) % RawBucket \in Int /\ 0 <= (started - RawRetention) % RawBucket
  BY <1>1, Remainder
<1> QED
  BY <1>1, <1>2 DEF RetentionCutoff

LEMMA ChartStep == ChartInv /\ [ChartNext]_chartVars => ChartInv'
<1> SUFFICES ASSUME ChartInv, [ChartNext]_chartVars PROVE ChartInv'
  OBVIOUS
<1> USE ChartAssumption DEF chartVars, chartAnswer
<1>0. ChartTypeOK /\ WantedThere /\ PointsThere /\ WantedHasPoint /\ PeakCovers
  BY DEF ChartInv
<1>1. CASE ChartClock
  <2>1. ChartTypeOK'
    BY <1>0, <1>1 DEF ChartTypeOK, ChartTimes, ChartClock
  <2>2. WantedThere' /\ PointsThere' /\ PeakCovers'
    BY <1>0, <1>1 DEF ChartTypeOK, ChartTimes, ChartClock, WantedThere, PointsThere, PeakCovers
  <2>3. WantedHasPoint'
    BY <1>0, <1>1 DEF ChartClock, WantedHasPoint, Series, PointTime
  <2> QED
    BY <2>1, <2>2, <2>3 DEF ChartInv
<1>2. ASSUME NEW at \in ChartTimes, SaveSample(at)
      PROVE  ChartInv'
  <2>1. ChartTypeOK'
    BY <1>0, <1>2 DEF ChartTypeOK, ChartTimes, SaveSample
  <2>2. WantedThere' /\ PointsThere' /\ PeakCovers'
    BY <1>0, <1>2 DEF SaveSample, WantedThere, PointsThere, PeakCovers
  <2>3. WantedHasPoint'
    BY <1>0, <1>2 DEF SaveSample, WantedHasPoint, Series, PointTime
  <2> QED
    BY <2>1, <2>2, <2>3 DEF ChartInv
<1>3. ASSUME NEW started \in ChartTimes, TakeOldSamples(started)
      PROVE  ChartInv'
  <2>1. ChartTypeOK'
    BY <1>0, <1>3 DEF ChartTypeOK, ChartTimes, TakeOldSamples
  <2>2. ASSUME request \in {"asked", "points"}, chartServer,
               NEW at \in chartRows, end - window <= at
        PROVE  at \in chartRows'
    <3>1. at \in Int
      BY <1>0 DEF ChartTypeOK, ChartTimes
    <3> QED
      BY <1>0, <1>3, <2>2, <3>1, WindowIsKept DEF WantedThere, TakeOldSamples
  <2>3. WantedThere'
    BY <1>0, <1>3, <2>2 DEF TakeOldSamples, WantedThere
  <2>4. PointsThere' /\ PeakCovers'
    BY <1>0, <1>3, <2>2 DEF TakeOldSamples, PointsThere, PeakCovers
  <2>5. WantedHasPoint'
    BY <1>0, <1>3 DEF TakeOldSamples, WantedHasPoint, Series, PointTime
  <2> QED
    BY <2>1, <2>3, <2>4, <2>5 DEF ChartInv
<1>4. CASE RemoveServer
  <2>1. ChartTypeOK'
    BY <1>0, <1>4 DEF ChartTypeOK, ChartTimes, RemoveServer
  <2>2. WantedThere' /\ PointsThere' /\ WantedHasPoint' /\ PeakCovers'
    BY <1>0, <1>4 DEF RemoveServer, WantedThere, PointsThere, WantedHasPoint, PeakCovers
  <2> QED
    BY <2>1, <2>2 DEF ChartInv
<1>5. ASSUME NEW w \in Windows, AskChart(w)
      PROVE  ChartInv'
  <2>a. chartNow' \in ChartTimes /\ end' \in 0 .. chartNow' /\ chartRows' \subseteq ChartTimes
    BY <1>0, <1>5 DEF ChartTypeOK, ChartTimes, AskChart
  <2>b. chartServer' \in BOOLEAN /\ (~chartServer => chartRows = {})'
    BY <1>0, <1>5 DEF ChartTypeOK, AskChart
  <2>c. request' = "asked" /\ window' \in Windows /\ points' = {} /\ stat' = {}
    BY <1>5 DEF AskChart
  <2>d. wanted' \subseteq ChartTimes
    BY <1>0, <1>5 DEF ChartTypeOK, AskChart
  <2>1. ChartTypeOK'
    BY <2>a, <2>b, <2>c, <2>d DEF ChartTypeOK
  <2>2. WantedThere'
    BY <1>0, <1>5 DEF ChartTypeOK, ChartTimes, AskChart, WantedThere
  <2>3. PointsThere' /\ WantedHasPoint' /\ PeakCovers'
    BY <1>5 DEF AskChart, PointsThere, WantedHasPoint, PeakCovers
  <2> QED
    BY <2>1, <2>2, <2>3 DEF ChartInv
<1>6. CASE ReadPoints
  <2>1. points' = PointsOf(InWindow(chartRows)) /\ request = "asked" /\ request' = "points"
    BY <1>6 DEF ReadPoints
  <2>2. \A p \in points' : \E at \in InWindow(chartRows) :
            /\ p = [time |-> PointTime(at),
                    of |-> {s \in InWindow(chartRows) : PointTime(s) = PointTime(at)}]
    BY <2>1 DEF PointsOf
  <2>3. \A p \in points' : p.of # {} /\ p.of \subseteq InWindow(chartRows)
    BY <2>2
  <2>4. \A p, q \in points' : p.time = q.time => p = q
    <3>1. SUFFICES ASSUME NEW p \in points', NEW q \in points', p.time = q.time
                   PROVE  p = q
      OBVIOUS
    <3>2. PICK a \in InWindow(chartRows) :
            p = [time |-> PointTime(a),
                 of |-> {s \in InWindow(chartRows) : PointTime(s) = PointTime(a)}]
      BY <2>2
    <3>3. PICK b \in InWindow(chartRows) :
            q = [time |-> PointTime(b),
                 of |-> {s \in InWindow(chartRows) : PointTime(s) = PointTime(b)}]
      BY <2>2
    <3>4. PointTime(a) = PointTime(b)
      BY <3>1, <3>2, <3>3
    <3> QED
      BY <3>2, <3>3, <3>4
  <2>5. ChartTypeOK'
    BY <1>0, <1>6, <2>3, <2>4 DEF ChartTypeOK, ChartTimes, ReadPoints, InWindow
  <2>6. WantedThere'
    BY <1>0, <1>6 DEF ReadPoints, WantedThere
  <2>7. PointsThere'
    BY <1>6, <2>3 DEF ReadPoints, PointsThere, InWindow
  <2>8. WantedHasPoint'
    <3>1. SUFFICES ASSUME chartServer, NEW at \in wanted
                   PROVE  \E p \in points' : p.time = PointTime(at)
      BY <1>6 DEF ReadPoints, WantedHasPoint, Series, PointTime
    <3>2. at \in InWindow(chartRows)
      BY <1>0, <2>1, <3>1 DEF WantedThere, InWindow
    <3> DEFINE point == [time |-> PointTime(at),
                         of |-> {s \in InWindow(chartRows) : PointTime(s) = PointTime(at)}]
    <3>3. point \in points'
      BY <2>1, <3>2 DEF PointsOf
    <3>4. point.time = PointTime(at)
      OBVIOUS
    <3> HIDE DEF point
    <3> QED
      BY <3>3, <3>4
  <2>9. PeakCovers'
    BY <2>1 DEF PeakCovers
  <2> QED
    BY <2>5, <2>6, <2>7, <2>8, <2>9 DEF ChartInv
<1>7. CASE ReadStatistics
  <2>1. ChartTypeOK'
    BY <1>0, <1>7 DEF ChartTypeOK, ChartTimes, ReadStatistics, StatisticsOf, InWindow
  <2>2. WantedThere' /\ PointsThere'
    BY <1>7 DEF ReadStatistics, WantedThere, PointsThere
  <2>3. WantedHasPoint'
    BY <1>0, <1>7 DEF ReadStatistics, WantedHasPoint, Series, PointTime
  <2>4. PeakCovers'
    BY <1>0, <1>7 DEF ReadStatistics, StatisticsOf, InWindow, PointsThere, PeakCovers
  <2> QED
    BY <2>1, <2>2, <2>3, <2>4 DEF ChartInv
<1>8. CASE ChartFails
  <2>1. ChartTypeOK'
    BY <1>0, <1>8 DEF ChartTypeOK, ChartTimes, ChartFails
  <2>2. WantedThere' /\ PointsThere' /\ WantedHasPoint' /\ PeakCovers'
    BY <1>8 DEF ChartFails, WantedThere, PointsThere, WantedHasPoint, PeakCovers
  <2> QED
    BY <2>1, <2>2 DEF ChartInv
<1>9. CASE UNCHANGED chartVars
  <2>1. ChartTypeOK' /\ WantedThere' /\ PointsThere' /\ PeakCovers'
    BY <1>0, <1>9 DEF ChartTypeOK, WantedThere, PointsThere, PeakCovers
  <2>2. WantedHasPoint'
    BY <1>0, <1>9 DEF WantedHasPoint, Series, PointTime
  <2> QED
    BY <2>1, <2>2 DEF ChartInv
<1> QED
  BY <1>1, <1>2, <1>3, <1>4, <1>5, <1>6, <1>7, <1>8, <1>9 DEF ChartNext

LEMMA ChartInvariant == ChartSpec => []ChartInv
  BY ChartStarts, ChartStep, PTL DEF ChartSpec

\* A chart's points have distinct times and each stands for at least one sample.
THEOREM ChartTypes == ChartSpec => []ChartTypeOK
<1>1. ChartInv => ChartTypeOK
  BY DEF ChartInv
<1> QED
  BY <1>1, ChartInvariant, PTL

\* Every sample of the range that was there when the chart was asked for is in it, if
\* the retention is longer than the range and the request together.
THEOREM ChartIsComplete == ChartSpec => []ChartComplete
<1>1. ChartInv => ChartComplete
  BY DEF ChartInv, WantedHasPoint, ChartComplete, Drawn
<1> QED
  BY <1>1, ChartInvariant, PTL

\* The peak beside a chart covers what its points are averages of, although it is read
\* in another statement.
THEOREM PeakCoversPoints == ChartSpec => []PeakCovers
<1>1. ChartInv => PeakCovers
  BY DEF ChartInv
<1> QED
  BY <1>1, ChartInvariant, PTL

\* Both: the chart is what was stored.
THEOREM ChartIsFaithful == ChartSpec => []ChartFaithful
BY ChartIsComplete, PeakCoversPoints, PTL DEF ChartFaithful

-----------------------------------------------------------------------------
(* The size limit.                                                         *)

\* How many are in flight, as requests come and go.
LEMMA PassedCounts ==
    ASSUME SizeTypeOK, NEW r
    PROVE  /\ Cardinality(passed) \in Nat /\ Cardinality(Senders) \in Nat
           /\ Cardinality(passed) <= Cardinality(Senders)
           /\ r \in passed => Cardinality(passed \ {r}) = Cardinality(passed) - 1
           /\ Cardinality({}) = 0
<1>1. IsFiniteSet(Senders) /\ IsFiniteSet(passed)
  BY SizeAssumption, FS_Subset DEF SizeTypeOK
<1>2. Cardinality(passed) \in Nat /\ Cardinality(Senders) \in Nat
  BY <1>1, FS_CardinalityType
<1>3. Cardinality(passed) <= Cardinality(Senders)
  BY <1>1, SizeAssumption, FS_Subset DEF SizeTypeOK
<1>4. r \in passed => Cardinality(passed \ {r}) = Cardinality(passed) - 1
  BY <1>1, FS_RemoveElement
<1> QED
  BY <1>2, <1>3, <1>4, FS_EmptySet

LEMMA SizeStep == SizeInv /\ [SizeNext]_sizeVars => SizeInv'
<1> SUFFICES ASSUME SizeInv, [SizeNext]_sizeVars
             PROVE  SizeInv'
  OBVIOUS
<1> USE SizeAssumption DEF SizeInv, SizeTypeOK, OvershootCovered, Full
<1>0. /\ Cardinality(passed) \in Nat /\ Cardinality(Senders) \in Nat
      /\ Cardinality(passed) <= Cardinality(Senders)
      /\ \A r \in passed : Cardinality(passed \ {r}) = Cardinality(passed) - 1
      /\ Cardinality({}) = 0
  BY PassedCounts
<1>1. ASSUME NEW r \in Senders, FindsRoom(r)
      PROVE  SizeInv'
  BY <1>0, <1>1 DEF FindsRoom
<1>2. ASSUME NEW r \in Senders, StoreSample(r)
      PROVE  SizeInv'
  <2>1. size' \in Nat /\ size' >= size /\ passed' = passed \ {r} /\ r \in passed
    BY <1>2 DEF StoreSample, Grows
  <2>2. CASE Full
    BY <1>0, <1>2, <2>1, <2>2 DEF StoreSample
  <2>3. CASE ~Full
    BY <1>0, <1>2, <2>1, <2>3 DEF StoreSample
  <2> QED
    BY <2>2, <2>3
<1>3. ASSUME NEW r \in Senders, StoreSampleFails(r)
      PROVE  SizeInv'
  BY <1>0, <1>3 DEF StoreSampleFails
<1>4. CASE WriteOther
  <2>1. size' \in Nat /\ size' >= size
    BY <1>4 DEF WriteOther, Grows
  <2>2. passed' = passed /\ overshoot' = overshoot /\ Cardinality(passed') = Cardinality(passed)
    BY <1>4 DEF WriteOther
  <2>3. CASE Full
    BY <1>0, <2>1, <2>2, <2>3
  <2>4. CASE ~Full
    BY <1>0, <2>1, <2>2, <2>4
  <2> QED
    BY <2>3, <2>4
<1>5. CASE Reopen
  <2>1. size' \in Nat
    BY <1>5 DEF Reopen
  <2>2. passed' = {} /\ Cardinality(passed') = 0
    BY <1>0, <1>5 DEF Reopen
  <2>3. CASE Full'
    BY <1>0, <1>5, <2>1, <2>2, <2>3 DEF Reopen
  <2>4. CASE ~Full'
    BY <1>5, <2>1, <2>2, <2>4 DEF Reopen
  <2> QED
    BY <2>3, <2>4
<1>6. CASE UNCHANGED sizeVars
  BY <1>6 DEF sizeVars
<1> QED
  BY <1>1, <1>2, <1>3, <1>4, <1>5, <1>6 DEF SizeNext

\* However many samples are on their way, and whatever else is written, the limit is
\* overshot by at most one sample for each request that may be in flight.
THEOREM LimitIsOvershotOnce == SizeSpec => []OvershootBounded
<1>1. SizeInit => SizeInv
  BY SizeAssumption, FS_EmptySet, FS_CardinalityType
     DEF SizeInit, SizeInv, SizeTypeOK, OvershootCovered, Full
<1>2. SizeInv => OvershootBounded
  <2> SUFFICES ASSUME SizeInv
               PROVE  OvershootBounded
    OBVIOUS
  <2>1. Cardinality(passed) \in Nat /\ Cardinality(Senders) \in Nat
    BY PassedCounts DEF SizeInv
  <2> QED
    BY <2>1 DEF SizeInv, SizeTypeOK, OvershootCovered, OvershootBounded
<1> QED
  BY <1>1, <1>2, SizeStep, PTL DEF SizeSpec
=============================================================================
