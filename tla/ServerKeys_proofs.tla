--------------------------- MODULE ServerKeys_proofs ---------------------------
(***************************************************************************)
(* Theorems about ServerKeys, for any numbers of users, servers, keys and  *)
(* requests in flight.                                                     *)
(***************************************************************************)
EXTENDS ServerKeys, TLAPS

LEMMA TypeInit == Init => TypeOK
<1> SUFFICES ASSUME Init PROVE TypeOK
  OBVIOUS
<1>1. 1 \in 1 .. MaxClock /\ 0 \in 0 .. MaxClock
  BY MaxClockAssumption
<1>2. /\ clock \in 1 .. MaxClock
      /\ up \in BOOLEAN
      /\ lastSeenAt \in [Servers -> 0 .. MaxClock]
  BY <1>1 DEF Init
<1>3. /\ owner \in [Servers -> Users \union {NoUser}]
      /\ keyServer \in [Keys -> Servers \union {NoServer}]
      /\ keyRevoked \in [Keys -> BOOLEAN]
      /\ metrics \in [Servers -> SUBSET Keys]
      /\ drawn \in SUBSET (Servers \union Keys)
  BY DEF Init
<1>4. inFlight \in [Senders -> {Idle} \union
         [pc : {"checked"}, server : Servers, key : Keys, since : 1 .. MaxClock]]
  BY DEF Init
<1> QED
  BY <1>2, <1>3, <1>4 DEF TypeOK

LEMMA TypeStep == TypeOK /\ [Next]_vars => TypeOK'
<1> SUFFICES ASSUME TypeOK, [Next]_vars PROVE TypeOK'
  OBVIOUS
<1> USE MaxClockAssumption, BootstrapAssumption DEF TypeOK, store
<1>1. CASE ClockTick
  BY <1>1 DEF ClockTick
<1>2. CASE Stop
  BY <1>2 DEF Stop
<1>3. CASE Start
  BY <1>3 DEF Start, Bootstrap
<1>4. ASSUME NEW u \in Users, NEW v \in Servers, NEW k \in Keys, CreateServer(u, v, k)
      PROVE  TypeOK'
  BY <1>4 DEF CreateServer
<1>5. ASSUME NEW u \in Users, NEW v \in Servers, DeleteServer(u, v)
      PROVE  TypeOK'
  BY <1>5 DEF DeleteServer
<1>6. ASSUME NEW u \in Users, NEW v \in Servers, NEW k \in Keys, RotateAPIKey(u, v, k)
      PROVE  TypeOK'
  BY <1>6 DEF RotateAPIKey, RevokedWith
<1>7. ASSUME NEW u \in Users, NEW v \in Servers, RevokeAPIKey(u, v)
      PROVE  TypeOK'
  BY <1>7 DEF RevokeAPIKey, RevokedWith
<1>8. ASSUME NEW r \in Senders, NEW v \in Servers, NEW k \in Keys,
             ReceiveMetrics(r, v, k)
      PROVE  TypeOK'
  BY <1>8 DEF ReceiveMetrics, Checked
<1>9. ASSUME NEW r \in Senders, SaveMetrics(r)
      PROVE  TypeOK'
  BY <1>9 DEF SaveMetrics, Idle
<1>10. ASSUME NEW r \in Senders, SaveMetricsFails(r)
       PROVE  TypeOK'
  BY <1>10 DEF SaveMetricsFails
<1>11. CASE UNCHANGED vars
  BY <1>11 DEF vars
<1> QED
  BY <1>1, <1>2, <1>3, <1>4, <1>5, <1>6, <1>7, <1>8, <1>9, <1>10, <1>11 DEF Next

\* The tables and the requests in flight stay well typed.
THEOREM TypeCorrect == Spec => []TypeOK
BY TypeInit, TypeStep, PTL DEF Spec

-----------------------------------------------------------------------------
(* The inductive invariant, part by part.                                  *)

\* The rows of a table carry names that were set or drawn.
LEMMA RowsDrawnStep ==
    ASSUME TypeOK, RowsDrawn, [Next]_vars
    PROVE  RowsDrawn'
<1> USE NoRowAssumption DEF TypeOK, RowsDrawn, Registered, store
<1>1. CASE ClockTick
  BY <1>1 DEF ClockTick
<1>2. CASE Stop
  BY <1>2 DEF Stop
<1>3. CASE Start
  BY <1>3 DEF Start, Bootstrap
<1>4. ASSUME NEW u \in Users, NEW v \in Servers, NEW k \in Keys,
           CreateServer(u, v, k)
     PROVE  RowsDrawn'
  BY <1>4 DEF CreateServer
<1>5. ASSUME NEW u \in Users, NEW v \in Servers,
           DeleteServer(u, v)
     PROVE  RowsDrawn'
  BY <1>5 DEF DeleteServer
<1>6. ASSUME NEW u \in Users, NEW v \in Servers, NEW k \in Keys,
           RotateAPIKey(u, v, k)
     PROVE  RowsDrawn'
  BY <1>6 DEF RotateAPIKey, RevokedWith
<1>7. ASSUME NEW u \in Users, NEW v \in Servers,
           RevokeAPIKey(u, v)
     PROVE  RowsDrawn'
  BY <1>7 DEF RevokeAPIKey, RevokedWith
<1>8. ASSUME NEW r \in Senders, NEW v \in Servers, NEW k \in Keys,
           ReceiveMetrics(r, v, k)
     PROVE  RowsDrawn'
  BY <1>8 DEF ReceiveMetrics
<1>9. ASSUME NEW r \in Senders,
           SaveMetrics(r)
     PROVE  RowsDrawn'
  BY <1>9 DEF SaveMetrics
<1>10. ASSUME NEW r \in Senders,
           SaveMetricsFails(r)
     PROVE  RowsDrawn'
  BY <1>10 DEF SaveMetricsFails
<1>11. CASE UNCHANGED vars
  BY <1>11 DEF vars
<1> QED
  BY <1>1, <1>2, <1>3, <1>4, <1>5, <1>6, <1>7, <1>8, <1>9, <1>10, <1>11 DEF Next

\* Nothing was seen in the future.
LEMMA LastSeenStep ==
    ASSUME TypeOK, LastSeenPast, [Next]_vars
    PROVE  LastSeenPast'
<1> USE DEF TypeOK, LastSeenPast, store
<1>1. CASE ClockTick
  BY <1>1 DEF ClockTick
<1>2. CASE Stop
  BY <1>2 DEF Stop
<1>3. CASE Start
  BY <1>3 DEF Start, Bootstrap
<1>4. ASSUME NEW u \in Users, NEW v \in Servers, NEW k \in Keys,
           CreateServer(u, v, k)
     PROVE  LastSeenPast'
  BY <1>4 DEF CreateServer
<1>5. ASSUME NEW u \in Users, NEW v \in Servers,
           DeleteServer(u, v)
     PROVE  LastSeenPast'
  BY <1>5 DEF DeleteServer
<1>6. ASSUME NEW u \in Users, NEW v \in Servers, NEW k \in Keys,
           RotateAPIKey(u, v, k)
     PROVE  LastSeenPast'
  BY <1>6 DEF RotateAPIKey, RevokedWith
<1>7. ASSUME NEW u \in Users, NEW v \in Servers,
           RevokeAPIKey(u, v)
     PROVE  LastSeenPast'
  BY <1>7 DEF RevokeAPIKey, RevokedWith
<1>8. ASSUME NEW r \in Senders, NEW v \in Servers, NEW k \in Keys,
           ReceiveMetrics(r, v, k)
     PROVE  LastSeenPast'
  BY <1>8 DEF ReceiveMetrics
<1>9. ASSUME NEW r \in Senders,
           SaveMetrics(r)
     PROVE  LastSeenPast'
  BY <1>9 DEF SaveMetrics
<1>10. ASSUME NEW r \in Senders,
           SaveMetricsFails(r)
     PROVE  LastSeenPast'
  BY <1>10 DEF SaveMetricsFails
<1>11. CASE UNCHANGED vars
  BY <1>11 DEF vars
<1> QED
  BY <1>1, <1>2, <1>3, <1>4, <1>5, <1>6, <1>7, <1>8, <1>9, <1>10, <1>11 DEF Next

\* Deletion cascades, and insertion needs the server: keys and samples have one.
LEMMA NoOrphansStep ==
    ASSUME TypeOK, RowsDrawn, NoOrphans, [Next]_vars
    PROVE  NoOrphans'
<1> USE NoRowAssumption DEF TypeOK, RowsDrawn, NoOrphans, Registered, store
<1>1. CASE ClockTick
  BY <1>1 DEF ClockTick
<1>2. CASE Stop
  BY <1>2 DEF Stop
<1>3. CASE Start
  <2>1. CASE UNCHANGED store
    BY <2>1
  <2>2. ASSUME NEW u \in Users, NEW v \in BootstrapServers, NEW k \in BootstrapKeys,
               Bootstrap(u, v, k)
        PROVE  NoOrphans'
    <3>1. v \in Servers /\ k \in Keys /\ u # NoUser
      BY BootstrapAssumption, NoRowAssumption
    <3>2. /\ owner'[v] # NoUser
          /\ \A w \in Servers : owner[w] # NoUser => owner'[w] # NoUser
      BY <2>2, <3>1 DEF Bootstrap
    <3>3. \A j \in Keys : keyServer'[j] \in {keyServer[j], v}
      BY <2>2, <3>1 DEF Bootstrap
    <3> QED
      BY <2>2, <3>1, <3>2, <3>3 DEF Bootstrap
  <2> QED
    BY <1>3, <2>1, <2>2 DEF Start
<1>4. ASSUME NEW u \in Users, NEW v \in Servers, NEW k \in Keys,
           CreateServer(u, v, k)
     PROVE  NoOrphans'
  BY <1>4 DEF CreateServer
<1>5. ASSUME NEW u \in Users, NEW v \in Servers,
           DeleteServer(u, v)
     PROVE  NoOrphans'
  BY <1>5 DEF DeleteServer
<1>6. ASSUME NEW u \in Users, NEW v \in Servers, NEW k \in Keys,
           RotateAPIKey(u, v, k)
     PROVE  NoOrphans'
  BY <1>6 DEF RotateAPIKey, RevokedWith
<1>7. ASSUME NEW u \in Users, NEW v \in Servers,
           RevokeAPIKey(u, v)
     PROVE  NoOrphans'
  BY <1>7 DEF RevokeAPIKey, RevokedWith
<1>8. ASSUME NEW r \in Senders, NEW v \in Servers, NEW k \in Keys,
           ReceiveMetrics(r, v, k)
     PROVE  NoOrphans'
  BY <1>8 DEF ReceiveMetrics
<1>9. ASSUME NEW r \in Senders,
           SaveMetrics(r)
     PROVE  NoOrphans'
  BY <1>9 DEF SaveMetrics
<1>10. ASSUME NEW r \in Senders,
           SaveMetricsFails(r)
     PROVE  NoOrphans'
  BY <1>10 DEF SaveMetricsFails
<1>11. CASE UNCHANGED vars
  BY <1>11 DEF vars
<1> QED
  BY <1>1, <1>2, <1>3, <1>4, <1>5, <1>6, <1>7, <1>8, <1>9, <1>10, <1>11 DEF Next

\* What a request checked stays true of its server as long as the server is there:
\* a new server or key has a name that no request knows.
LEMMA RequestsCurrentStep ==
    ASSUME TypeOK, RowsDrawn, NoOrphans, RequestsCurrent, [Next]_vars
    PROVE  RequestsCurrent'
<1> SUFFICES ASSUME NEW q \in Senders, inFlight'[q].pc = "checked"
             PROVE  /\ up'
                    /\ inFlight'[q].server \in drawn'
                    /\ owner'[inFlight'[q].server] # NoUser =>
                          keyServer'[inFlight'[q].key] = inFlight'[q].server
  BY DEF RequestsCurrent, Registered
<1> DEFINE x == inFlight[q].server
           i == inFlight[q].key
           Goal == /\ up'
                   /\ inFlight'[q].server \in drawn'
                   /\ owner'[inFlight'[q].server] # NoUser =>
                         keyServer'[inFlight'[q].key] = inFlight'[q].server
<1> SUFFICES Goal
  OBVIOUS
\* Most steps leave the request as it is.
<1>a. ASSUME inFlight'[q] = inFlight[q]
      PROVE  /\ up /\ x \in drawn /\ x \in Servers /\ i \in Keys
             /\ owner[x] # NoUser => keyServer[i] = x
             /\ inFlight'[q].server = x /\ inFlight'[q].key = i
  <2>1. inFlight[q].pc = "checked"
    BY <1>a
  <2>2. inFlight[q] \in [pc : {"checked"}, server : Servers, key : Keys,
                          since : 1 .. MaxClock]
    BY <2>1 DEF TypeOK, Idle
  <2> QED
    BY <1>a, <2>1, <2>2 DEF RequestsCurrent, Registered
<1> HIDE DEF Goal, x, i
<1>1. CASE ClockTick
  BY <1>1, <1>a DEF ClockTick, store, Goal
<1>2. CASE Stop
  BY <1>2 DEF Stop, Idle, Goal
<1>3. CASE Start
  <2>1. inFlight'[q] = inFlight[q] /\ ~up
    BY <1>3 DEF Start
  <2> QED
    BY <2>1, <1>a
<1>4. ASSUME NEW u \in Users, NEW v \in Servers, NEW k \in Keys,
           CreateServer(u, v, k)
     PROVE  Goal
  <2>1. inFlight'[q] = inFlight[q] /\ v \notin drawn
    BY <1>4 DEF CreateServer
  <2>2. x # v /\ x \in Servers
    BY <2>1, <1>a
  <2>3. owner'[x] = owner[x]
    BY <1>4, <2>2 DEF CreateServer, TypeOK
  <2>4. ASSUME owner[x] # NoUser PROVE keyServer'[i] = x
    <3>1. keyServer[i] = x /\ i \in Keys
      BY <2>1, <2>4, <1>a
    <3>2. i \in drawn
      BY <3>1, <2>2, NoRowAssumption DEF RowsDrawn
    <3> QED
      BY <1>4, <3>1, <3>2 DEF CreateServer, TypeOK
  <2> QED
    BY <1>4, <1>a, <2>1, <2>3, <2>4 DEF CreateServer, Goal
<1>5. ASSUME NEW u \in Users, NEW v \in Servers,
           DeleteServer(u, v)
     PROVE  Goal
  <2>1. /\ x \in Servers /\ i \in Keys
        /\ owner'[x] = IF x = v THEN NoUser ELSE owner[x]
        /\ keyServer'[i] = IF keyServer[i] = v THEN NoServer ELSE keyServer[i]
    BY <1>5, <1>a DEF DeleteServer, TypeOK
  <2> QED
    BY <1>5, <1>a, <2>1 DEF DeleteServer, Goal
<1>6. ASSUME NEW u \in Users, NEW v \in Servers, NEW k \in Keys,
           RotateAPIKey(u, v, k)
     PROVE  Goal
  <2>1. inFlight'[q] = inFlight[q] /\ owner' = owner
    BY <1>6 DEF RotateAPIKey
  <2>2. ASSUME owner[x] # NoUser PROVE keyServer'[i] = x
    <3>1. keyServer[i] = x /\ x \in Servers /\ i \in Keys
      BY <2>1, <2>2, <1>a
    <3>2. i \in drawn
      BY <3>1, NoRowAssumption DEF RowsDrawn
    <3> QED
      BY <1>6, <3>1, <3>2 DEF RotateAPIKey, TypeOK
  <2> QED
    BY <1>6, <1>a, <2>1, <2>2 DEF RotateAPIKey, Goal
<1>7. ASSUME NEW u \in Users, NEW v \in Servers,
           RevokeAPIKey(u, v)
     PROVE  Goal
  BY <1>7, <1>a DEF RevokeAPIKey, Goal
<1>8. ASSUME NEW r \in Senders, NEW v \in Servers, NEW k \in Keys,
           ReceiveMetrics(r, v, k)
     PROVE  Goal
  <2>1. CASE q = r
    <3>1. inFlight'[q] = Checked(v, k)
      BY <1>8, <2>1 DEF ReceiveMetrics, TypeOK
    <3>2. inFlight'[q].server = v /\ inFlight'[q].key = k
      BY <3>1 DEF Checked
    <3>3. keyServer[k] = v /\ v \in drawn
      BY <1>8, NoRowAssumption DEF ReceiveMetrics, APIKeyValid, RowsDrawn, NoOrphans
    <3> QED
      BY <1>8, <3>2, <3>3 DEF ReceiveMetrics, store, Goal
  <2>2. CASE q # r
    <3>1. inFlight'[q] = inFlight[q]
      BY <1>8, <2>2 DEF ReceiveMetrics, TypeOK
    <3> QED
      BY <1>8, <1>a, <3>1 DEF ReceiveMetrics, store, Goal
  <2> QED
    BY <2>1, <2>2
<1>9. ASSUME NEW r \in Senders, SaveMetrics(r)
     PROVE  Goal
  <2>1. q # r
    BY <1>9 DEF SaveMetrics, Idle, TypeOK
  <2>2. inFlight'[q] = inFlight[q]
    BY <1>9, <2>1 DEF SaveMetrics, TypeOK
  <2> QED
    BY <1>9, <1>a, <2>2 DEF SaveMetrics, store, Goal
<1>10. ASSUME NEW r \in Senders, SaveMetricsFails(r)
     PROVE  Goal
  <2>1. q # r
    BY <1>10 DEF SaveMetricsFails, Idle, TypeOK
  <2>2. inFlight'[q] = inFlight[q]
    BY <1>10, <2>1 DEF SaveMetricsFails, TypeOK
  <2> QED
    BY <1>10, <1>a, <2>2 DEF SaveMetricsFails, store, Goal
<1>11. CASE UNCHANGED vars
  BY <1>11, <1>a DEF vars, Goal
<1> QED
  BY <1>1, <1>2, <1>3, <1>4, <1>5, <1>6, <1>7, <1>8, <1>9, <1>10, <1>11 DEF Next

\* So the sample it stores is filed under its key's server.
LEMMA SamplesStep ==
    ASSUME TypeOK, RowsDrawn, NoOrphans, RequestsCurrent, SamplesFromOwnKeys, [Next]_vars
    PROVE  SamplesFromOwnKeys'
<1> USE NoRowAssumption DEF TypeOK, RowsDrawn, NoOrphans, RequestsCurrent, SamplesFromOwnKeys, Registered, store
<1>1. CASE ClockTick
  BY <1>1 DEF ClockTick
<1>2. CASE Stop
  BY <1>2 DEF Stop
<1>3. CASE Start
  BY <1>3 DEF Start, Bootstrap
<1>4. ASSUME NEW u \in Users, NEW v \in Servers, NEW k \in Keys,
           CreateServer(u, v, k)
     PROVE  SamplesFromOwnKeys'
  BY <1>4 DEF CreateServer
<1>5. ASSUME NEW u \in Users, NEW v \in Servers,
           DeleteServer(u, v)
     PROVE  SamplesFromOwnKeys'
  BY <1>5 DEF DeleteServer
<1>6. ASSUME NEW u \in Users, NEW v \in Servers, NEW k \in Keys,
           RotateAPIKey(u, v, k)
     PROVE  SamplesFromOwnKeys'
  BY <1>6 DEF RotateAPIKey, RevokedWith
<1>7. ASSUME NEW u \in Users, NEW v \in Servers,
           RevokeAPIKey(u, v)
     PROVE  SamplesFromOwnKeys'
  BY <1>7 DEF RevokeAPIKey, RevokedWith
<1>8. ASSUME NEW r \in Senders, NEW v \in Servers, NEW k \in Keys,
           ReceiveMetrics(r, v, k)
     PROVE  SamplesFromOwnKeys'
  BY <1>8 DEF ReceiveMetrics
<1>9. ASSUME NEW r \in Senders,
           SaveMetrics(r)
     PROVE  SamplesFromOwnKeys'
  BY <1>9 DEF SaveMetrics
<1>10. ASSUME NEW r \in Senders,
           SaveMetricsFails(r)
     PROVE  SamplesFromOwnKeys'
  BY <1>10 DEF SaveMetricsFails
<1>11. CASE UNCHANGED vars
  BY <1>11 DEF vars
<1> QED
  BY <1>1, <1>2, <1>3, <1>4, <1>5, <1>6, <1>7, <1>8, <1>9, <1>10, <1>11 DEF Next

\* A rotation revokes every key of the server before it adds one, and no other
\* step adds an active key that was not set by the operator to a server that has one.
LEMMA OneActiveKeyStep ==
    ASSUME TypeOK, RowsDrawn, NoOrphans, OneActiveKey, [Next]_vars
    PROVE  OneActiveKey'
<1> USE NoRowAssumption, BootstrapAssumption DEF TypeOK, RowsDrawn, NoOrphans, OneActiveKey, ActiveKeys, APIKeyValid, Registered, store
<1>1. CASE ClockTick
  BY <1>1 DEF ClockTick
<1>2. CASE Stop
  BY <1>2 DEF Stop
<1>3. CASE Start
  BY <1>3 DEF Start, Bootstrap
<1>4. ASSUME NEW u \in Users, NEW v \in Servers, NEW k \in Keys,
           CreateServer(u, v, k)
     PROVE  OneActiveKey'
  BY <1>4 DEF CreateServer
<1>5. ASSUME NEW u \in Users, NEW v \in Servers,
           DeleteServer(u, v)
     PROVE  OneActiveKey'
  BY <1>5 DEF DeleteServer
<1>6. ASSUME NEW u \in Users, NEW v \in Servers, NEW k \in Keys,
           RotateAPIKey(u, v, k)
     PROVE  OneActiveKey'
  <2> SUFFICES ASSUME NEW x \in Servers, NEW i \in Keys \ BootstrapKeys,
                      NEW j \in Keys \ BootstrapKeys,
                      APIKeyValid(x, i)', APIKeyValid(x, j)'
               PROVE  i = j
    BY DEF ActiveKeys
  <2>1. keyServer[k] = NoServer
    BY <1>6 DEF RotateAPIKey, RowsDrawn
  <2>2. CASE x = v
    <3>1. \A q \in Keys : q # k => ~APIKeyValid(v, q)'
      <4>1. /\ \A q \in Keys : q # k => keyServer'[q] = keyServer[q]
            /\ \A q \in Keys : keyRevoked'[q] = (keyRevoked[q] \/ keyServer[q] = v)
        BY <1>6 DEF RotateAPIKey, RevokedWith, TypeOK
      <4> QED
        BY <4>1 DEF APIKeyValid
    <3> QED
      BY <2>2, <3>1
  <2>3. CASE x # v
    <3>1. i # k /\ j # k
      BY <1>6, <2>3 DEF RotateAPIKey, APIKeyValid
    <3>2. APIKeyValid(x, i) /\ APIKeyValid(x, j)
      BY <1>6, <3>1 DEF RotateAPIKey, RevokedWith, APIKeyValid
    <3> QED
      BY <3>2 DEF ActiveKeys, OneActiveKey
  <2> QED
    BY <2>2, <2>3
<1>7. ASSUME NEW u \in Users, NEW v \in Servers,
           RevokeAPIKey(u, v)
     PROVE  OneActiveKey'
  BY <1>7 DEF RevokeAPIKey, RevokedWith
<1>8. ASSUME NEW r \in Senders, NEW v \in Servers, NEW k \in Keys,
           ReceiveMetrics(r, v, k)
     PROVE  OneActiveKey'
  BY <1>8 DEF ReceiveMetrics
<1>9. ASSUME NEW r \in Senders,
           SaveMetrics(r)
     PROVE  OneActiveKey'
  BY <1>9 DEF SaveMetrics
<1>10. ASSUME NEW r \in Senders,
           SaveMetricsFails(r)
     PROVE  OneActiveKey'
  BY <1>10 DEF SaveMetricsFails
<1>11. CASE UNCHANGED vars
  BY <1>11 DEF vars
<1> QED
  BY <1>1, <1>2, <1>3, <1>4, <1>5, <1>6, <1>7, <1>8, <1>9, <1>10, <1>11 DEF Next

LEMMA InvInit == Init => IInv
<1> SUFFICES ASSUME Init PROVE IInv
  OBVIOUS
<1>1. TypeOK
  BY TypeInit
<1>2. RowsDrawn /\ NoOrphans /\ SamplesFromOwnKeys /\ LastSeenPast
  BY DEF Init, RowsDrawn, NoOrphans, SamplesFromOwnKeys, LastSeenPast, Registered
<1>3. RequestsCurrent
  BY DEF Init, RequestsCurrent, Idle
<1>4. OneActiveKey
  BY NoRowAssumption DEF Init, OneActiveKey, ActiveKeys, APIKeyValid
<1> QED
  BY <1>1, <1>2, <1>3, <1>4 DEF IInv

LEMMA InvStep == IInv /\ [Next]_vars => IInv'
BY TypeStep, RowsDrawnStep, LastSeenStep, NoOrphansStep, RequestsCurrentStep,
   SamplesStep, OneActiveKeyStep DEF IInv

LEMMA Invariance == Spec => []IInv
BY InvInit, InvStep, PTL DEF Spec

-----------------------------------------------------------------------------
(* The properties.                                                         *)

\* No key and no sample is ever left without its server, whatever was in flight
\* when the server was deleted.
THEOREM KeysAndSamplesHaveServers == Spec => []NoOrphans
<1>1. IInv => NoOrphans
  BY DEF IInv
<1> QED
  BY Invariance, <1>1, PTL

\* Every stored sample is filed under the server its key belongs to.
THEOREM SamplesFiledCorrectly == Spec => []SamplesFromOwnKeys
<1>1. IInv => SamplesFromOwnKeys
  BY DEF IInv
<1> QED
  BY Invariance, <1>1, PTL

\* Rotation leaves one active key, however it interleaves with other requests,
\* restarts and bootstraps.
THEOREM RotationLeavesOneKey == Spec => []OneActiveKey
<1>1. IInv => OneActiveKey
  BY DEF IInv
<1> QED
  BY Invariance, <1>1, PTL

\* A step deletes a key's row, revokes the key or leaves it as it is.
LEMMA RetireStep ==
    ASSUME IInv, [Next]_vars
    PROVE  \A j \in Keys : keyServer[j] # NoServer =>
               \/ keyServer'[j] = NoServer
               \/ /\ keyServer'[j] = keyServer[j]
                  /\ keyRevoked[j] => keyRevoked'[j]
<1> DEFINE Goal ==
        \A j \in Keys : keyServer[j] # NoServer =>
            \/ keyServer'[j] = NoServer
            \/ /\ keyServer'[j] = keyServer[j]
               /\ keyRevoked[j] => keyRevoked'[j]
<1> SUFFICES Goal
  OBVIOUS
<1> USE DEF IInv, TypeOK, RowsDrawn, store
<1>1. CASE ClockTick
  BY <1>1 DEF ClockTick
<1>2. CASE Stop
  BY <1>2 DEF Stop
<1>3. CASE Start
  BY <1>3 DEF Start, Bootstrap
<1>4. ASSUME NEW u \in Users, NEW v \in Servers, NEW k \in Keys,
           CreateServer(u, v, k)
     PROVE  Goal
  BY <1>4 DEF CreateServer
<1>5. ASSUME NEW u \in Users, NEW v \in Servers,
           DeleteServer(u, v)
     PROVE  Goal
  BY <1>5 DEF DeleteServer
<1>6. ASSUME NEW u \in Users, NEW v \in Servers, NEW k \in Keys,
           RotateAPIKey(u, v, k)
     PROVE  Goal
  BY <1>6 DEF RotateAPIKey, RevokedWith
<1>7. ASSUME NEW u \in Users, NEW v \in Servers,
           RevokeAPIKey(u, v)
     PROVE  Goal
  BY <1>7 DEF RevokeAPIKey, RevokedWith
<1>8. ASSUME NEW r \in Senders, NEW v \in Servers, NEW k \in Keys,
           ReceiveMetrics(r, v, k)
     PROVE  Goal
  BY <1>8 DEF ReceiveMetrics
<1>9. ASSUME NEW r \in Senders,
           SaveMetrics(r)
     PROVE  Goal
  BY <1>9 DEF SaveMetrics
<1>10. ASSUME NEW r \in Senders,
           SaveMetricsFails(r)
     PROVE  Goal
  BY <1>10 DEF SaveMetricsFails
<1>11. CASE UNCHANGED vars
  BY <1>11 DEF vars
<1> QED
  BY <1>1, <1>2, <1>3, <1>4, <1>5, <1>6, <1>7, <1>8, <1>9, <1>10, <1>11 DEF Next

\* A key's row never moves to another server, and a revoked key is never active
\* again.
THEOREM KeysRetireForGood == Spec => KeysOnlyRetire
<1>1. IInv /\ [Next]_vars =>
          \A k \in Keys : keyServer[k] # NoServer =>
              \/ keyServer'[k] = NoServer
              \/ /\ keyServer'[k] = keyServer[k]
                 /\ keyRevoked[k] => keyRevoked'[k]
  BY RetireStep
<1> QED
  BY Invariance, <1>1, PTL DEF Spec, KeysOnlyRetire

\* A step adds a request to those past the check only if its key is active.
LEMMA DrainStep ==
    ASSUME IInv, [Next]_vars
    PROVE  \A j \in Keys : keyRevoked[j] => Pending(j)' \subseteq Pending(j)
<1> DEFINE Goal ==
        \A j \in Keys : keyRevoked[j] => Pending(j)' \subseteq Pending(j)
<1> SUFFICES Goal
  OBVIOUS
<1> USE DEF IInv, TypeOK, Pending, store
<1>1. CASE ClockTick
  BY <1>1 DEF ClockTick
<1>2. CASE Stop
  BY <1>2 DEF Stop, Idle
<1>3. CASE Start
  BY <1>3 DEF Start, Bootstrap
<1>4. ASSUME NEW u \in Users, NEW v \in Servers, NEW k \in Keys,
           CreateServer(u, v, k)
     PROVE  Goal
  BY <1>4 DEF CreateServer
<1>5. ASSUME NEW u \in Users, NEW v \in Servers,
           DeleteServer(u, v)
     PROVE  Goal
  BY <1>5 DEF DeleteServer
<1>6. ASSUME NEW u \in Users, NEW v \in Servers, NEW k \in Keys,
           RotateAPIKey(u, v, k)
     PROVE  Goal
  BY <1>6 DEF RotateAPIKey, RevokedWith
<1>7. ASSUME NEW u \in Users, NEW v \in Servers,
           RevokeAPIKey(u, v)
     PROVE  Goal
  BY <1>7 DEF RevokeAPIKey, RevokedWith
<1>8. ASSUME NEW r \in Senders, NEW v \in Servers, NEW k \in Keys,
           ReceiveMetrics(r, v, k)
     PROVE  Goal
  BY <1>8 DEF ReceiveMetrics, APIKeyValid, Checked
<1>9. ASSUME NEW r \in Senders,
           SaveMetrics(r)
     PROVE  Goal
  BY <1>9 DEF SaveMetrics, Idle
<1>10. ASSUME NEW r \in Senders,
           SaveMetricsFails(r)
     PROVE  Goal
  BY <1>10 DEF SaveMetricsFails, Idle
<1>11. CASE UNCHANGED vars
  BY <1>11 DEF vars
<1> QED
  BY <1>1, <1>2, <1>3, <1>4, <1>5, <1>6, <1>7, <1>8, <1>9, <1>10, <1>11 DEF Next

\* Once a key is revoked, only requests already past the check can still store
\* samples with it.
THEOREM RevocationTakesHold == Spec => RevocationDrains
<1>1. IInv /\ [Next]_vars =>
          \A k \in Keys : keyRevoked[k] => Pending(k)' \subseteq Pending(k)
  BY DrainStep
<1> QED
  BY Invariance, <1>1, PTL DEF Spec, RevocationDrains

\* A step sets last_seen_at to the present, clears it with its row or leaves it.
LEMMA LastSeenNeverBack ==
    ASSUME IInv, [Next]_vars
    PROVE  \A w \in Servers : Registered(w) /\ Registered(w)' =>
               lastSeenAt'[w] >= lastSeenAt[w]
<1> DEFINE Goal ==
        \A w \in Servers : Registered(w) /\ Registered(w)' =>
            lastSeenAt'[w] >= lastSeenAt[w]
<1> SUFFICES Goal
  OBVIOUS
<1> USE DEF IInv, TypeOK, LastSeenPast, Registered, store
<1>1. CASE ClockTick
  BY <1>1 DEF ClockTick
<1>2. CASE Stop
  BY <1>2 DEF Stop
<1>3. CASE Start
  BY <1>3 DEF Start, Bootstrap
<1>4. ASSUME NEW u \in Users, NEW v \in Servers, NEW k \in Keys,
           CreateServer(u, v, k)
     PROVE  Goal
  BY <1>4 DEF CreateServer
<1>5. ASSUME NEW u \in Users, NEW v \in Servers,
           DeleteServer(u, v)
     PROVE  Goal
  BY <1>5 DEF DeleteServer
<1>6. ASSUME NEW u \in Users, NEW v \in Servers, NEW k \in Keys,
           RotateAPIKey(u, v, k)
     PROVE  Goal
  BY <1>6 DEF RotateAPIKey, RevokedWith
<1>7. ASSUME NEW u \in Users, NEW v \in Servers,
           RevokeAPIKey(u, v)
     PROVE  Goal
  BY <1>7 DEF RevokeAPIKey, RevokedWith
<1>8. ASSUME NEW r \in Senders, NEW v \in Servers, NEW k \in Keys,
           ReceiveMetrics(r, v, k)
     PROVE  Goal
  BY <1>8 DEF ReceiveMetrics
<1>9. ASSUME NEW r \in Senders,
           SaveMetrics(r)
     PROVE  Goal
  BY <1>9 DEF SaveMetrics
<1>10. ASSUME NEW r \in Senders,
           SaveMetricsFails(r)
     PROVE  Goal
  BY <1>10 DEF SaveMetricsFails
<1>11. CASE UNCHANGED vars
  BY <1>11 DEF vars
<1> QED
  BY <1>1, <1>2, <1>3, <1>4, <1>5, <1>6, <1>7, <1>8, <1>9, <1>10, <1>11 DEF Next

\* last_seen_at never goes back.
THEOREM LastSeenNeverGoesBack == Spec => LastSeenMonotone
<1>1. IInv /\ [Next]_vars =>
          \A v \in Servers : Registered(v) /\ Registered(v)' =>
              lastSeenAt'[v] >= lastSeenAt[v]
  BY LastSeenNeverBack
<1> QED
  BY Invariance, <1>1, PTL DEF Spec, LastSeenMonotone

-----------------------------------------------------------------------------
(* The refinement: what each step is in KeyRegister.                       *)

\* The register as it reads the tables.
LEMMA RegisterUnchanged ==
    ASSUME UNCHANGED <<owner, keyServer, keyRevoked, metrics, inFlight>>
    PROVE  UNCHANGED Register!vars
<1>1. registered' = registered
  BY DEF registered, Registered
<1>2. admissions' = admissions
  BY DEF admissions
<1>3. {k \in Keys : keyRevoked'[k]} = {k \in Keys : keyRevoked[k]}
  OBVIOUS
<1> QED
  BY <1>1, <1>2, <1>3 DEF Register!vars

\* A request past the check has been admitted, and only such a request has.
LEMMA AdmissionFacts ==
    ASSUME TypeOK, NEW a \in admissions
    PROVE  /\ a.request \in Senders /\ inFlight[a.request].pc = "checked"
           /\ a.server = inFlight[a.request].server /\ a.server \in Servers
           /\ a.key = inFlight[a.request].key /\ a.key \in Keys
           /\ a = [request |-> a.request, server |-> a.server, key |-> a.key]
<1>1. PICK r \in Senders :
          /\ inFlight[r].pc = "checked"
          /\ a = [request |-> r, server |-> inFlight[r].server, key |-> inFlight[r].key]
  BY DEF admissions
<1>2. inFlight[r] \in [pc : {"checked"}, server : Servers, key : Keys, since : 1 .. MaxClock]
  BY <1>1 DEF TypeOK, Idle
<1> QED
  BY <1>1, <1>2

\* A request that ends takes its admission along and no other.
LEMMA EndedAdmissions ==
    ASSUME TypeOK, NEW r \in Senders, inFlight[r].pc = "checked",
           inFlight' = [inFlight EXCEPT ![r] = Idle]
    PROVE  LET a == [request |-> r, server |-> inFlight[r].server, key |-> inFlight[r].key] IN
           a \in admissions /\ admissions' = admissions \ {a}
<1> DEFINE a == [request |-> r, server |-> inFlight[r].server, key |-> inFlight[r].key]
           Past == {q \in Senders : inFlight[q].pc = "checked"}
<1>1. a \in admissions
  BY DEF admissions
<1>2. {q \in Senders : inFlight'[q].pc = "checked"} = Past \ {r}
  BY DEF TypeOK, Idle
<1>3. \A q \in Past \ {r} : inFlight'[q] = inFlight[q]
  BY DEF TypeOK
<1>4. admissions' =
        {[request |-> q, server |-> inFlight[q].server, key |-> inFlight[q].key] :
            q \in Past \ {r}}
  BY <1>2, <1>3 DEF admissions
<1>5. admissions =
        {[request |-> q, server |-> inFlight[q].server, key |-> inFlight[q].key] :
            q \in Past}
  BY DEF admissions
<1> HIDE DEF Past
<1> QED
  BY <1>1, <1>4, <1>5

\* No name that is set or drawn replaces a row: Bootstrap runs while there are no
\* requests, and createServer draws names that no row and no request knows.
LEMMA InstallStep ==
    ASSUME IInv, NEW u \in Users, NEW v \in Servers, NEW k \in Keys,
           owner' = [owner EXCEPT ![v] = u],
           keyServer' = [keyServer EXCEPT ![k] = IF @ = NoServer THEN v ELSE @],
           UNCHANGED <<keyRevoked, metrics, inFlight>>,
           v \notin registered => \A a \in admissions : a.server # v
    PROVE  Register!Install(v, k)
<1>1. registered' = registered \union {v}
  BY NoRowAssumption DEF registered, Registered, IInv, TypeOK
<1>2. admissions' = admissions
  BY DEF admissions
<1>3. {j \in Keys : keyRevoked'[j]} = {j \in Keys : keyRevoked[j]}
  OBVIOUS
<1> QED
  BY <1>1, <1>2, <1>3 DEF Register!Install

LEMMA RegisterStep == IInv /\ [Next]_vars => [Register!Next]_(Register!vars)
<1> SUFFICES ASSUME IInv, [Next]_vars
             PROVE  Register!Next \/ UNCHANGED Register!vars
  OBVIOUS
<1> USE DEF IInv
<1>1. CASE ClockTick
  BY <1>1, RegisterUnchanged DEF ClockTick, store
<1>2. CASE Stop
  <2>1. admissions' = {}
    BY <1>2 DEF Stop, admissions, Idle
  <2>2. registered' = registered /\ keyRevoked' = keyRevoked
    BY <1>2 DEF Stop, store, registered, Registered
  <2>3. Register!Drop
    BY <1>2, <2>1, <2>2 DEF Stop, store, Register!Drop
  <2> QED
    BY <2>3 DEF Register!Next
<1>3. CASE Start
  <2>1. CASE UNCHANGED store
    BY <1>3, <2>1, RegisterUnchanged DEF Start, store
  <2>2. ASSUME NEW u \in Users, NEW v \in BootstrapServers, NEW k \in BootstrapKeys,
               Bootstrap(u, v, k)
        PROVE  Register!Next
    <3>1. v \in Servers /\ k \in Keys
      BY BootstrapAssumption
    <3>2. admissions = {}
      BY <1>3 DEF Start, RequestsCurrent, admissions
    <3>3. Register!Install(v, k)
      BY <1>3, <2>2, <3>1, <3>2, InstallStep DEF Bootstrap, Start
    <3> QED
      BY <3>1, <3>3 DEF Register!Next
  <2> QED
    BY <1>3, <2>1, <2>2 DEF Start
<1>4. ASSUME NEW u \in Users, NEW v \in Servers, NEW k \in Keys, CreateServer(u, v, k)
      PROVE  Register!Next
  <2>1. keyServer[k] = NoServer
    BY <1>4 DEF CreateServer, RowsDrawn
  <2>2. \A a \in admissions : a.server # v
    <3> SUFFICES ASSUME NEW a \in admissions PROVE a.server # v
      OBVIOUS
    <3>1. inFlight[a.request].server \in drawn /\ a.server = inFlight[a.request].server
      BY AdmissionFacts DEF RequestsCurrent
    <3> QED
      BY <1>4, <3>1 DEF CreateServer
  <2>3. keyServer' = [keyServer EXCEPT ![k] = IF @ = NoServer THEN v ELSE @]
    BY <1>4, <2>1 DEF CreateServer
  <2>4. Register!Install(v, k)
    BY <1>4, <2>2, <2>3, InstallStep DEF CreateServer
  <2> QED
    BY <2>4 DEF Register!Next
<1>5. ASSUME NEW u \in Users, NEW v \in Servers, DeleteServer(u, v)
      PROVE  Register!Next
  <2>1. v \in registered /\ registered' = registered \ {v}
    BY <1>5, NoRowAssumption DEF DeleteServer, registered, Registered, TypeOK
  <2>2. admissions' = admissions
    BY <1>5 DEF DeleteServer, admissions
  <2>3. {k \in Keys : keyRevoked'[k]} = {k \in Keys : keyRevoked[k]} \ Register!KeysOf(v)
    BY <1>5 DEF DeleteServer, Register!KeysOf
  <2>4. keyServer' = [k \in Keys |-> IF k \in Register!KeysOf(v) THEN NoServer ELSE keyServer[k]]
    BY <1>5 DEF DeleteServer, Register!KeysOf
  <2>5. Register!Close(v)
    BY <1>5, <2>1, <2>2, <2>3, <2>4 DEF DeleteServer, Register!Close
  <2> QED
    BY <2>5 DEF Register!Next
<1>6. ASSUME NEW u \in Users, NEW v \in Servers, NEW k \in Keys, RotateAPIKey(u, v, k)
      PROVE  Register!Next
  <2>1. v \in registered /\ registered' = registered
    BY <1>6, NoRowAssumption DEF RotateAPIKey, registered, Registered
  <2>2. admissions' = admissions
    BY <1>6 DEF RotateAPIKey, admissions
  <2>3. keyServer[k] = NoServer
    BY <1>6 DEF RotateAPIKey, RowsDrawn
  <2>4. {j \in Keys : keyRevoked'[j]} = {j \in Keys : keyRevoked[j]} \union Register!KeysOf(v)
    BY <1>6 DEF RotateAPIKey, RevokedWith, Register!KeysOf
  <2>5. Register!Replace(v, k)
    BY <1>6, <2>1, <2>2, <2>3, <2>4 DEF RotateAPIKey, Register!Replace
  <2> QED
    BY <2>5 DEF Register!Next
<1>7. ASSUME NEW u \in Users, NEW v \in Servers, RevokeAPIKey(u, v)
      PROVE  Register!Next
  <2>1. v \in registered /\ registered' = registered
    BY <1>7, NoRowAssumption DEF RevokeAPIKey, registered, Registered
  <2>2. admissions' = admissions
    BY <1>7 DEF RevokeAPIKey, admissions
  <2>3. {j \in Keys : keyRevoked'[j]} = {j \in Keys : keyRevoked[j]} \union Register!KeysOf(v)
    BY <1>7 DEF RevokeAPIKey, RevokedWith, Register!KeysOf
  <2>4. Register!Retire(v)
    BY <1>7, <2>1, <2>2, <2>3 DEF RevokeAPIKey, Register!Retire
  <2> QED
    BY <2>4 DEF Register!Next
<1>8. ASSUME NEW r \in Senders, NEW v \in Servers, NEW k \in Keys, ReceiveMetrics(r, v, k)
      PROVE  Register!Next
  <2> DEFINE a == [request |-> r, server |-> v, key |-> k]
             Past == {q \in Senders : inFlight[q].pc = "checked"}
  <2>1. UNCHANGED <<registered, keyServer, keyRevoked, metrics>>
    BY <1>8 DEF ReceiveMetrics, store, registered, Registered
  <2>2. r \notin Past
    BY <1>8 DEF ReceiveMetrics, Idle
  <2>3. \A b \in admissions : b.request # r
    BY <2>2, AdmissionFacts
  <2>4. /\ {q \in Senders : inFlight'[q].pc = "checked"} = Past \union {r}
        /\ inFlight'[r].server = v /\ inFlight'[r].key = k
        /\ \A q \in Past : inFlight'[q] = inFlight[q]
    BY <1>8, <2>2 DEF ReceiveMetrics, Checked, TypeOK
  <2>5. admissions =
          {[request |-> q, server |-> inFlight[q].server, key |-> inFlight[q].key] : q \in Past}
    BY DEF admissions
  <2>6. admissions' =
          {[request |-> q, server |-> inFlight'[q].server, key |-> inFlight'[q].key] :
              q \in Past \union {r}}
    BY <2>4 DEF admissions
  <2> HIDE DEF Past
  <2>7. admissions' = admissions \union {a}
    BY <2>4, <2>5, <2>6
  <2>8. k \in Register!KeysOf(v) \ {j \in Keys : keyRevoked[j]}
    BY <1>8 DEF ReceiveMetrics, APIKeyValid, Register!KeysOf
  <2>9. Register!Admit(r, v, k)
    BY <2>1, <2>3, <2>7, <2>8 DEF Register!Admit, Register!Admission
  <2> QED
    BY <2>9 DEF Register!Next
<1>9. ASSUME NEW r \in Senders, SaveMetrics(r)
      PROVE  Register!Next
  <2> DEFINE a == [request |-> r, server |-> inFlight[r].server, key |-> inFlight[r].key]
  <2>1. a \in admissions /\ admissions' = admissions \ {a}
    BY <1>9, EndedAdmissions DEF SaveMetrics
  <2>2. a.server \in Servers /\ a.key \in Keys
    BY <2>1, AdmissionFacts
  <2>3. keyServer[a.key] = a.server
    BY <1>9 DEF SaveMetrics, RequestsCurrent
  <2>4. UNCHANGED <<registered, keyServer, keyRevoked>>
    BY <1>9 DEF SaveMetrics, registered, Registered
  <2>5. metrics' = [metrics EXCEPT ![a.server] = @ \union {a.key}]
    BY <1>9 DEF SaveMetrics
  <2> HIDE DEF a
  <2>6. Register!Store(a)
    BY <2>1, <2>2, <2>3, <2>4, <2>5 DEF Register!Store, Register!KeysOf
  <2> QED
    BY <2>1, <2>6 DEF Register!Next
<1>10. ASSUME NEW r \in Senders, SaveMetricsFails(r)
       PROVE  Register!Next
  <2>1. admissions' \subseteq admissions
    BY <1>10, EndedAdmissions DEF SaveMetricsFails
  <2>2. UNCHANGED <<registered, keyServer, keyRevoked, metrics>>
    BY <1>10 DEF SaveMetricsFails, store, registered, Registered
  <2>3. Register!Drop
    BY <2>1, <2>2 DEF Register!Drop
  <2> QED
    BY <2>3 DEF Register!Next
<1>11. CASE UNCHANGED vars
  BY <1>11, RegisterUnchanged DEF vars, store
<1> QED
  BY <1>1, <1>2, <1>3, <1>4, <1>5, <1>6, <1>7, <1>8, <1>9, <1>10, <1>11 DEF Next

\* The tables and the requests in flight implement the register of keys: keys stay
\* with their servers, retire for good, and vouch for every sample when it is
\* stored, whatever happens between the two transactions of receiveMetrics.
THEOREM KeysImplementRegister == Spec => ImplementsRegister
<1>1. Init => Register!Init
  <2> SUFFICES ASSUME Init PROVE Register!Init
    OBVIOUS
  <2>1. registered = {} /\ admissions = {} /\ {k \in Keys : keyRevoked[k]} = {}
    BY DEF Init, registered, Registered, admissions, Idle
  <2> QED
    BY <2>1 DEF Init, Register!Init
<1> QED
  BY <1>1, RegisterStep, Invariance, PTL DEF Spec, ImplementsRegister, Register!Spec
=============================================================================
