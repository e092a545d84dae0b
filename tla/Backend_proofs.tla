--------------------------- MODULE Backend_proofs ---------------------------
(***************************************************************************)
(* Proofs about Backend for any number of feeds, overlapping restores and  *)
(* faults: no server process is left behind, no active feed silently stops *)
(* being monitored, and a stopped feed stays stopped.                      *)
(***************************************************************************)
EXTENDS Backend, TLAPS

-----------------------------------------------------------------------------
(* The launches *)

Stages == {"none", "discover", "spawn", "handshake", "ready", "failed"}
Young == {"discover", "spawn"}

LaunchTypes ==
  /\ client \in Servers \cup {None} /\ starting \in Servers \cup {None}
  /\ launch \in [Servers -> Stages]
  /\ superseded \subseteq Servers
  /\ server \in [Servers -> {"none", "live", "ending", "gone"}]
  /\ faults \in 0..MaxFaults

\* Nothing knows of a launch that has not begun.
Unlaunched ==
  \A k \in Servers : launch[k] = "none" =>
    server[k] = "none" /\ k \notin superseded /\ client # k /\ starting # k

\* A launch that was not superseded is the shared one, and no client is installed
\* before its server was spawned; a handshake is that of the client.
OneLaunch ==
  \A k \in Servers :
    /\ launch[k] \in Young /\ k \notin superseded => starting = k /\ client = None
    /\ launch[k] = "handshake" => starting = k /\ client = k /\ k \notin superseded
    /\ client = k => launch[k] \in {"handshake", "ready"}

Shared ==
  /\ client # None => starting \in {None, client}
  /\ starting \in superseded => disposed

\* Launches are numbered in the order they begin. A fault, and nothing else, ends one
\* so that another may begin.
Counted ==
  \E n \in 0..(faults + 1) :
     /\ \A k \in Servers : launch[k] = "none" <=> k > n
     /\ client = None /\ starting = None /\ ~disposed => n <= faults

LaunchInv == LaunchTypes /\ Unlaunched /\ OneLaunch /\ Shared /\ Counted /\ NoStrayServer

LEMMA NewLaunchIsNext ==
  ASSUME MaxFaults \in Nat, NEW n \in 0..MaxFaults, launch \in [Servers -> Stages],
         \A k \in Servers : launch[k] = "none" <=> k > n
  PROVE  NewLaunch = n + 1 /\ NewLaunch \in Servers
<1> DEFINE Free(k) == launch[k] = "none" /\ \A j \in 1..(k - 1) : launch[j] # "none"
<1>1. n + 1 \in Servers BY DEF Servers
<1>2. Free(n + 1)
  <2>1. launch[n + 1] = "none" BY <1>1 DEF Servers
  <2>2. ASSUME NEW j \in 1..((n + 1) - 1) PROVE launch[j] # "none" BY <2>2 DEF Servers
  <2>3. QED BY <2>1, <2>2
<1>3. \A k \in Servers : Free(k) => k = n + 1
  <2> SUFFICES ASSUME NEW k \in Servers, Free(k) PROVE k = n + 1 OBVIOUS
  <2>1. k > n OBVIOUS
  <2>2. n + 1 < k => n + 1 \in 1..(k - 1) BY DEF Servers
  <2>3. launch[n + 1] = "none" BY <1>2
  <2>4. QED BY <2>1, <2>2, <2>3 DEF Servers
<1>4. NewLaunch = CHOOSE k \in Servers : Free(k) BY DEF NewLaunch
<1> HIDE DEF Free
<1>5. QED BY <1>1, <1>2, <1>3, <1>4

LEMMA LaunchInit == Init => LaunchInv
<1> SUFFICES ASSUME Init PROVE LaunchInv OBVIOUS
<1> USE BackendAssumption DEF Init
<1>1. LaunchTypes BY DEF LaunchTypes, Servers, None, Stages
<1>2. Unlaunched /\ OneLaunch /\ Shared /\ NoStrayServer
  BY DEF Unlaunched, OneLaunch, Shared, NoStrayServer, Servers, None, Young
<1>3. Counted
  <2>1. \A k \in Servers : launch[k] = "none" <=> k > 0 BY DEF Servers
  <2>2. 0 \in 0..(faults + 1) /\ 0 <= faults OBVIOUS
  <2>3. QED BY <2>1, <2>2 DEF Counted
<1>4. QED BY <1>1, <1>2, <1>3 DEF LaunchInv

\* Launches that begin or end, and what is shared and installed meanwhile.
launchState == <<client, starting, disposed, launchVars, faults>>

LEMMA DiscoverKeepsLaunches ==
  ASSUME LaunchInv, NEW k \in Servers, Discover(k) PROVE LaunchInv'
<1> USE BackendAssumption DEF LaunchInv
<1>1. LaunchTypes'
  <2>1. launch' \in [Servers -> Stages]
    BY DEF Discover, LaunchFails, LaunchTypes, Stages
  <2>2. starting' \in Servers \cup {None} /\ client' \in Servers \cup {None} /\ superseded' \subseteq Servers
    BY DEF Discover, LaunchFails, Unstarting, LaunchTypes, serviceVars
  <2>3. server' \in [Servers -> {"none", "live", "ending", "gone"}]
    BY DEF Discover, LaunchTypes
  <2>4. faults' \in 0..MaxFaults
    BY DEF Discover, Fault, LaunchTypes
  <2>5. QED BY <2>1, <2>2, <2>3, <2>4 DEF LaunchTypes
<1>2. Unlaunched' /\ OneLaunch' /\ Shared' /\ NoStrayServer'
  BY DEF Discover, LaunchFails, Unstarting, Fault, serviceVars, LaunchTypes, Unlaunched, OneLaunch, Shared,
         NoStrayServer, Servers, None, Stages, Young, Superseded
<1>3. Counted'
  <2>1. PICK n \in 0..(faults + 1) :
          /\ \A j \in Servers : launch[j] = "none" <=> j > n
          /\ client = None /\ starting = None /\ ~disposed => n <= faults
    BY DEF Counted
  <2>2. \A j \in Servers : launch'[j] = "none" <=> j > n
    BY <2>1 DEF Discover, LaunchFails, LaunchTypes
  <2>3. n \in 0..(faults' + 1) BY DEF Discover, LaunchFails, LaunchTypes, Fault
  <2>4. client' = None /\ starting' = None /\ ~disposed' => n <= faults'
    BY <2>1 DEF Discover, LaunchFails, Unstarting, Fault, serviceVars, LaunchTypes, Shared, Superseded, None, Servers
  <2>5. QED BY <2>2, <2>3, <2>4 DEF Counted
<1>4. QED BY <1>1, <1>2, <1>3

LEMMA SpawnedKeepsLaunches ==
  ASSUME LaunchInv, NEW k \in Servers, Spawned(k) PROVE LaunchInv'
<1> USE BackendAssumption DEF LaunchInv
<1>1. LaunchTypes'
  <2>1. launch' \in [Servers -> Stages]
    BY DEF Spawned, LaunchFails, Unstarting, Fault, LaunchTypes, Stages
  <2>2. starting' \in Servers \cup {None} /\ client' \in Servers \cup {None} /\ superseded' \subseteq Servers
    BY DEF Spawned, LaunchFails, Unstarting, Fault, LaunchTypes
  <2>3. server' \in [Servers -> {"none", "live", "ending", "gone"}]
    BY DEF Spawned, LaunchFails, Unstarting, Fault, LaunchTypes
  <2>4. faults' \in 0..MaxFaults
    BY DEF Spawned, LaunchFails, Unstarting, Fault, LaunchTypes
  <2>5. QED BY <2>1, <2>2, <2>3, <2>4 DEF LaunchTypes
<1>2. Unlaunched' /\ OneLaunch' /\ Shared' /\ NoStrayServer'
  <2> USE DEF Spawned, LaunchFails, Unstarting, Fault, LaunchTypes, Servers, None, Stages, Young, Superseded
  <2>1. Unlaunched' BY DEF Unlaunched
  <2>2. OneLaunch' BY DEF OneLaunch
  <2>3. Shared' BY DEF OneLaunch, Shared
  <2>4. NoStrayServer' BY DEF OneLaunch, NoStrayServer
  <2>5. QED BY <2>1, <2>2, <2>3, <2>4
<1>3. Counted'
  <2>1. PICK n \in 0..(faults + 1) :
          /\ \A j \in Servers : launch[j] = "none" <=> j > n
          /\ client = None /\ starting = None /\ ~disposed => n <= faults
    BY DEF Counted
  <2>2. \A j \in Servers : launch'[j] = "none" <=> j > n
    BY <2>1 DEF Spawned, LaunchFails, Unstarting, Fault, LaunchTypes
  <2>3. n \in 0..(faults' + 1) BY DEF Spawned, LaunchFails, Unstarting, Fault, LaunchTypes
  <2>4. client' = None /\ starting' = None /\ ~disposed' => n <= faults'
    BY <2>1 DEF Spawned, LaunchFails, Unstarting, Fault, LaunchTypes, Shared, OneLaunch, Superseded, None, Servers
  <2>5. QED BY <2>2, <2>3, <2>4 DEF Counted
<1>4. QED BY <1>1, <1>2, <1>3

LEMMA HandshakeOkKeepsLaunches ==
  ASSUME LaunchInv, NEW k \in Servers, HandshakeOk(k) PROVE LaunchInv'
<1> USE BackendAssumption DEF LaunchInv
<1>1. LaunchTypes'
  <2>1. launch' \in [Servers -> Stages]
    BY DEF HandshakeOk, Unstarting, LaunchTypes, Stages
  <2>2. starting' \in Servers \cup {None} /\ client' \in Servers \cup {None} /\ superseded' \subseteq Servers
    BY DEF HandshakeOk, Unstarting, LaunchTypes
  <2>3. server' \in [Servers -> {"none", "live", "ending", "gone"}]
    BY DEF HandshakeOk, Unstarting, LaunchTypes
  <2>4. faults' \in 0..MaxFaults
    BY DEF HandshakeOk, Unstarting, LaunchTypes
  <2>5. QED BY <2>1, <2>2, <2>3, <2>4 DEF LaunchTypes
<1>2. Unlaunched' /\ OneLaunch' /\ Shared' /\ NoStrayServer'
  BY DEF HandshakeOk, Unstarting, LaunchTypes, Unlaunched, OneLaunch, Shared,
         NoStrayServer, Servers, None, Stages, Young, Superseded
<1>3. Counted'
  <2>1. PICK n \in 0..(faults + 1) :
          /\ \A j \in Servers : launch[j] = "none" <=> j > n
          /\ client = None /\ starting = None /\ ~disposed => n <= faults
    BY DEF Counted
  <2>2. \A j \in Servers : launch'[j] = "none" <=> j > n
    BY <2>1 DEF HandshakeOk, Unstarting, LaunchTypes
  <2>3. n \in 0..(faults' + 1) BY DEF HandshakeOk, Unstarting, LaunchTypes
  <2>4. client' = None /\ starting' = None /\ ~disposed' => n <= faults'
    BY <2>1 DEF HandshakeOk, Unstarting, LaunchTypes, Shared, OneLaunch, Superseded, None, Servers
  <2>5. QED BY <2>2, <2>3, <2>4 DEF Counted
<1>4. QED BY <1>1, <1>2, <1>3

LEMMA HandshakeFailsKeepsLaunches ==
  ASSUME LaunchInv, NEW k \in Servers, HandshakeFails(k) PROVE LaunchInv'
<1> USE BackendAssumption DEF LaunchInv
<1>1. LaunchTypes'
  <2>1. launch' \in [Servers -> Stages]
    BY DEF HandshakeFails, HandleClose, CloseClient, HandshakeEnds, Unstarting, Fault, LaunchTypes, Stages
  <2>2. starting' \in Servers \cup {None} /\ client' \in Servers \cup {None} /\ superseded' \subseteq Servers
    BY DEF HandshakeFails, HandleClose, CloseClient, HandshakeEnds, Unstarting, Fault, LaunchTypes
  <2>3. server' \in [Servers -> {"none", "live", "ending", "gone"}]
    BY DEF HandshakeFails, HandleClose, CloseClient, HandshakeEnds, Unstarting, Fault, LaunchTypes
  <2>4. faults' \in 0..MaxFaults
    BY DEF HandshakeFails, HandleClose, CloseClient, HandshakeEnds, Unstarting, Fault, LaunchTypes
  <2>5. QED BY <2>1, <2>2, <2>3, <2>4 DEF LaunchTypes
<1>2. Unlaunched' /\ OneLaunch' /\ Shared' /\ NoStrayServer'
  BY DEF HandshakeFails, HandleClose, CloseClient, HandshakeEnds, Unstarting, Fault, LaunchTypes, Unlaunched, OneLaunch, Shared,
         NoStrayServer, Servers, None, Stages, Young, Superseded
<1>3. Counted'
  <2>1. PICK n \in 0..(faults + 1) :
          /\ \A j \in Servers : launch[j] = "none" <=> j > n
          /\ client = None /\ starting = None /\ ~disposed => n <= faults
    BY DEF Counted
  <2>2. \A j \in Servers : launch'[j] = "none" <=> j > n
    BY <2>1 DEF HandshakeFails, HandleClose, CloseClient, HandshakeEnds, Unstarting, Fault, LaunchTypes
  <2>3. n \in 0..(faults' + 1) BY DEF HandshakeFails, HandleClose, CloseClient, HandshakeEnds, Unstarting, Fault, LaunchTypes
  <2>4. client' = None /\ starting' = None /\ ~disposed' => n <= faults'
    BY <2>1 DEF HandshakeFails, HandleClose, CloseClient, HandshakeEnds, Unstarting, Fault, LaunchTypes, Shared, OneLaunch, Superseded, None, Servers
  <2>5. QED BY <2>2, <2>3, <2>4 DEF Counted
<1>4. QED BY <1>1, <1>2, <1>3

LEMMA CrashKeepsLaunches ==
  ASSUME LaunchInv, NEW k \in Servers, Crash(k) PROVE LaunchInv'
<1> USE BackendAssumption DEF LaunchInv
<1>1. LaunchTypes'
  <2>1. launch' \in [Servers -> Stages]
    BY DEF Crash, HandleClose, CloseClient, HandshakeEnds, Unstarting, Fault, LaunchTypes, Stages
  <2>2. starting' \in Servers \cup {None} /\ client' \in Servers \cup {None} /\ superseded' \subseteq Servers
    BY DEF Crash, HandleClose, CloseClient, HandshakeEnds, Unstarting, Fault, LaunchTypes
  <2>3. server' \in [Servers -> {"none", "live", "ending", "gone"}]
    BY DEF Crash, HandleClose, CloseClient, HandshakeEnds, Unstarting, Fault, LaunchTypes
  <2>4. faults' \in 0..MaxFaults
    BY DEF Crash, HandleClose, CloseClient, HandshakeEnds, Unstarting, Fault, LaunchTypes
  <2>5. QED BY <2>1, <2>2, <2>3, <2>4 DEF LaunchTypes
<1>2. Unlaunched' /\ OneLaunch' /\ Shared' /\ NoStrayServer'
  BY DEF Crash, HandleClose, CloseClient, HandshakeEnds, Unstarting, Fault, LaunchTypes, Unlaunched, OneLaunch, Shared,
         NoStrayServer, Servers, None, Stages, Young, Superseded
<1>3. Counted'
  <2>1. PICK n \in 0..(faults + 1) :
          /\ \A j \in Servers : launch[j] = "none" <=> j > n
          /\ client = None /\ starting = None /\ ~disposed => n <= faults
    BY DEF Counted
  <2>2. \A j \in Servers : launch'[j] = "none" <=> j > n
    BY <2>1 DEF Crash, HandleClose, CloseClient, HandshakeEnds, Unstarting, Fault, LaunchTypes
  <2>3. n \in 0..(faults' + 1) BY DEF Crash, HandleClose, CloseClient, HandshakeEnds, Unstarting, Fault, LaunchTypes
  <2>4. client' = None /\ starting' = None /\ ~disposed' => n <= faults'
    BY <2>1 DEF Crash, HandleClose, CloseClient, HandshakeEnds, Unstarting, Fault, LaunchTypes, Shared, OneLaunch, Superseded, None, Servers
  <2>5. QED BY <2>2, <2>3, <2>4 DEF Counted
<1>4. QED BY <1>1, <1>2, <1>3

LEMMA ExitKeepsLaunches ==
  ASSUME LaunchInv, NEW k \in Servers, Exit(k) PROVE LaunchInv'
<1> USE BackendAssumption DEF LaunchInv
<1>1. LaunchTypes'
  <2>1. launch' \in [Servers -> Stages]
    BY DEF Exit, serviceVars, LaunchTypes, Stages
  <2>2. starting' \in Servers \cup {None} /\ client' \in Servers \cup {None} /\ superseded' \subseteq Servers
    BY DEF Exit, serviceVars, LaunchTypes
  <2>3. server' \in [Servers -> {"none", "live", "ending", "gone"}]
    BY DEF Exit, serviceVars, LaunchTypes
  <2>4. faults' \in 0..MaxFaults
    BY DEF Exit, serviceVars, LaunchTypes
  <2>5. QED BY <2>1, <2>2, <2>3, <2>4 DEF LaunchTypes
<1>2. Unlaunched' /\ OneLaunch' /\ Shared' /\ NoStrayServer'
  BY DEF Exit, serviceVars, LaunchTypes, Unlaunched, OneLaunch, Shared,
         NoStrayServer, Servers, None, Stages, Young, Superseded
<1>3. Counted'
  <2>1. PICK n \in 0..(faults + 1) :
          /\ \A j \in Servers : launch[j] = "none" <=> j > n
          /\ client = None /\ starting = None /\ ~disposed => n <= faults
    BY DEF Counted
  <2>2. \A j \in Servers : launch'[j] = "none" <=> j > n
    BY <2>1 DEF Exit, serviceVars, LaunchTypes
  <2>3. n \in 0..(faults' + 1) BY DEF Exit, serviceVars, LaunchTypes
  <2>4. client' = None /\ starting' = None /\ ~disposed' => n <= faults'
    BY <2>1 DEF Exit, serviceVars, LaunchTypes, Shared, OneLaunch, Superseded, None, Servers
  <2>5. QED BY <2>2, <2>3, <2>4 DEF Counted
<1>4. QED BY <1>1, <1>2, <1>3

LEMMA DisposeKeepsLaunches ==
  ASSUME LaunchInv, Dispose PROVE LaunchInv'
<1> USE BackendAssumption DEF LaunchInv
<1>1. LaunchTypes'
  <2>1. launch' \in [Servers -> Stages]
    BY DEF Dispose, Quietly, CloseClient, InFlight, HandshakeEnds, Ending, LaunchTypes, Stages
  <2>2. starting' \in Servers \cup {None} /\ client' \in Servers \cup {None} /\ superseded' \subseteq Servers
    BY DEF Dispose, Quietly, CloseClient, InFlight, HandshakeEnds, Ending, LaunchTypes
  <2>3. server' \in [Servers -> {"none", "live", "ending", "gone"}]
    BY DEF Dispose, Quietly, CloseClient, InFlight, HandshakeEnds, Ending, LaunchTypes
  <2>4. faults' \in 0..MaxFaults
    BY DEF Dispose, Quietly, CloseClient, InFlight, HandshakeEnds, Ending, LaunchTypes
  <2>5. QED BY <2>1, <2>2, <2>3, <2>4 DEF LaunchTypes
<1>2. Unlaunched' /\ OneLaunch' /\ Shared' /\ NoStrayServer'
  <2>1. disposed' = TRUE /\ client' = None /\ superseded' = superseded \cup InFlight
    BY DEF Dispose, Quietly, CloseClient
  <2>2. starting' = IF client = starting THEN None ELSE starting
    BY DEF Dispose
  <2>3. \A j \in Servers :
          launch'[j] = IF j = client /\ launch[j] = "handshake" THEN "failed" ELSE launch[j]
    BY DEF Dispose, HandshakeEnds, LaunchTypes, Servers, None
  <2>4. \A j \in Servers :
          server'[j] = IF j = client /\ server[j] = "live" THEN "ending" ELSE server[j]
    BY DEF Dispose, Quietly, Ending, LaunchTypes, Servers, None
  <2>5. Unlaunched' BY <2>1, <2>2, <2>3, <2>4 DEF LaunchTypes, Unlaunched, InFlight, Servers, None
  <2>6. OneLaunch'
    BY <2>1, <2>2, <2>3 DEF LaunchTypes, OneLaunch, InFlight, Servers, None, Stages, Young
  <2>7. Shared'
    BY <2>1, <2>2, <2>3, <2>4
    DEF LaunchTypes, OneLaunch, Shared, InFlight, Servers, None, Stages, Young
  <2>8. NoStrayServer'
    BY <2>1, <2>2, <2>3, <2>4
    DEF LaunchTypes, OneLaunch, NoStrayServer, InFlight, Servers, None, Stages, Young
  <2>9. QED BY <2>5, <2>6, <2>7, <2>8
<1>3. Counted'
  <2>1. PICK n \in 0..(faults + 1) :
          /\ \A j \in Servers : launch[j] = "none" <=> j > n
          /\ client = None /\ starting = None /\ ~disposed => n <= faults
    BY DEF Counted
  <2>2. \A j \in Servers : launch'[j] = "none" <=> j > n
    BY <2>1 DEF Dispose, Quietly, CloseClient, InFlight, HandshakeEnds, Ending, LaunchTypes
  <2>3. n \in 0..(faults' + 1) BY DEF Dispose, Quietly, CloseClient, InFlight, HandshakeEnds, Ending, LaunchTypes
  <2>4. client' = None /\ starting' = None /\ ~disposed' => n <= faults'
    BY <2>1 DEF Dispose, Quietly, CloseClient, InFlight, HandshakeEnds, Ending, LaunchTypes, Shared, OneLaunch, Superseded, None, Servers
  <2>5. QED BY <2>2, <2>3, <2>4 DEF Counted
<1>4. QED BY <1>1, <1>2, <1>3

\* A launch begins only if there is neither a client nor a launch under way.
LEMMA LaunchedKeepsLaunches ==
  ASSUME LaunchInv, ~disposed, Launched(client, starting),
         UNCHANGED <<client, disposed, superseded, server, faults>>
  PROVE  LaunchInv'
<1> USE BackendAssumption DEF LaunchInv
<1>1. CASE ~(client = None /\ starting = None)
  <2>1. UNCHANGED <<starting, launch>> BY <1>1 DEF Launched
  <2>2. QED
    BY <2>1 DEF LaunchTypes, Unlaunched, OneLaunch, Shared, Counted, NoStrayServer
<1>2. CASE client = None /\ starting = None
  <2>1. PICK n \in 0..(faults + 1) :
          (\A j \in Servers : launch[j] = "none" <=> j > n) /\ n <= faults
    BY <1>2 DEF Counted
  <2>2. n \in 0..MaxFaults /\ n + 1 \in 0..(faults + 1) BY <2>1 DEF LaunchTypes
  <2>3. NewLaunch = n + 1 /\ NewLaunch \in Servers BY <2>1, <2>2, NewLaunchIsNext DEF LaunchTypes
  <2>4. starting' = n + 1 /\ launch' = [launch EXCEPT ![n + 1] = "discover"] /\ n + 1 \in Servers
    BY <1>2, <2>3 DEF Launched
  <2>5. launch[n + 1] = "none" BY <2>1, <2>2, <2>4 DEF Servers
  <2>6. LaunchTypes' BY <1>2, <2>4 DEF LaunchTypes, Stages
  <2>7. Unlaunched' /\ OneLaunch' /\ Shared' /\ NoStrayServer'
    BY <1>2, <2>4, <2>5
    DEF LaunchTypes, Unlaunched, OneLaunch, Shared, NoStrayServer, Servers, None, Young
  <2>8. \A j \in Servers : launch'[j] = "none" <=> j > n + 1
    BY <2>1, <2>4 DEF LaunchTypes, Servers
  <2>9. Counted' BY <2>2, <2>4, <2>8 DEF Counted, Servers, None
  <2>10. QED BY <2>6, <2>7, <2>9
<1>3. QED BY <1>1, <1>2

LEMMA CallKeepsLaunches ==
  ASSUME LaunchInv, NEW f \in Feeds, CallBackend(f) PROVE LaunchInv'
<1>1. CASE disposed
  BY <1>1 DEF CallBackend, LaunchInv, LaunchTypes, Unlaunched, OneLaunch, Shared, Counted, NoStrayServer
<1>2. CASE ~disposed BY <1>2, LaunchedKeepsLaunches DEF CallBackend
<1>3. QED BY <1>1, <1>2

LEMMA TimerKeepsLaunches ==
  ASSUME LaunchInv, NEW r \in Restorers, TimerFires(r) PROVE LaunchInv'
BY LaunchedKeepsLaunches DEF TimerFires

\* A restart is a fault, so there is a launch left for it, and supersedes all others.
LEMMA RestartKeepsLaunches ==
  ASSUME LaunchInv, NEW r \in Restorers, Restart(r) PROVE LaunchInv'
<1> USE BackendAssumption DEF LaunchInv
<1> DEFINE ended == IF client # None /\ launch[client] = "handshake" THEN HandshakeEnds(client) ELSE launch
<1>1. /\ ~disposed /\ disposed' = disposed /\ client' = None
      /\ superseded' = superseded \cup InFlight
      /\ faults < MaxFaults /\ faults' = faults + 1
      /\ server' = IF client = None THEN server ELSE Ending(client)
  BY DEF Restart, Quietly, CloseClient, Fault
<1>2. PICK n \in 0..(faults + 1) : \A j \in Servers : launch[j] = "none" <=> j > n
  BY DEF Counted
<1>3. /\ ended \in [Servers -> Stages]
      /\ \A k \in Servers :
           /\ ended[k] = "none" <=> launch[k] = "none"
           /\ ended[k] # "handshake"
           /\ ended[k] \in Young => launch[k] = ended[k]
           /\ launch[k] = "spawn" => ended[k] = "spawn"
  BY DEF HandshakeEnds, LaunchTypes, Stages, Young, OneLaunch, Servers, None
<1>4. /\ superseded' \subseteq Servers
      /\ \A k \in Servers : launch[k] = "none" => k \notin superseded'
      /\ \A k \in Servers : launch[k] \in Young => k \in superseded'
  BY <1>1 DEF LaunchTypes, InFlight, Unlaunched, Young
<1>5. /\ server' \in [Servers -> {"none", "live", "ending", "gone"}]
      /\ \A k \in Servers : launch[k] = "none" => server'[k] = "none"
      /\ \A k \in Servers : server'[k] = "live" => launch[k] = "spawn"
  BY <1>1 DEF LaunchTypes, Ending, Unlaunched, NoStrayServer, OneLaunch, Servers, None
<1> HIDE DEF ended
<1>6. CASE active = {}
  <2>1. starting' = None /\ launch' = ended BY <1>6 DEF Restart, ended
  <2>2. LaunchTypes' BY <1>1, <1>3, <1>4, <1>5, <2>1 DEF LaunchTypes
  <2>3. Unlaunched' /\ OneLaunch' /\ Shared' /\ NoStrayServer'
    BY <1>1, <1>3, <1>4, <1>5, <2>1
    DEF LaunchTypes, Unlaunched, OneLaunch, Shared, NoStrayServer, Servers, None
  <2>4. Counted' BY <1>1, <1>2, <1>3, <2>1 DEF Counted, LaunchTypes
  <2>5. QED BY <2>2, <2>3, <2>4
<1>7. CASE active # {}
  <2>1. n \in 0..MaxFaults BY <1>1 DEF LaunchTypes
  <2>2. NewLaunch = n + 1 /\ NewLaunch \in Servers BY <1>2, <2>1, NewLaunchIsNext DEF LaunchTypes
  <2>3. starting' = n + 1 /\ launch' = [ended EXCEPT ![n + 1] = "discover"] /\ n + 1 \in Servers
    BY <1>7, <2>2 DEF Restart, ended
  <2>4. launch[n + 1] = "none" BY <1>2, <2>1, <2>3 DEF Servers
  <2>5. LaunchTypes' BY <1>1, <1>3, <1>4, <1>5, <2>3 DEF LaunchTypes, Stages
  <2>6. Unlaunched' /\ OneLaunch' /\ Shared' /\ NoStrayServer'
    BY <1>1, <1>3, <1>4, <1>5, <2>3, <2>4
    DEF LaunchTypes, Unlaunched, OneLaunch, Shared, NoStrayServer, Servers, None, Young
  <2>7. \A j \in Servers : launch'[j] = "none" <=> j > n + 1
    BY <1>2, <1>3, <2>3 DEF LaunchTypes, Servers
  <2>8. n + 1 \in 0..(faults' + 1) BY <1>1 DEF LaunchTypes
  <2>9. Counted' BY <2>3, <2>7, <2>8 DEF Counted, Servers, None
  <2>10. QED BY <2>5, <2>6, <2>9
<1>8. QED BY <1>6, <1>7

LEMMA LaunchStep == LaunchInv /\ [Next]_vars => LaunchInv'
<1> SUFFICES ASSUME LaunchInv, [Next]_vars PROVE LaunchInv' OBVIOUS
<1>1. CASE UNCHANGED <<client, starting, disposed, launch, superseded, server, faults>>
  BY <1>1 DEF LaunchInv, LaunchTypes, Unlaunched, OneLaunch, Shared, Counted, NoStrayServer
<1>2. ASSUME NEW k \in Servers, LaunchNext(k) PROVE LaunchInv'
  BY <1>2, DiscoverKeepsLaunches, SpawnedKeepsLaunches, HandshakeOkKeepsLaunches,
     HandshakeFailsKeepsLaunches, CrashKeepsLaunches, ExitKeepsLaunches DEF LaunchNext
<1>3. ASSUME NEW f \in Feeds, UserNext(f) PROVE LaunchInv'
  BY <1>1, <1>3, CallKeepsLaunches
  DEF UserNext, StartOrRetry, StopFeed, EditFeed, RemoveFeed, Begin, ServeUser, Answered, TimesOut,
      PollNews, rest, serviceVars, launchVars
<1>4. ASSUME NEW r \in Restorers, RestorerNext(r) PROVE LaunchInv'
  BY <1>1, <1>4, TimerKeepsLaunches, RestartKeepsLaunches
  DEF RestorerNext, ServeRestorer, Restored, RestoreTimesOut, rest, serviceVars, launchVars
<1>5. CASE NotifiedLate BY <1>1, <1>5 DEF NotifiedLate, launchVars
<1>6. CASE Dispose BY <1>6, DisposeKeepsLaunches
<1>7. CASE UNCHANGED vars BY <1>1, <1>7 DEF vars, serviceVars, launchVars
<1>8. QED BY <1>2, <1>3, <1>4, <1>5, <1>6, <1>7 DEF Next

LEMMA LaunchInvariant == Spec => []LaunchInv
<1> QED BY LaunchInit, LaunchStep, PTL DEF Spec

\* No server process is left behind: one that is neither the client's nor just being
\* spawned was told to end, whatever launches, restarts, failed handshakes and disposal
\* overlap (backend.ts, #launch, restart and dispose).
THEOREM NoServerLeftBehind == Spec => []NoStrayServer
<1>1. LaunchInv => NoStrayServer BY DEF LaunchInv
<1>2. QED BY <1>1, LaunchInvariant, PTL

-----------------------------------------------------------------------------
(* Callers and the pipe *)

UserStates == [at : {"idle", "call", "launch", "answer"}, cmd : Commands \cup {"none"}, on : Servers \cup {None}]
Loops ==
  [at : {"idle", "launch", "answer"}, byTimer : BOOLEAN, on : Servers \cup {None},
   visited : SUBSET Feeds, feed : SUBSET Feeds]
Answers == [by : Feeds \cup Restorers \cup {Nobody}, feed : Feeds, method : {"start", "stop"}, reply : {"ok", "error"}]
TreeStates == {"stopped", "starting", "running", "error", "removed"}

CallerTypes ==
  /\ active \subseteq Feeds
  /\ held \in [Servers -> SUBSET Feeds]
  /\ user \in [Feeds -> UserStates]
  /\ restorer \in [Restorers -> Loops]
  /\ pipe \in Seq(Answers)
  /\ shown \in [Feeds -> TreeStates]

\* A command's next step: what it remembers, it shows as running, and what it keeps
\* although it failed, it shows as failed.
LEMMA AfterFacts ==
  ASSUME NEW cmd \in Commands, NEW reply \in {"ok", "error"}, NEW then \in After(cmd, reply)
  PROVE  /\ then.next \in UserStates /\ then.next.at \in {"idle", "call"}
         /\ then.next.at = "call" => then.next.cmd \in Commands
         /\ then.shown \in TreeStates
         /\ \/ then.map = "remember" /\ cmd = "start" /\ reply = "ok" /\ then.shown = "running"
            \/ then.map = "forget" /\ ~(cmd = "start" /\ reply = "ok")
            \/ then.map = "keep" /\ reply = "error" /\ then.shown = "error"
         /\ then.shown = "stopped" => cmd = "stop" /\ reply = "ok"
         /\ then.shown = "removed" => then.map = "forget" /\ then.next.at = "idle"
<1> USE DEF Then, Call, Idle, UserStates, TreeStates, Commands, None
<1>1. CASE cmd = "start" BY <1>1 DEF After
<1>2. CASE cmd = "stop" BY <1>2 DEF After
<1>3. CASE cmd = "remove"
  <2>1. CASE reply = "ok" BY <1>3, <2>1 DEF After
  <2>2. CASE reply = "error"
    <3>1. then \in {Then(Idle, "keep", "error"), Then(Idle, "forget", "removed")} BY <1>3, <2>2 DEF After
    <3>2. QED BY <1>3, <2>2, <3>1
  <2>3. QED BY <2>1, <2>2
<1>4. CASE cmd = "retry"
  <2>1. then = Then(Call("start"), "forget", "starting")
    <3>1. CASE reply = "ok" BY <1>4, <3>1 DEF After
    <3>2. CASE reply = "error" BY <1>4, <3>2 DEF After
    <3>3. QED BY <3>1, <3>2
  <2>2. QED BY <1>4, <2>1
<1>5. CASE cmd = "edit"
  <2>1. CASE reply = "ok"
    <3>1. then = Then(Call("start"), "forget", "starting") BY <1>5, <2>1 DEF After
    <3>2. QED BY <1>5, <2>1, <3>1
  <2>2. CASE reply = "error"
    <3>1. then \in {Then(Idle, "keep", "error"), Then(Call("retry"), "forget", "error")} BY <1>5, <2>2 DEF After
    <3>2. CASE then = Then(Idle, "keep", "error") BY <2>2, <3>2
    <3>3. CASE then = Then(Call("retry"), "forget", "error") BY <2>2, <3>3
    <3>4. QED BY <3>1, <3>2, <3>3
  <2>3. QED BY <2>1, <2>2
<1>6. QED BY <1>1, <1>2, <1>3, <1>4, <1>5

\* next is the loop, which may have to meet some feeds again.
Kept(loop, next) ==
  /\ next \in Loops
  /\ next.at = loop.at /\ next.byTimer = loop.byTimer /\ next.on = loop.on /\ next.feed = loop.feed
  /\ next.visited \subseteq loop.visited

LEMMA UnvisitKeeps ==
  ASSUME NEW loops \in [Restorers -> Loops], NEW gone
  PROVE  /\ Unvisit(loops, gone) \in [Restorers -> Loops]
         /\ \A r \in Restorers : Kept(loops[r], Unvisit(loops, gone)[r])
<1>1. ASSUME NEW r \in Restorers PROVE Kept(loops[r], Unvisit(loops, gone)[r])
  <2>1. loops[r] \in Loops OBVIOUS
  <2>2. Unvisit(loops, gone)[r] = [loops[r] EXCEPT !.visited = loops[r].visited \ gone] BY DEF Unvisit
  <2> DEFINE loop == loops[r]
  <2>3. loop.visited \ gone \in SUBSET Feeds BY <2>1 DEF Loops
  <2> HIDE DEF loop
  <2>4. QED BY <2>1, <2>2, <2>3 DEF Kept, Loops, loop
<1>2. Unvisit(loops, gone) = [r \in Restorers |-> Unvisit(loops, gone)[r]] BY DEF Unvisit
<1>3. QED BY <1>1, <1>2 DEF Kept

\* A loop is over when it has met every active feed; else it restores one it has not met.
LEMMA NextFeedFacts ==
  ASSUME NEW loop \in Loops, NEW map \in SUBSET Feeds, NEW next \in NextFeed(loop, map)
  PROVE  /\ next \in Loops
         /\ \/ next = AtRest /\ map \subseteq loop.visited
            \/ /\ next.at = "answer" /\ next.on = loop.on /\ next.byTimer = loop.byTimer
               /\ \E f \in map : next.feed = {f} /\ next.visited = loop.visited \cup {f}
<1>1. CASE map \subseteq loop.visited
  <2>1. next = AtRest BY <1>1 DEF NextFeed
  <2>2. AtRest \in Loops BY DEF AtRest, Loops, None
  <2>3. QED BY <1>1, <2>1, <2>2
<1>2. CASE ~(map \subseteq loop.visited)
  <2>1. PICK f \in map \ loop.visited :
          next = [loop EXCEPT !.at = "answer", !.feed = {f}, !.visited = loop.visited \cup {f}]
    BY <1>2 DEF NextFeed
  <2>2. /\ next.at = "answer" /\ next.on = loop.on /\ next.byTimer = loop.byTimer
        /\ next.feed = {f} /\ next.visited = loop.visited \cup {f}
    BY <2>1 DEF Loops
  <2>3. next \in Loops BY <2>1 DEF Loops
  <2>4. QED BY <2>2, <2>3
<1>3. QED BY <1>1, <1>2

\* What the end of a request of f's command does to f.
WentOn(f, reply) ==
  /\ user'[f].at \in {"idle", "call"} /\ (user'[f].at = "call" => user'[f].cmd \in Commands)
  /\ \/ f \in active' /\ shown'[f] = Show(f, "running") /\ user[f].cmd = "start" /\ reply = "ok"
     \/ f \notin active' /\ ~(user[f].cmd = "start" /\ reply = "ok")
     \/ (f \in active' <=> f \in active) /\ shown'[f] = Show(f, "error") /\ reply = "error"
  /\ shown'[f] = "stopped" => f \notin active' /\ user[f].cmd = "stop" /\ reply = "ok"
  /\ shown'[f] = "removed" => shown[f] = "removed" \/ (f \notin active' /\ user'[f].at = "idle")

LEMMA ContinueFacts ==
  ASSUME CallerTypes, NEW f \in Feeds, user[f].cmd \in Commands, NEW reply \in {"ok", "error"},
         Continue(f, reply)
  PROVE  /\ user' \in [Feeds -> UserStates] /\ shown' \in [Feeds -> TreeStates]
         /\ active' \subseteq Feeds /\ restorer' \in [Restorers -> Loops]
         /\ WentOn(f, reply)
         /\ \A g \in Feeds \ {f} :
              user'[g] = user[g] /\ shown'[g] = shown[g] /\ (g \in active' <=> g \in active)
         /\ \A r \in Restorers : Kept(restorer[r], restorer'[r])
<1>1. PICK then \in After(user[f].cmd, reply) :
        /\ user' = [user EXCEPT ![f] = then.next]
        /\ shown' = [shown EXCEPT ![f] = Show(f, then.shown)]
        /\ active' = CASE then.map = "remember" -> Remember(active, f)
                       [] then.map = "forget"   -> Forget(active, {f})
                       [] OTHER                 -> active
        /\ restorer' = IF then.map = "forget" THEN Unvisit(restorer, {f}) ELSE restorer
  BY DEF Continue
<1>2. /\ then.next \in UserStates /\ then.next.at \in {"idle", "call"}
      /\ then.next.at = "call" => then.next.cmd \in Commands
      /\ then.shown \in TreeStates
      /\ \/ then.map = "remember" /\ user[f].cmd = "start" /\ reply = "ok" /\ then.shown = "running"
         \/ then.map = "forget" /\ ~(user[f].cmd = "start" /\ reply = "ok")
         \/ then.map = "keep" /\ reply = "error" /\ then.shown = "error"
      /\ then.shown = "stopped" => user[f].cmd = "stop" /\ reply = "ok"
      /\ then.shown = "removed" => then.map = "forget" /\ then.next.at = "idle"
  BY <1>1, AfterFacts
<1>3. /\ user' \in [Feeds -> UserStates] /\ user'[f] = then.next
      /\ \A g \in Feeds \ {f} : user'[g] = user[g]
  BY <1>1, <1>2 DEF CallerTypes
<1>4. /\ shown' \in [Feeds -> TreeStates] /\ shown'[f] = Show(f, then.shown)
      /\ \A g \in Feeds \ {f} : shown'[g] = shown[g]
  BY <1>1, <1>2 DEF CallerTypes, Show, TreeStates
<1>5. /\ then.map = "remember" => active' = active \cup {f}
      /\ then.map = "forget" => active' = active \ {f}
      /\ then.map = "keep" => active' = active
  BY <1>1 DEF Remember, Forget
<1>6. active' \subseteq Feeds /\ \A g \in Feeds \ {f} : g \in active' <=> g \in active
  BY <1>2, <1>5 DEF CallerTypes
<1>7. WentOn(f, reply) BY <1>2, <1>3, <1>4, <1>5 DEF WentOn, Show
<1>8. restorer' \in [Restorers -> Loops] /\ \A r \in Restorers : Kept(restorer[r], restorer'[r])
  BY <1>1, UnvisitKeeps DEF CallerTypes, Kept
<1>9. QED BY <1>3, <1>4, <1>6, <1>7, <1>8

LEMMA FailAllFacts ==
  ASSUME CallerTypes,
         NEW failing \in SUBSET Feeds, \A f \in failing : user[f].cmd \in Commands,
         NEW ending, NEW news, \A f \in Feeds : news[f] \in TreeStates,
         NEW loops \in [Restorers -> Loops],
         FailAll(failing, ending, news, loops)
  PROVE  /\ user' \in [Feeds -> UserStates] /\ shown' \in [Feeds -> TreeStates]
         /\ active' \subseteq active /\ restorer' \in [Restorers -> Loops]
         /\ \A f \in failing : WentOn(f, "error")
         /\ \A g \in Feeds \ failing :
              user'[g] = user[g] /\ shown'[g] = Show(g, news[g]) /\ (g \in active' <=> g \in active)
         /\ \A r \in Restorers : Kept(IF r \in ending THEN AtRest ELSE loops[r], restorer'[r])
<1>1. PICK then \in [failing -> UNION {After(user[f].cmd, "error") : f \in failing}] :
        /\ \A f \in failing : then[f] \in After(user[f].cmd, "error")
        /\ user' = [f \in Feeds |-> IF f \in failing THEN then[f].next ELSE user[f]]
        /\ shown' = [f \in Feeds |-> Show(f, IF f \in failing THEN then[f].shown ELSE news[f])]
        /\ active' = Forget(active, {f \in failing : then[f].map = "forget"})
        /\ restorer' = Unvisit([r \in Restorers |-> IF r \in ending THEN AtRest ELSE loops[r]],
                               {f \in failing : then[f].map = "forget"})
  BY DEF FailAll
<1>2. \A f \in failing :
        /\ then[f].next \in UserStates /\ then[f].next.at \in {"idle", "call"}
        /\ then[f].next.at = "call" => then[f].next.cmd \in Commands
        /\ then[f].shown \in TreeStates
        /\ \/ then[f].map = "forget"
           \/ then[f].map = "keep" /\ then[f].shown = "error"
        /\ then[f].shown # "stopped"
        /\ then[f].shown = "removed" => then[f].map = "forget" /\ then[f].next.at = "idle"
  <2> SUFFICES ASSUME NEW f \in failing
               PROVE  /\ then[f].next \in UserStates /\ then[f].next.at \in {"idle", "call"}
                      /\ then[f].next.at = "call" => then[f].next.cmd \in Commands
                      /\ then[f].shown \in TreeStates
                      /\ \/ then[f].map = "forget"
                         \/ then[f].map = "keep" /\ then[f].shown = "error"
                      /\ then[f].shown # "stopped"
                      /\ then[f].shown = "removed" => then[f].map = "forget" /\ then[f].next.at = "idle"
    OBVIOUS
  <2>1. then[f] \in After(user[f].cmd, "error") /\ user[f].cmd \in Commands BY <1>1
  <2> HIDE <1>1
  <2>2. QED BY <2>1, AfterFacts
<1>3. /\ user' \in [Feeds -> UserStates] /\ \A f \in failing : user'[f] = then[f].next
      /\ \A g \in Feeds \ failing : user'[g] = user[g]
  BY <1>1, <1>2 DEF CallerTypes
<1>4. /\ shown' \in [Feeds -> TreeStates] /\ \A f \in failing : shown'[f] = Show(f, then[f].shown)
      /\ \A g \in Feeds \ failing : shown'[g] = Show(g, news[g])
  BY <1>1, <1>2 DEF CallerTypes, Show, TreeStates
<1>5. /\ active' \subseteq active
      /\ \A f \in failing : f \in active' <=> f \in active /\ then[f].map # "forget"
      /\ \A g \in Feeds \ failing : g \in active' <=> g \in active
  BY <1>1 DEF Forget
<1>6. ASSUME NEW f \in failing PROVE WentOn(f, "error")
  BY <1>2, <1>3, <1>4, <1>5, <1>6 DEF WentOn, Show
<1>7. restorer' \in [Restorers -> Loops]
      /\ \A r \in Restorers : Kept(IF r \in ending THEN AtRest ELSE loops[r], restorer'[r])
  <2> DEFINE before == [r \in Restorers |-> IF r \in ending THEN AtRest ELSE loops[r]]
  <2>1. AtRest \in Loops BY DEF AtRest, Loops, None
  <2>2. before \in [Restorers -> Loops] BY <2>1
  <2>3. \A r \in Restorers : before[r] = IF r \in ending THEN AtRest ELSE loops[r] OBVIOUS
  <2>4. restorer' = Unvisit(before, {f \in failing : then[f].map = "forget"}) BY <1>1
  <2> HIDE DEF before
  <2>5. QED BY <2>2, <2>3, <2>4, UnvisitKeeps
<1>8. QED BY <1>3, <1>4, <1>5, <1>6, <1>7

\* A caller that awaits an answer awaits it from the client.
GoodCall(caller) ==
  /\ caller.at # "idle" => caller.cmd \in Commands
  /\ caller.at = "answer" => caller.on = client /\ client # None
GoodLoop(loop) ==
  /\ loop.at = "answer" => loop.on = client /\ client # None /\ \E f \in Feeds : loop.feed = {f}
  /\ loop.at = "launch" => loop.visited = {}

Callers == (\A f \in Feeds : GoodCall(user[f])) /\ \A r \in Restorers : GoodLoop(restorer[r])

\* An answer is that of the request its caller awaits, and of no other's.
Answering ==
  /\ client = None => Len(pipe) = 0
  /\ \A i \in 1..Len(pipe) :
       /\ pipe[i].by \in Feeds =>
            /\ user[pipe[i].by].at = "answer"
            /\ pipe[i].feed = pipe[i].by /\ pipe[i].method = Method(user[pipe[i].by].cmd)
       /\ pipe[i].by \in Restorers =>
            /\ restorer[pipe[i].by].at = "answer" /\ restorer[pipe[i].by].feed = {pipe[i].feed}
            /\ pipe[i].method = "start"
       /\ \A j \in 1..Len(pipe) : pipe[i].by = pipe[j].by /\ pipe[i].by # Nobody => i = j

CallInv == CallerTypes /\ Callers /\ Answering

\* The answers in new are those in old but the first d; some may be nobody's by now.
Remain(old, new, d) ==
  \A i \in 1..Len(new) :
    /\ i + d \in 1..Len(old)
    /\ new[i].feed = old[i + d].feed /\ new[i].method = old[i + d].method
    /\ new[i].reply = old[i + d].reply
    /\ new[i].by = old[i + d].by \/ new[i].by = Nobody

Awaited(caller, answers) == \E i \in 1..Len(answers) : answers[i].by = caller

\* A step that takes answers out of the pipe, and lets the callers go on whose answers
\* are not in it any more.
LEMMA CallsKept ==
  ASSUME CallInv, CallerTypes', client' = client, NEW d \in {0, 1}, Remain(pipe, pipe', d),
         \A f \in Feeds : \/ user'[f] = user[f]
                          \/ GoodCall(user'[f]) /\ ~Awaited(f, pipe'),
         \A r \in Restorers : \/ Kept(restorer[r], restorer'[r])
                              \/ GoodLoop(restorer'[r]) /\ ~Awaited(r, pipe')
  PROVE  CallInv'
<1> USE BackendAssumption DEF CallInv
<1>1. Len(pipe) \in Nat /\ Len(pipe') \in Nat BY DEF CallerTypes
<1>2. Callers'
  <2>1. ASSUME NEW f \in Feeds PROVE GoodCall(user[f])'
    BY DEF Callers, GoodCall
  <2>2. ASSUME NEW r \in Restorers PROVE GoodLoop(restorer[r])'
    BY DEF Callers, GoodLoop, Kept
  <2>3. QED BY <2>1, <2>2 DEF Callers
<1>3. Answering'
  <2>1. client' = None => Len(pipe') = 0
    <3>1. CASE client # None BY <3>1
    <3>2. CASE Len(pipe) = 0
      <4>1. \A i \in 1..Len(pipe') : FALSE BY <1>1, <3>2 DEF Remain
      <4>2. QED BY <1>1, <4>1
    <3>3. QED BY <3>1, <3>2 DEF Answering
  <2>2. ASSUME NEW i \in 1..Len(pipe'), pipe'[i].by \in Feeds
        PROVE  /\ user'[pipe'[i].by].at = "answer"
               /\ pipe'[i].feed = pipe'[i].by /\ pipe'[i].method = Method(user'[pipe'[i].by].cmd)
    <3>1. pipe'[i].by # Nobody BY <2>2
    <3>2. i + d \in 1..Len(pipe) /\ pipe[i + d].by = pipe'[i].by BY <2>2, <3>1 DEF Remain
    <3>3. user'[pipe'[i].by] = user[pipe'[i].by] BY <2>2 DEF Awaited
    <3>4. QED BY <2>2, <3>2, <3>3 DEF Remain, Answering
  <2>3. ASSUME NEW i \in 1..Len(pipe'), pipe'[i].by \in Restorers
        PROVE  /\ restorer'[pipe'[i].by].at = "answer" /\ restorer'[pipe'[i].by].feed = {pipe'[i].feed}
               /\ pipe'[i].method = "start"
    <3>1. pipe'[i].by # Nobody BY <2>3
    <3>2. i + d \in 1..Len(pipe) /\ pipe[i + d].by = pipe'[i].by BY <2>3, <3>1 DEF Remain
    <3>3. Kept(restorer[pipe'[i].by], restorer'[pipe'[i].by]) BY <2>3 DEF Awaited
    <3>4. /\ restorer[pipe'[i].by].at = "answer" /\ restorer[pipe'[i].by].feed = {pipe[i + d].feed}
          /\ pipe[i + d].method = "start"
      BY <2>3, <3>2 DEF Answering
    <3>5. pipe'[i].feed = pipe[i + d].feed /\ pipe'[i].method = pipe[i + d].method BY DEF Remain
    <3>6. QED BY <3>3, <3>4, <3>5 DEF Kept
  <2>4. ASSUME NEW i \in 1..Len(pipe'), NEW j \in 1..Len(pipe'),
               pipe'[i].by = pipe'[j].by, pipe'[i].by # Nobody
        PROVE  i = j
    <3>1. /\ i + d \in 1..Len(pipe) /\ pipe[i + d].by = pipe'[i].by
          /\ j + d \in 1..Len(pipe) /\ pipe[j + d].by = pipe'[j].by
      BY <2>4 DEF Remain
    <3>2. i + d = j + d BY <2>4, <3>1 DEF Answering
    <3>3. QED BY <1>1, <3>2
  <2>5. QED BY <2>1, <2>2, <2>3, <2>4 DEF Answering
<1>4. QED BY <1>2, <1>3

LEMMA NoneAwaited ==
  ASSUME CallInv
  PROVE  /\ \A f \in Feeds : user[f].at # "answer" => ~Awaited(f, pipe)
         /\ \A r \in Restorers : restorer[r].at # "answer" => ~Awaited(r, pipe)
         /\ Remain(pipe, pipe, 0)
BY DEF CallInv, Answering, Awaited, Remain, CallerTypes

LEMMA TailRemains ==
  ASSUME CallerTypes, pipe # <<>>
  PROVE  /\ Tail(pipe) \in Seq(Answers) /\ Len(Tail(pipe)) = Len(pipe) - 1
         /\ 1 \in 1..Len(pipe) /\ pipe[1] \in Answers
         /\ \A i \in 1..Len(Tail(pipe)) : i + 1 \in 1..Len(pipe) /\ Tail(pipe)[i] = pipe[i + 1]
         /\ Remain(pipe, Tail(pipe), 1)
<1>1. Len(pipe) \in Nat /\ Len(pipe) # 0 BY DEF CallerTypes
<1>2. Tail(pipe) \in Seq(Answers) /\ Len(Tail(pipe)) = Len(pipe) - 1 BY DEF CallerTypes
<1>3. 1 \in 1..Len(pipe) /\ pipe[1] \in Answers BY <1>1 DEF CallerTypes
<1>4. \A i \in 1..Len(Tail(pipe)) : i + 1 \in 1..Len(pipe) /\ Tail(pipe)[i] = pipe[i + 1]
  BY <1>1, <1>2 DEF CallerTypes
<1>5. QED BY <1>2, <1>3, <1>4 DEF Remain

\* The caller of the first answer has no other in the pipe.
LEMMA FromPipeFacts ==
  ASSUME CallInv, NEW caller, caller # Nobody, FromPipe(caller)
  PROVE  /\ pipe' \in Seq(Answers) /\ Remain(pipe, pipe', 1) /\ ~Awaited(caller, pipe')
<1>1. pipe # <<>> /\ pipe[1].by = caller /\ pipe' = Tail(pipe) BY DEF FromPipe
<1>2. ~Awaited(caller, Tail(pipe))
  <2> SUFFICES ASSUME NEW i \in 1..Len(Tail(pipe)), Tail(pipe)[i].by = caller PROVE FALSE
    BY DEF Awaited
  <2>1. i + 1 \in 1..Len(pipe) /\ Tail(pipe)[i] = pipe[i + 1] /\ 1 \in 1..Len(pipe)
    BY <1>1, TailRemains DEF CallInv
  <2>2. i + 1 = 1 BY <1>1, <2>1 DEF CallInv, Answering
  <2>3. QED BY <2>2
<1>3. QED BY <1>1, <1>2, TailRemains DEF CallInv

LEMMA LaunchFailsFacts ==
  ASSUME CallInv, NEW k \in Servers, LaunchFails(k)
  PROVE  /\ CallerTypes' /\ client' = client /\ pipe' = pipe /\ held' = held
         /\ \A f \in Feeds :
              \/ user[f].at = "launch" /\ WentOn(f, "error")
              \/ user'[f] = user[f] /\ shown'[f] = shown[f] /\ (f \in active' <=> f \in active)
         /\ active' \subseteq active
         /\ \A r \in Restorers : Kept(IF r \in LaunchersOf(k) THEN AtRest ELSE restorer[r], restorer'[r])
<1> DEFINE failing == {f \in Feeds : user[f].at = "launch" /\ user[f].on = k}
<1>1. FailAll(failing, LaunchersOf(k), shown, restorer) /\ UNCHANGED <<client, held, pipe>>
  BY DEF LaunchFails
<1>2. failing \in SUBSET Feeds /\ \A f \in failing : user[f].cmd \in Commands /\ user[f].at = "launch"
  BY DEF CallInv, Callers, GoodCall
<1>3. CallerTypes /\ (\A f \in Feeds : shown[f] \in TreeStates) /\ restorer \in [Restorers -> Loops]
  BY DEF CallInv, CallerTypes
<1> HIDE DEF failing
<1>4. /\ user' \in [Feeds -> UserStates] /\ shown' \in [Feeds -> TreeStates]
      /\ active' \subseteq active /\ restorer' \in [Restorers -> Loops]
      /\ \A f \in failing : WentOn(f, "error")
      /\ \A g \in Feeds \ failing :
           user'[g] = user[g] /\ shown'[g] = Show(g, shown[g]) /\ (g \in active' <=> g \in active)
      /\ \A r \in Restorers : Kept(IF r \in LaunchersOf(k) THEN AtRest ELSE restorer[r], restorer'[r])
  BY <1>1, <1>2, <1>3, FailAllFacts
<1>5. CallerTypes' BY <1>1, <1>3, <1>4 DEF CallerTypes
<1>6. QED BY <1>1, <1>2, <1>4, <1>5 DEF Show

LEMMA LaunchFailsKeepsCalls ==
  ASSUME CallInv, NEW k \in Servers, LaunchFails(k) PROVE CallInv'
<1>1. /\ CallerTypes' /\ client' = client /\ pipe' = pipe
      /\ \A f \in Feeds : \/ user[f].at = "launch" /\ WentOn(f, "error")
                          \/ user'[f] = user[f]
      /\ \A r \in Restorers : Kept(IF r \in LaunchersOf(k) THEN AtRest ELSE restorer[r], restorer'[r])
  BY LaunchFailsFacts
<1>2. \A f \in Feeds : user'[f] = user[f] \/ (GoodCall(user'[f]) /\ ~Awaited(f, pipe'))
  <2> SUFFICES ASSUME NEW f \in Feeds, user'[f] # user[f] PROVE GoodCall(user'[f]) /\ ~Awaited(f, pipe')
    OBVIOUS
  <2>1. user[f].at = "launch" /\ WentOn(f, "error") BY <1>1
  <2>2. QED BY <1>1, <2>1, NoneAwaited DEF WentOn, GoodCall
<1>3. \A r \in Restorers : Kept(restorer[r], restorer'[r]) \/ (GoodLoop(restorer'[r]) /\ ~Awaited(r, pipe'))
  <2> SUFFICES ASSUME NEW r \in Restorers, r \in LaunchersOf(k) PROVE GoodLoop(restorer'[r]) /\ ~Awaited(r, pipe')
    BY <1>1
  <2>1. restorer[r].at = "launch" /\ Kept(AtRest, restorer'[r]) BY <1>1 DEF LaunchersOf
  <2>2. QED BY <1>1, <2>1, NoneAwaited DEF Kept, AtRest, GoodLoop
<1>4. Remain(pipe, pipe', 0) BY <1>1, NoneAwaited
<1>5. QED BY <1>1, <1>2, <1>3, <1>4, CallsKept

LEMMA SpawnedKeepsCalls ==
  ASSUME LaunchInv, CallInv, NEW k \in Servers, Spawned(k) PROVE CallInv'
<1>1. CASE LaunchFails(k) BY <1>1, LaunchFailsKeepsCalls
<1>2. CASE ~LaunchFails(k)
  <2>1. ~Superseded(k) /\ launch[k] = "spawn" /\ client' = k /\ UNCHANGED <<active, held, user, restorer, pipe, shown>>
    BY <1>2 DEF Spawned
  <2>2. client = None BY <2>1 DEF LaunchInv, OneLaunch, Superseded, Young
  <2>3. k # None BY DEF Servers, None
  <2>4. CallerTypes' BY <2>1 DEF CallInv, CallerTypes
  <2>5. Callers' BY <2>1, <2>2 DEF CallInv, Callers, GoodCall, GoodLoop
  <2>6. Answering' BY <2>1, <2>3 DEF CallInv, Answering
  <2>7. QED BY <2>4, <2>5, <2>6 DEF CallInv
<1>3. QED BY <1>1, <1>2

LEMMA HandshakeOkKeepsCalls ==
  ASSUME LaunchInv, CallInv, NEW k \in Servers, HandshakeOk(k) PROVE CallInv'
<1>1. client = k /\ k # None BY DEF HandshakeOk, LaunchInv, OneLaunch, Servers, None
<1>2. UNCHANGED <<client, active, held, pipe, shown>> BY DEF HandshakeOk
<1>3. user' = [f \in Feeds |-> IF user[f].at = "launch" /\ user[f].on = k THEN [user[f] EXCEPT !.at = "answer"] ELSE user[f]]
  BY DEF HandshakeOk
<1>4. PICK next \in [LaunchersOf(k) -> UNION {NextFeed(restorer[r], active) : r \in LaunchersOf(k)}] :
        /\ \A r \in LaunchersOf(k) : next[r] \in NextFeed(restorer[r], active)
        /\ restorer' = [r \in Restorers |-> IF r \in LaunchersOf(k) THEN next[r] ELSE restorer[r]]
  BY DEF HandshakeOk
<1>5. ASSUME NEW f \in Feeds
      PROVE  /\ user'[f] \in UserStates
             /\ \/ user'[f] = user[f]
                \/ GoodCall(user'[f]) /\ ~Awaited(f, pipe')
  <2>1. user[f] \in UserStates /\ GoodCall(user[f]) BY DEF CallInv, CallerTypes, Callers
  <2>2. CASE user[f].at = "launch" /\ user[f].on = k
    <3>1. user'[f] = [user[f] EXCEPT !.at = "answer"] BY <1>3, <2>2
    <3>2. GoodCall(user'[f]) BY <1>1, <2>1, <2>2, <3>1 DEF GoodCall, UserStates
    <3>3. user'[f] \in UserStates BY <2>1, <3>1 DEF UserStates
    <3>4. QED BY <1>2, <2>2, <3>2, <3>3, NoneAwaited
  <2>3. CASE ~(user[f].at = "launch" /\ user[f].on = k) BY <1>3, <2>1, <2>3
  <2>4. QED BY <2>2, <2>3
<1>6. ASSUME NEW r \in Restorers
      PROVE  /\ restorer'[r] \in Loops
             /\ \/ Kept(restorer[r], restorer'[r])
                \/ GoodLoop(restorer'[r]) /\ ~Awaited(r, pipe')
  <2>1. restorer[r] \in Loops /\ active \in SUBSET Feeds BY DEF CallInv, CallerTypes
  <2>2. CASE r \in LaunchersOf(k)
    <3>1. restorer'[r] \in NextFeed(restorer[r], active) BY <1>4, <2>2
    <3>2. restorer[r].at = "launch" /\ restorer[r].on = k BY <2>2 DEF LaunchersOf
    <3>3. restorer'[r] \in Loops /\ GoodLoop(restorer'[r])
      BY <1>1, <2>1, <3>1, <3>2, NextFeedFacts DEF GoodLoop, AtRest
    <3>4. QED BY <1>2, <3>2, <3>3, NoneAwaited
  <2>3. CASE r \notin LaunchersOf(k) BY <1>4, <2>1, <2>3 DEF Kept
  <2>4. QED BY <2>2, <2>3
<1>7. CallerTypes'
  <2>1. user' \in [Feeds -> UserStates]
    <3>1. user' = [f \in Feeds |-> user'[f]] BY <1>3
    <3>2. QED BY <1>5, <3>1
  <2>2. restorer' \in [Restorers -> Loops]
    <3>1. restorer' = [r \in Restorers |-> restorer'[r]] BY <1>4
    <3>2. QED BY <1>6, <3>1
  <2>3. QED BY <1>2, <2>1, <2>2 DEF CallInv, CallerTypes
<1>8. Remain(pipe, pipe', 0) BY <1>2, NoneAwaited
<1>9. QED BY <1>2, <1>5, <1>6, <1>7, <1>8, CallsKept

\* What the end of the client shows for a feed whose command did not wait for it.
News(k, noted, f) ==
  IF f \in Unrestored(k) THEN "error" ELSE IF f \in active /\ noted # "none" THEN noted ELSE shown[f]

LEMMA CloseClientFacts ==
  ASSUME CallInv, NEW k \in Servers, client = k, NEW noted \in {"none", "starting", "error"},
         NEW loops \in [Restorers -> Loops], CloseClient(k, noted, loops)
  PROVE  /\ client' = None /\ pipe' \in Seq(Answers) /\ Len(pipe') = 0
         /\ user' \in [Feeds -> UserStates] /\ shown' \in [Feeds -> TreeStates]
         /\ active' \subseteq active /\ restorer' \in [Restorers -> Loops]
         /\ \A f \in Feeds :
              \/ WentOn(f, "error") /\ user[f].at \in {"launch", "answer"}
              \/ /\ user[f].at # "answer" /\ user'[f] = user[f]
                 /\ shown'[f] = Show(f, News(k, noted, f)) /\ (f \in active' <=> f \in active)
         /\ \A r \in Restorers :
              \/ Waits(restorer[r], k) /\ Kept(AtRest, restorer'[r])
              \/ ~Waits(restorer[r], k) /\ restorer[r].at # "answer" /\ Kept(loops[r], restorer'[r])
<1> DEFINE failing == {f \in Feeds : Waits(user[f], k)}
           ending == {r \in Restorers : Waits(restorer[r], k)}
           news == [f \in Feeds |-> News(k, noted, f)]
<1>1. client' = None /\ pipe' = <<>> /\ FailAll(failing, ending, news, loops)
  BY DEF CloseClient, News
<1>2. /\ failing \in SUBSET Feeds
      /\ \A f \in failing : user[f].cmd \in Commands /\ user[f].at \in {"launch", "answer"}
      /\ \A f \in Feeds \ failing : user[f].at # "answer"
      /\ \A r \in Restorers \ ending : restorer[r].at # "answer"
      /\ \A r \in Restorers : r \in ending <=> Waits(restorer[r], k)
  BY DEF CallInv, Callers, GoodCall, GoodLoop, Waits
<1>3. CallerTypes /\ \A f \in Feeds : news[f] \in TreeStates /\ news[f] = News(k, noted, f)
  BY DEF CallInv, CallerTypes, News, TreeStates
<1> HIDE DEF failing, ending, news
<1>4. /\ user' \in [Feeds -> UserStates] /\ shown' \in [Feeds -> TreeStates]
      /\ active' \subseteq active /\ restorer' \in [Restorers -> Loops]
      /\ \A f \in failing : WentOn(f, "error")
      /\ \A g \in Feeds \ failing :
           user'[g] = user[g] /\ shown'[g] = Show(g, news[g]) /\ (g \in active' <=> g \in active)
      /\ \A r \in Restorers : Kept(IF r \in ending THEN AtRest ELSE loops[r], restorer'[r])
  BY <1>1, <1>2, <1>3, FailAllFacts
<1>5. ASSUME NEW f \in Feeds
      PROVE  \/ WentOn(f, "error") /\ user[f].at \in {"launch", "answer"}
             \/ /\ user[f].at # "answer" /\ user'[f] = user[f]
                /\ shown'[f] = Show(f, News(k, noted, f)) /\ (f \in active' <=> f \in active)
  <2>1. CASE f \in failing BY <1>2, <1>4, <2>1
  <2>2. CASE f \notin failing BY <1>2, <1>3, <1>4, <2>2
  <2>3. QED BY <2>1, <2>2
<1>6. ASSUME NEW r \in Restorers
      PROVE  \/ Waits(restorer[r], k) /\ Kept(AtRest, restorer'[r])
             \/ ~Waits(restorer[r], k) /\ restorer[r].at # "answer" /\ Kept(loops[r], restorer'[r])
  BY <1>2, <1>4
<1>7. QED BY <1>1, <1>4, <1>5, <1>6

\* The same of restart() and dispose(), which notify nothing.
LEMMA QuietlyFacts ==
  ASSUME LaunchInv, CallInv, NEW loops \in [Restorers -> Loops], Quietly(loops)
  PROVE  /\ client' = None /\ pipe' \in Seq(Answers) /\ Len(pipe') = 0
         /\ user' \in [Feeds -> UserStates] /\ shown' \in [Feeds -> TreeStates]
         /\ active' \subseteq active /\ restorer' \in [Restorers -> Loops]
         /\ \A f \in Feeds :
              \/ WentOn(f, "error") /\ user[f].at \in {"launch", "answer"}
              \/ /\ user[f].at # "answer" /\ user'[f] = user[f]
                 /\ shown'[f] \in {shown[f], Show(f, "error")} /\ (f \in active' <=> f \in active)
         /\ \A r \in Restorers :
              \/ restorer[r].at # "idle" /\ Kept(AtRest, restorer'[r])
              \/ restorer[r].at # "answer" /\ Kept(loops[r], restorer'[r])
<1>1. CASE client = None
  <2> DEFINE nobody == {}
  <2>1. FailAll(nobody, nobody, shown, loops) /\ client' = None /\ pipe' = pipe BY <1>1 DEF Quietly
  <2>2. /\ CallerTypes /\ \A f \in Feeds : shown[f] \in TreeStates
        /\ nobody \in SUBSET Feeds /\ \A f \in nobody : user[f].cmd \in Commands
        /\ \A x : x \notin nobody
    BY DEF CallInv, CallerTypes
  <2> HIDE DEF nobody
  <2>3. /\ user' \in [Feeds -> UserStates] /\ shown' \in [Feeds -> TreeStates]
        /\ active' \subseteq active /\ restorer' \in [Restorers -> Loops]
        /\ \A g \in Feeds \ nobody :
             user'[g] = user[g] /\ shown'[g] = Show(g, shown[g]) /\ (g \in active' <=> g \in active)
        /\ \A r \in Restorers : Kept(IF r \in nobody THEN AtRest ELSE loops[r], restorer'[r])
    BY <2>1, <2>2, FailAllFacts
  <2>4. /\ \A f \in Feeds : user[f].at # "answer"
        /\ \A r \in Restorers : restorer[r].at # "answer"
        /\ pipe' \in Seq(Answers) /\ Len(pipe') = 0
    BY <1>1, <2>1 DEF CallInv, CallerTypes, Callers, GoodCall, GoodLoop, Answering
  <2>5. QED BY <2>1, <2>2, <2>3, <2>4 DEF Show
<1>2. CASE client # None
  <2>1. CloseClient(client, "none", loops) /\ client \in Servers
    BY <1>2 DEF Quietly, LaunchInv, LaunchTypes
  <2>2. /\ client' = None /\ pipe' \in Seq(Answers) /\ Len(pipe') = 0
        /\ user' \in [Feeds -> UserStates] /\ shown' \in [Feeds -> TreeStates]
        /\ active' \subseteq active /\ restorer' \in [Restorers -> Loops]
        /\ \A f \in Feeds :
             \/ WentOn(f, "error") /\ user[f].at \in {"launch", "answer"}
             \/ /\ user[f].at # "answer" /\ user'[f] = user[f]
                /\ shown'[f] = Show(f, News(client, "none", f)) /\ (f \in active' <=> f \in active)
        /\ \A r \in Restorers :
             \/ Waits(restorer[r], client) /\ Kept(AtRest, restorer'[r])
             \/ ~Waits(restorer[r], client) /\ restorer[r].at # "answer" /\ Kept(loops[r], restorer'[r])
    BY <2>1, CloseClientFacts
  <2>3. \A f \in Feeds : News(client, "none", f) \in {"error", shown[f]} BY DEF News
  <2>4. \A f \in Feeds : Show(f, News(client, "none", f)) \in {shown[f], Show(f, "error")}
    BY <2>3 DEF Show
  <2>5. \A r \in Restorers : Waits(restorer[r], client) => restorer[r].at # "idle" BY DEF Waits
  <2>6. QED BY <2>2, <2>4, <2>5
<1>3. QED BY <1>1, <1>2

\* Nobody awaits an answer when there is no client.
LEMMA CloseKeepsCalls ==
  ASSUME CallInv, CallerTypes', client' = None, Len(pipe') = 0,
         \A f \in Feeds : \/ WentOn(f, "error")
                          \/ user[f].at # "answer" /\ user'[f] = user[f],
         \A r \in Restorers :
           restorer'[r].at # "answer" /\ (restorer'[r].at = "launch" => restorer'[r].visited = {})
  PROVE  CallInv'
<1>1. Callers' BY DEF CallInv, Callers, GoodCall, GoodLoop, WentOn
<1>2. Answering' BY DEF Answering
<1>3. QED BY <1>1, <1>2 DEF CallInv

LEMMA ClientEndKeepsCalls ==
  ASSUME LaunchInv, CallInv, NEW k \in Servers, client = k, held' = held,
         NEW restartBackend \in BOOLEAN, HandleClose(k, restartBackend)
  PROVE  CallInv'
<1>1. PICK noted \in {"none", "starting", "error"} : CloseClient(k, noted, restorer)
  BY DEF HandleClose
<1>2. restorer \in [Restorers -> Loops] BY DEF CallInv, CallerTypes
<1>3. /\ client' = None /\ pipe' \in Seq(Answers) /\ Len(pipe') = 0
      /\ user' \in [Feeds -> UserStates] /\ shown' \in [Feeds -> TreeStates]
      /\ active' \subseteq active /\ restorer' \in [Restorers -> Loops]
      /\ \A f \in Feeds :
           \/ WentOn(f, "error") /\ user[f].at \in {"launch", "answer"}
           \/ /\ user[f].at # "answer" /\ user'[f] = user[f]
              /\ shown'[f] = Show(f, News(k, noted, f)) /\ (f \in active' <=> f \in active)
      /\ \A r \in Restorers :
           \/ Waits(restorer[r], k) /\ Kept(AtRest, restorer'[r])
           \/ ~Waits(restorer[r], k) /\ restorer[r].at # "answer" /\ Kept(restorer[r], restorer'[r])
  BY <1>1, <1>2, CloseClientFacts
<1>4. CallerTypes' BY <1>3 DEF CallInv, CallerTypes
<1>5. \A r \in Restorers :
        restorer'[r].at # "answer" /\ (restorer'[r].at = "launch" => restorer'[r].visited = {})
  BY <1>3 DEF Kept, AtRest, CallInv, Callers, GoodLoop
<1>6. QED BY <1>3, <1>4, <1>5, CloseKeepsCalls

LEMMA DisposeKeepsCalls == ASSUME LaunchInv, CallInv, Dispose PROVE CallInv'
<1>1. Quietly(restorer) /\ held' = held BY DEF Dispose
<1>2. restorer \in [Restorers -> Loops] BY DEF CallInv, CallerTypes
<1>3. /\ client' = None /\ pipe' \in Seq(Answers) /\ Len(pipe') = 0
      /\ user' \in [Feeds -> UserStates] /\ shown' \in [Feeds -> TreeStates]
      /\ active' \subseteq active /\ restorer' \in [Restorers -> Loops]
      /\ \A f \in Feeds :
           \/ WentOn(f, "error") /\ user[f].at \in {"launch", "answer"}
           \/ /\ user[f].at # "answer" /\ user'[f] = user[f]
              /\ shown'[f] \in {shown[f], Show(f, "error")} /\ (f \in active' <=> f \in active)
      /\ \A r \in Restorers :
           \/ restorer[r].at # "idle" /\ Kept(AtRest, restorer'[r])
           \/ restorer[r].at # "answer" /\ Kept(restorer[r], restorer'[r])
  BY <1>1, <1>2, QuietlyFacts
<1>4. CallerTypes' BY <1>1, <1>3 DEF CallInv, CallerTypes
<1>5. \A r \in Restorers :
        restorer'[r].at # "answer" /\ (restorer'[r].at = "launch" => restorer'[r].visited = {})
  BY <1>3 DEF Kept, AtRest, CallInv, Callers, GoodLoop
<1>6. QED BY <1>3, <1>4, <1>5, CloseKeepsCalls

\* A restart with active feeds begins a loop that waits for the launch it begins.
LEMMA RestartFacts ==
  ASSUME LaunchInv, CallInv, NEW r \in Restorers, Restart(r)
  PROVE  \E loops \in [Restorers -> Loops] :
           /\ Quietly(loops) /\ held' = held /\ disposed' = disposed /\ gaveUp' = gaveUp
           /\ restorer[r].at = "idle"
           /\ \A x \in Restorers \ {r} : loops[x] = restorer[x]
           /\ active # {} => /\ loops[r].at = "launch" /\ loops[r].visited = {}
                             /\ loops[r].on = starting' /\ starting' \notin superseded'
           /\ active = {} => loops = restorer
<1>1. CASE active = {}
  <2>1. Quietly(restorer) /\ restorer[r].at = "idle" BY <1>1 DEF Restart, Fresh
  <2>2. restorer \in [Restorers -> Loops] BY DEF CallInv, CallerTypes
  <2>3. QED BY <1>1, <2>1, <2>2 DEF Restart
<1>2. CASE active # {}
  <2> DEFINE loops == [restorer EXCEPT ![r] = Ensured(AtRest, None, None)]
  <2>1. Quietly(loops) /\ restorer[r].at = "idle" BY <1>2 DEF Restart, Fresh
  <2>2. /\ starting' = NewLaunch /\ superseded' = superseded \cup InFlight
        /\ launch' = [IF client # None /\ launch[client] = "handshake" THEN HandshakeEnds(client) ELSE launch
                        EXCEPT ![NewLaunch] = "discover"]
    BY <1>2 DEF Restart
  <2>3. NewLaunch \in Servers
    <3>1. PICK n \in 0..(faults + 1) : \A j \in Servers : launch[j] = "none" <=> j > n
      BY DEF LaunchInv, Counted
    <3>2. n \in 0..MaxFaults BY BackendAssumption DEF Restart, Fault, LaunchInv, LaunchTypes
    <3>3. QED BY <3>1, <3>2, NewLaunchIsNext, BackendAssumption DEF LaunchInv, LaunchTypes
  <2>4. LaunchInv' BY RestartKeepsLaunches
  <2>5. starting' \notin superseded'
    BY <2>2, <2>3, <2>4 DEF LaunchInv, Shared, Restart
  <2>6. Ensured(AtRest, None, None) = [AtRest EXCEPT !.at = "launch", !.on = NewLaunch] BY DEF Ensured
  <2>7. /\ Ensured(AtRest, None, None) \in Loops
        /\ Ensured(AtRest, None, None).at = "launch" /\ Ensured(AtRest, None, None).visited = {}
        /\ Ensured(AtRest, None, None).on = NewLaunch
    BY <2>3, <2>6 DEF AtRest, Loops
  <2>8. restorer \in [Restorers -> Loops] BY DEF CallInv, CallerTypes
  <2>9. /\ loops \in [Restorers -> Loops] /\ loops[r] = Ensured(AtRest, None, None)
        /\ \A x \in Restorers \ {r} : loops[x] = restorer[x]
    BY <2>7, <2>8
  <2>10. held' = held /\ disposed' = disposed /\ gaveUp' = gaveUp BY DEF Restart
  <2> HIDE DEF loops
  <2>11. QED BY <1>2, <2>1, <2>2, <2>5, <2>7, <2>9, <2>10
<1>3. QED BY <1>1, <1>2

LEMMA RestartKeepsCalls ==
  ASSUME LaunchInv, CallInv, NEW r \in Restorers, Restart(r) PROVE CallInv'
<1>1. PICK loops \in [Restorers -> Loops] :
        /\ Quietly(loops) /\ held' = held
        /\ restorer[r].at = "idle"
        /\ \A x \in Restorers \ {r} : loops[x] = restorer[x]
        /\ active # {} => loops[r].at = "launch" /\ loops[r].visited = {}
        /\ active = {} => loops = restorer
  BY RestartFacts
<1>2. /\ client' = None /\ pipe' \in Seq(Answers) /\ Len(pipe') = 0
      /\ user' \in [Feeds -> UserStates] /\ shown' \in [Feeds -> TreeStates]
      /\ active' \subseteq active /\ restorer' \in [Restorers -> Loops]
      /\ \A f \in Feeds :
           \/ WentOn(f, "error") /\ user[f].at \in {"launch", "answer"}
           \/ /\ user[f].at # "answer" /\ user'[f] = user[f]
              /\ shown'[f] \in {shown[f], Show(f, "error")} /\ (f \in active' <=> f \in active)
      /\ \A x \in Restorers :
           \/ restorer[x].at # "idle" /\ Kept(AtRest, restorer'[x])
           \/ restorer[x].at # "answer" /\ Kept(loops[x], restorer'[x])
  BY <1>1, QuietlyFacts
<1>3. CallerTypes' BY <1>1, <1>2 DEF CallInv, CallerTypes
<1>4. ASSUME NEW x \in Restorers
      PROVE  restorer'[x].at # "answer" /\ (restorer'[x].at = "launch" => restorer'[x].visited = {})
  <2>1. CASE Kept(AtRest, restorer'[x]) BY <2>1 DEF Kept, AtRest
  <2>2. CASE restorer[x].at # "answer" /\ Kept(loops[x], restorer'[x])
    <3>1. loops[x] = restorer[x] \/ (loops[x].at = "launch" /\ loops[x].visited = {}) BY <1>1
    <3>2. GoodLoop(restorer[x]) BY DEF CallInv, Callers
    <3>3. QED BY <2>2, <3>1, <3>2 DEF Kept, GoodLoop
  <2>3. QED BY <1>2, <2>1, <2>2
<1>5. QED BY <1>2, <1>3, <1>4, CloseKeepsCalls

LEMMA CallKeepsCalls ==
  ASSUME LaunchInv, CallInv, NEW f \in Feeds, CallBackend(f) PROVE CallInv'
<1>1. user[f].at = "call" /\ UNCHANGED <<client, held, pipe>> BY DEF CallBackend
<1>2. user[f] \in UserStates /\ GoodCall(user[f]) /\ user[f].cmd \in Commands
  BY <1>1 DEF CallInv, CallerTypes, Callers, GoodCall
<1>3. Remain(pipe, pipe', 0) /\ ~Awaited(f, pipe') BY <1>1, NoneAwaited
<1>4. CASE disposed
  <2>1. Continue(f, "error") BY <1>4 DEF CallBackend
  <2>2. /\ user' \in [Feeds -> UserStates] /\ shown' \in [Feeds -> TreeStates]
        /\ active' \subseteq Feeds /\ restorer' \in [Restorers -> Loops]
        /\ WentOn(f, "error")
        /\ \A g \in Feeds \ {f} : user'[g] = user[g]
        /\ \A r \in Restorers : Kept(restorer[r], restorer'[r])
    BY <1>2, <2>1, ContinueFacts DEF CallInv
  <2>3. CallerTypes' BY <1>1, <2>2 DEF CallInv, CallerTypes
  <2>4. GoodCall(user'[f]) BY <2>2 DEF WentOn, GoodCall
  <2>5. QED BY <1>1, <1>3, <2>2, <2>3, <2>4, CallsKept
<1>5. CASE ~disposed
  <2>1. /\ user' = [user EXCEPT ![f] = Ensured(user[f], client, starting)]
        /\ Launched(client, starting) /\ UNCHANGED <<active, restorer, shown>>
    BY <1>5 DEF CallBackend
  <2>2. /\ Ensured(user[f], client, starting) \in UserStates
        /\ GoodCall(Ensured(user[f], client, starting))
    BY <1>2, <2>1 DEF Ensured, Launched, UserStates, GoodCall, LaunchInv, LaunchTypes
  <2>3. CallerTypes' BY <1>1, <2>1, <2>2 DEF CallInv, CallerTypes
  <2>4. GoodCall(user'[f]) /\ \A g \in Feeds \ {f} : user'[g] = user[g]
    BY <2>1, <2>2 DEF CallInv, CallerTypes
  <2>5. \A r \in Restorers : Kept(restorer[r], restorer'[r]) BY <2>1 DEF CallInv, CallerTypes, Kept
  <2>6. QED BY <1>1, <1>3, <2>3, <2>4, <2>5, CallsKept
<1>6. QED BY <1>4, <1>5

\* The timer begins a loop: it waits for a launch, or goes on with the client there is.
LEMMA TimerFacts ==
  ASSUME LaunchInv, CallInv, NEW r \in Restorers, TimerFires(r)
  PROVE  /\ restorer[r].at = "idle" /\ UNCHANGED <<client, active, held, user, pipe, shown>>
         /\ restorer' \in [Restorers -> Loops]
         /\ \A x \in Restorers \ {r} : restorer'[x] = restorer[x]
         /\ client = None => restorer'[r].at = "launch" /\ restorer'[r].byTimer /\ restorer'[r].visited = {}
         /\ client # None =>
              \/ restorer'[r].at = "idle" /\ active = {}
              \/ /\ restorer'[r].at = "answer" /\ restorer'[r].on = client
                 /\ \E f \in active : restorer'[r].feed = {f} /\ restorer'[r].visited = {f}
<1> DEFINE caller == Ensured([AtRest EXCEPT !.byTimer = TRUE], client, starting)
<1>1. restorer[r].at = "idle" /\ UNCHANGED <<client, active, held, user, pipe, shown>>
  BY DEF TimerFires, Fresh
<1>2. PICK next \in IF client # None THEN NextFeed(caller, active) ELSE {caller} :
        restorer' = [restorer EXCEPT ![r] = next]
  BY DEF TimerFires
<1>3. Launched(client, starting) BY DEF TimerFires
<1>4. /\ caller \in Loops /\ caller.byTimer /\ caller.visited = {}
      /\ client # None => caller.at = "answer" /\ caller.on = client
      /\ client = None => caller.at = "launch"
  BY <1>3 DEF Ensured, AtRest, Loops, Launched, LaunchInv, LaunchTypes
<1> HIDE DEF caller
<1>5. restorer \in [Restorers -> Loops] /\ active \in SUBSET Feeds BY DEF CallInv, CallerTypes
<1>6. CASE client = None
  <2>1. next = caller BY <1>2, <1>6
  <2>2. QED BY <1>1, <1>2, <1>4, <1>5, <1>6, <2>1
<1>7. CASE client # None
  <2>1. next \in NextFeed(caller, active) BY <1>2, <1>7
  <2>2. /\ next \in Loops
        /\ \/ next.at = "idle" /\ active = {}
           \/ /\ next.at = "answer" /\ next.on = client
              /\ \E f \in active : next.feed = {f} /\ next.visited = {f}
    BY <1>4, <1>5, <1>7, <2>1, NextFeedFacts DEF AtRest
  <2>3. QED BY <1>1, <1>2, <1>5, <1>7, <2>2
<1>8. QED BY <1>6, <1>7

LEMMA TimerKeepsCalls ==
  ASSUME LaunchInv, CallInv, NEW r \in Restorers, TimerFires(r) PROVE CallInv'
<1>1. /\ restorer[r].at = "idle" /\ UNCHANGED <<client, active, held, user, pipe, shown>>
      /\ restorer' \in [Restorers -> Loops]
      /\ \A x \in Restorers \ {r} : restorer'[x] = restorer[x]
      /\ client = None => restorer'[r].at = "launch" /\ restorer'[r].visited = {}
      /\ client # None =>
           \/ restorer'[r].at = "idle"
           \/ restorer'[r].at = "answer" /\ restorer'[r].on = client
                /\ \E f \in active : restorer'[r].feed = {f}
  BY TimerFacts
<1>2. CallerTypes' /\ restorer \in [Restorers -> Loops] /\ active \subseteq Feeds
  BY <1>1 DEF CallInv, CallerTypes
<1>3. GoodLoop(restorer'[r]) BY <1>1, <1>2 DEF GoodLoop
<1>4. Remain(pipe, pipe', 0) /\ ~Awaited(r, pipe') BY <1>1, NoneAwaited
<1>5. \A x \in Restorers \ {r} : Kept(restorer[x], restorer'[x]) BY <1>1, <1>2 DEF Kept
<1>6. QED BY <1>1, <1>2, <1>3, <1>4, <1>5, CallsKept

\* The server answers a request of a caller none of whose answers is in the pipe.
LEMMA ServeFacts ==
  ASSUME CallInv, NEW caller \in Feeds \cup Restorers, NEW k \in Servers, NEW f \in Feeds,
         NEW method \in {"start", "stop"}, Serve(caller, k, f, method)
  PROVE  \E answer \in Answers :
           /\ answer.by = caller /\ answer.feed = f /\ answer.method = method
           /\ pipe' = Append(pipe, answer) /\ pipe' \in Seq(Answers) /\ Len(pipe') = Len(pipe) + 1
           /\ \A i \in 1..Len(pipe) : pipe'[i] = pipe[i]
           /\ pipe'[Len(pipe) + 1] = answer
           /\ ~Awaited(caller, pipe)
           /\ held' \in [Servers -> SUBSET Feeds]
           /\ answer.reply = "error" => held' = held
           /\ answer.reply = "ok" =>
                /\ (f \in held[k]) <=> (method = "stop")
                /\ (f \in held'[k]) <=> (method = "start")
                /\ \A j \in Servers, g \in Feeds :
                     j # k \/ g # f => (g \in held'[j] <=> g \in held[j])
<1>1. PICK reply \in {"ok", "error"} :
        /\ CASE reply = "ok" /\ method = "start" -> f \notin held[k] /\ held' = [held EXCEPT ![k] = @ \cup {f}]
             [] reply = "ok" /\ method = "stop"  -> f \in held[k] /\ held' = [held EXCEPT ![k] = @ \ {f}]
             [] reply = "error" -> (method = "stop" => f \notin held[k]) /\ UNCHANGED held
        /\ pipe' = Append(pipe, [by |-> caller, feed |-> f, method |-> method, reply |-> reply])
  BY DEF Serve
<1> DEFINE answer == [by |-> caller, feed |-> f, method |-> method, reply |-> reply]
<1>2. /\ answer \in Answers /\ answer.by = caller /\ answer.feed = f /\ answer.method = method
      /\ answer.reply = reply /\ pipe' = Append(pipe, answer)
  BY <1>1 DEF Answers
<1> HIDE DEF answer
<1>3. pipe \in Seq(Answers) /\ held \in [Servers -> SUBSET Feeds] BY DEF CallInv, CallerTypes
<1>4. /\ pipe' \in Seq(Answers) /\ Len(pipe') = Len(pipe) + 1
      /\ \A i \in 1..Len(pipe) : pipe'[i] = pipe[i]
      /\ pipe'[Len(pipe) + 1] = answer
  BY <1>2, <1>3
<1>5. ~Awaited(caller, pipe) BY <1>3 DEF Serve, Awaited
<1>6. CASE reply = "error"
  <2>1. held' = held BY <1>1, <1>6
  <2>2. QED BY <1>2, <1>3, <1>4, <1>5, <1>6, <2>1
<1>7. CASE reply = "ok" /\ method = "start"
  <2>1. f \notin held[k] /\ held' = [held EXCEPT ![k] = held[k] \cup {f}] BY <1>1, <1>7
  <2>2. /\ held' \in [Servers -> SUBSET Feeds] /\ f \in held'[k]
        /\ \A j \in Servers, g \in Feeds : j # k \/ g # f => (g \in held'[j] <=> g \in held[j])
    BY <1>3, <2>1
  <2>3. QED BY <1>2, <1>4, <1>5, <1>7, <2>1, <2>2
<1>8. CASE reply = "ok" /\ method = "stop"
  <2>1. f \in held[k] /\ held' = [held EXCEPT ![k] = held[k] \ {f}] BY <1>1, <1>8
  <2>2. /\ held' \in [Servers -> SUBSET Feeds] /\ f \notin held'[k]
        /\ \A j \in Servers, g \in Feeds : j # k \/ g # f => (g \in held'[j] <=> g \in held[j])
    BY <1>3, <2>1
  <2>3. QED BY <1>2, <1>4, <1>5, <1>8, <2>1, <2>2
<1>9. QED BY <1>1, <1>6, <1>7, <1>8

LEMMA ServeKeepsCalls ==
  ASSUME CallInv, NEW caller \in Feeds \cup Restorers, NEW f \in Feeds,
         NEW method \in {"start", "stop"},
         caller \in Feeds => user[caller].at = "answer" /\ f = caller /\ method = Method(user[caller].cmd),
         caller \in Restorers => restorer[caller].at = "answer" /\ restorer[caller].feed = {f} /\ method = "start",
         client \in Servers, Serve(caller, client, f, method), UNCHANGED <<client, active, user, restorer, shown>>
  PROVE  CallInv'
<1>1. PICK answer \in Answers :
        /\ answer.by = caller /\ answer.feed = f /\ answer.method = method
        /\ pipe' \in Seq(Answers) /\ Len(pipe') = Len(pipe) + 1
        /\ \A i \in 1..Len(pipe) : pipe'[i] = pipe[i]
        /\ pipe'[Len(pipe) + 1] = answer
        /\ ~Awaited(caller, pipe)
        /\ held' \in [Servers -> SUBSET Feeds]
  BY ServeFacts
<1>2. CallerTypes' BY <1>1 DEF CallInv, CallerTypes
<1>3. Callers' BY DEF CallInv, Callers, GoodCall, GoodLoop
<1>4. Len(pipe) \in Nat BY DEF CallInv, CallerTypes
<1>5. Answering'
  <2>1. client' # None BY DEF Servers, None
  <2>2. \A i \in 1..Len(pipe') : \/ i \in 1..Len(pipe) /\ pipe'[i] = pipe[i] /\ pipe[i].by # caller
                                 \/ i = Len(pipe) + 1 /\ pipe'[i] = answer
    BY <1>1, <1>4 DEF Awaited
  <2>3. ASSUME NEW i \in 1..Len(pipe')
        PROVE  /\ pipe'[i].by \in Feeds =>
                    /\ user[pipe'[i].by].at = "answer"
                    /\ pipe'[i].feed = pipe'[i].by /\ pipe'[i].method = Method(user[pipe'[i].by].cmd)
               /\ pipe'[i].by \in Restorers =>
                    /\ restorer[pipe'[i].by].at = "answer" /\ restorer[pipe'[i].by].feed = {pipe'[i].feed}
                    /\ pipe'[i].method = "start"
    BY <1>1, <2>2 DEF CallInv, Answering
  <2>4. ASSUME NEW i \in 1..Len(pipe'), NEW j \in 1..Len(pipe'),
               pipe'[i].by = pipe'[j].by, pipe'[i].by # Nobody
        PROVE  i = j
    BY <1>1, <2>2, <2>4 DEF CallInv, Answering
  <2>5. QED BY <2>1, <2>3, <2>4 DEF Answering
<1>6. QED BY <1>2, <1>3, <1>5 DEF CallInv

LEMMA ServeUserKeepsCalls ==
  ASSUME LaunchInv, CallInv, NEW f \in Feeds, ServeUser(f) PROVE CallInv'
<1>1. /\ user[f].at = "answer" /\ user[f].on = client /\ client # None /\ client \in Servers
      /\ Method(user[f].cmd) \in {"start", "stop"}
  BY DEF ServeUser, CallInv, Callers, GoodCall, LaunchInv, LaunchTypes, Method
<1>2. f \notin Restorers BY BackendAssumption
<1>3. UNCHANGED <<client, active, user, restorer, shown>> BY DEF ServeUser, rest, serviceVars
<1>4. Serve(f, client, f, Method(user[f].cmd)) BY <1>1 DEF ServeUser
<1>5. QED BY <1>1, <1>2, <1>3, <1>4, ServeKeepsCalls

LEMMA ServeRestorerKeepsCalls ==
  ASSUME LaunchInv, CallInv, NEW r \in Restorers, ServeRestorer(r) PROVE CallInv'
<1>1. restorer[r].at = "answer" /\ restorer[r].on = client /\ client # None /\ client \in Servers
  BY DEF ServeRestorer, CallInv, Callers, GoodLoop, LaunchInv, LaunchTypes
<1>2. PICK f \in Feeds : restorer[r].feed = {f} BY <1>1 DEF CallInv, Callers, GoodLoop
<1>3. r \notin Feeds BY BackendAssumption
<1>4. UNCHANGED <<client, active, user, restorer, shown>> BY DEF ServeRestorer, rest, serviceVars
<1>5. Serve(r, client, f, "start") BY <1>1, <1>2 DEF ServeRestorer
<1>6. QED BY <1>1, <1>2, <1>3, <1>4, <1>5, ServeKeepsCalls

LEMMA AbandonFacts ==
  ASSUME CallInv, NEW caller \in Feeds \cup Restorers, NEW f, Abandon(caller, f)
  PROVE  /\ pipe' \in Seq(Answers) /\ Len(pipe') = Len(pipe)
         /\ Remain(pipe, pipe', 0) /\ ~Awaited(caller, pipe')
<1>1. pipe \in Seq(Answers) /\ caller # Nobody BY BackendAssumption DEF CallInv, CallerTypes
<1> DEFINE left(i) == IF pipe[i].by = caller THEN [pipe[i] EXCEPT !.by = Nobody] ELSE pipe[i]
<1>2. ASSUME NEW i \in 1..Len(pipe)
      PROVE  /\ left(i) \in Answers
             /\ left(i).feed = pipe[i].feed /\ left(i).method = pipe[i].method /\ left(i).reply = pipe[i].reply
             /\ left(i).by = (IF pipe[i].by = caller THEN Nobody ELSE pipe[i].by)
  <2>1. pipe[i] \in Answers BY <1>1
  <2> DEFINE a == pipe[i]
  <2>2. a \in Answers BY <2>1
  <2>3. left(i) = IF a.by = caller THEN [a EXCEPT !.by = Nobody] ELSE a OBVIOUS
  <2> HIDE DEF a, left
  <2>4. /\ left(i) \in Answers
        /\ left(i).feed = a.feed /\ left(i).method = a.method /\ left(i).reply = a.reply
        /\ left(i).by = (IF a.by = caller THEN Nobody ELSE a.by)
    BY <2>2, <2>3 DEF Answers
  <2>5. QED BY <2>4 DEF a
<1>3. pipe' = [i \in 1..Len(pipe) |-> left(i)] BY <1>1 DEF Abandon
<1> HIDE DEF left
<1>4. pipe' \in Seq(Answers) /\ Len(pipe') = Len(pipe) /\ \A i \in 1..Len(pipe) : pipe'[i] = left(i)
  <2>1. Len(pipe) \in Nat BY <1>1
  <2>2. pipe' \in [1..Len(pipe) -> Answers] BY <1>2, <1>3
  <2>3. pipe' \in Seq(Answers) BY <2>1, <2>2
  <2>4. DOMAIN pipe' = 1..Len(pipe) BY <1>3
  <2>5. Len(pipe') = Len(pipe) BY <2>1, <2>3, <2>4
  <2>6. QED BY <1>3, <2>3, <2>5
<1>5. Remain(pipe, pipe', 0) BY <1>1, <1>2, <1>4 DEF Remain
<1>6. ~Awaited(caller, pipe') BY <1>1, <1>2, <1>4 DEF Awaited
<1>7. QED BY <1>4, <1>5, <1>6

\* The command on f goes on: its answer came, or does not matter any more.
LEMMA ContinueKeepsCalls ==
  ASSUME CallInv, NEW f \in Feeds, user[f].cmd \in Commands, NEW reply \in {"ok", "error"}, Continue(f, reply),
         UNCHANGED <<client, held>>, NEW d \in {0, 1},
         pipe' \in Seq(Answers), Remain(pipe, pipe', d), ~Awaited(f, pipe')
  PROVE  CallInv'
<1>1. /\ user' \in [Feeds -> UserStates] /\ shown' \in [Feeds -> TreeStates]
      /\ active' \subseteq Feeds /\ restorer' \in [Restorers -> Loops]
      /\ WentOn(f, reply)
      /\ \A g \in Feeds \ {f} : user'[g] = user[g]
      /\ \A r \in Restorers : Kept(restorer[r], restorer'[r])
  BY ContinueFacts DEF CallInv
<1>2. CallerTypes' BY <1>1 DEF CallInv, CallerTypes
<1>3. GoodCall(user'[f]) BY <1>1 DEF WentOn, GoodCall
<1>4. QED BY <1>1, <1>2, <1>3, CallsKept

LEMMA AnsweredFacts ==
  ASSUME CallInv, NEW f \in Feeds, Answered(f)
  PROVE  /\ user[f].at = "answer" /\ user[f].cmd \in Commands
         /\ pipe # <<>> /\ pipe' = Tail(pipe) /\ pipe[1] \in Answers /\ pipe[1].feed = f
         /\ pipe[1].method = Method(user[f].cmd) /\ Continue(f, pipe[1].reply)
         /\ UNCHANGED <<client, disposed, gaveUp, timer, superseded, held>>
<1>1. FromPipe(f) /\ Continue(f, pipe[1].reply) BY DEF Answered
<1>2. pipe # <<>> /\ pipe[1].by = f /\ pipe' = Tail(pipe) BY <1>1 DEF FromPipe
<1>3. 1 \in 1..Len(pipe) /\ pipe[1] \in Answers BY <1>2, TailRemains DEF CallInv
<1>4. user[f].at = "answer" /\ pipe[1].feed = f /\ pipe[1].method = Method(user[f].cmd)
  BY <1>2, <1>3 DEF CallInv, Answering
<1>5. user[f].cmd \in Commands BY <1>4 DEF CallInv, Callers, GoodCall
<1>6. QED BY <1>1, <1>2, <1>3, <1>4, <1>5 DEF Answered, launchVars

LEMMA AnsweredKeepsCalls == ASSUME CallInv, NEW f \in Feeds, Answered(f) PROVE CallInv'
<1>1. user[f].cmd \in Commands /\ Continue(f, pipe[1].reply) /\ pipe[1] \in Answers /\ UNCHANGED <<client, held>>
  BY AnsweredFacts
<1>2. f # Nobody /\ FromPipe(f) BY BackendAssumption DEF Answered
<1>3. pipe' \in Seq(Answers) /\ Remain(pipe, pipe', 1) /\ ~Awaited(f, pipe') BY <1>2, FromPipeFacts
<1>4. pipe[1].reply \in {"ok", "error"} BY <1>1 DEF Answers
<1>5. QED BY <1>1, <1>3, <1>4, ContinueKeepsCalls

LEMMA TimesOutKeepsCalls == ASSUME CallInv, NEW f \in Feeds, TimesOut(f) PROVE CallInv'
<1>1. user[f].cmd \in Commands /\ Continue(f, "error") /\ UNCHANGED <<client, held>> /\ Abandon(f, f)
  BY DEF TimesOut, CallInv, Callers, GoodCall
<1>2. pipe' \in Seq(Answers) /\ Remain(pipe, pipe', 0) /\ ~Awaited(f, pipe') BY <1>1, AbandonFacts
<1>3. QED BY <1>1, <1>2, ContinueKeepsCalls

\* A loop whose request was answered or timed out goes on.
LEMMA LoopGoesOn ==
  ASSUME CallInv, NEW r \in Restorers, restorer[r].at = "answer", NEW next \in NextFeed(restorer[r], active),
         restorer' = [restorer EXCEPT ![r] = next]
  PROVE  /\ restorer' \in [Restorers -> Loops] /\ restorer'[r] = next /\ GoodLoop(restorer'[r])
         /\ \A x \in Restorers \ {r} : restorer'[x] = restorer[x] /\ Kept(restorer[x], restorer'[x])
         /\ \/ restorer'[r].at = "idle" /\ active \subseteq restorer[r].visited
            \/ /\ restorer'[r].at = "answer"
               /\ \E f \in active : restorer'[r].feed = {f} /\ restorer'[r].visited = restorer[r].visited \cup {f}
<1>1. restorer \in [Restorers -> Loops] /\ active \in SUBSET Feeds /\ GoodLoop(restorer[r])
  BY DEF CallInv, CallerTypes, Callers
<1>2. /\ next \in Loops
      /\ \/ next = AtRest /\ active \subseteq restorer[r].visited
         \/ /\ next.at = "answer" /\ next.on = restorer[r].on
            /\ \E f \in active : next.feed = {f} /\ next.visited = restorer[r].visited \cup {f}
  BY <1>1, NextFeedFacts
<1>3. restorer' \in [Restorers -> Loops] /\ restorer'[r] = next BY <1>1, <1>2
<1>4. GoodLoop(next) BY <1>1, <1>2 DEF GoodLoop, AtRest
<1>5. \A x \in Restorers \ {r} : restorer'[x] = restorer[x] /\ Kept(restorer[x], restorer'[x])
  BY <1>1 DEF Kept
<1>6. QED BY <1>2, <1>3, <1>4, <1>5 DEF AtRest

LEMMA RestoredFacts ==
  ASSUME CallInv, NEW r \in Restorers, Restored(r)
  PROVE  /\ pipe # <<>> /\ pipe' = Tail(pipe) /\ pipe[1] \in Answers /\ pipe[1].method = "start"
         /\ restorer[r].at = "answer" /\ restorer[r].feed = {pipe[1].feed}
         /\ shown' = [shown EXCEPT ![pipe[1].feed] =
                        Show(pipe[1].feed, IF pipe[1].reply = "ok" THEN "running" ELSE "error")]
         /\ \E next \in NextFeed(restorer[r], active) : restorer' = [restorer EXCEPT ![r] = next]
         /\ UNCHANGED <<client, disposed, gaveUp, timer, active, superseded, held, user>>
<1>1. pipe # <<>> /\ pipe[1].by = r /\ pipe' = Tail(pipe) BY DEF Restored, FromPipe
<1>2. 1 \in 1..Len(pipe) /\ pipe[1] \in Answers BY <1>1, TailRemains DEF CallInv
<1>3. restorer[r].at = "answer" /\ restorer[r].feed = {pipe[1].feed} /\ pipe[1].method = "start"
  BY <1>1, <1>2 DEF CallInv, Answering
<1>4. QED BY <1>1, <1>2, <1>3 DEF Restored, rest, serviceVars, launchVars

LEMMA RestoredKeepsCalls == ASSUME CallInv, NEW r \in Restorers, Restored(r) PROVE CallInv'
<1>1. PICK next \in NextFeed(restorer[r], active) : restorer' = [restorer EXCEPT ![r] = next]
  BY RestoredFacts
<1>2. /\ restorer[r].at = "answer" /\ UNCHANGED <<client, active, held, user>>
      /\ pipe[1] \in Answers
      /\ shown' = [shown EXCEPT ![pipe[1].feed] =
                     Show(pipe[1].feed, IF pipe[1].reply = "ok" THEN "running" ELSE "error")]
  BY RestoredFacts
<1>3. /\ restorer' \in [Restorers -> Loops] /\ GoodLoop(restorer'[r])
      /\ \A x \in Restorers \ {r} : Kept(restorer[x], restorer'[x])
  BY <1>1, <1>2, LoopGoesOn
<1>4. r # Nobody /\ FromPipe(r) BY BackendAssumption DEF Restored
<1>5. pipe' \in Seq(Answers) /\ Remain(pipe, pipe', 1) /\ ~Awaited(r, pipe') BY <1>4, FromPipeFacts
<1>6. shown' \in [Feeds -> TreeStates] BY <1>2 DEF CallInv, CallerTypes, Answers, Show, TreeStates
<1>7. CallerTypes' BY <1>2, <1>3, <1>5, <1>6 DEF CallInv, CallerTypes
<1>8. QED BY <1>2, <1>3, <1>5, <1>7, CallsKept

LEMMA RestoreTimesOutKeepsCalls ==
  ASSUME CallInv, NEW r \in Restorers, RestoreTimesOut(r) PROVE CallInv'
<1>1. PICK next \in NextFeed(restorer[r], active) : restorer' = [restorer EXCEPT ![r] = next]
  BY DEF RestoreTimesOut
<1>2. restorer[r].at = "answer" /\ UNCHANGED <<client, active, held, user>>
  BY DEF RestoreTimesOut, rest, serviceVars
<1>3. PICK f \in restorer[r].feed : Abandon(r, f) /\ shown' = [shown EXCEPT ![f] = Show(f, "error")]
  BY DEF RestoreTimesOut
<1>4. /\ restorer' \in [Restorers -> Loops] /\ GoodLoop(restorer'[r])
      /\ \A x \in Restorers \ {r} : Kept(restorer[x], restorer'[x])
  BY <1>1, <1>2, LoopGoesOn
<1>5. pipe' \in Seq(Answers) /\ Remain(pipe, pipe', 0) /\ ~Awaited(r, pipe') BY <1>3, AbandonFacts
<1>6. shown' \in [Feeds -> TreeStates] BY <1>3 DEF CallInv, CallerTypes, Show, TreeStates
<1>7. CallerTypes' BY <1>2, <1>4, <1>5, <1>6 DEF CallInv, CallerTypes
<1>8. QED BY <1>2, <1>4, <1>5, <1>7, CallsKept

LEMMA NotifiedLateFacts ==
  ASSUME CallInv, NotifiedLate
  PROVE  /\ pipe # <<>> /\ pipe' = Tail(pipe) /\ pipe[1] \in Answers /\ pipe' \in Seq(Answers)
         /\ UNCHANGED <<client, disposed, gaveUp, timer, superseded, held, user>>
         /\ restorer' \in [Restorers -> Loops] /\ \A r \in Restorers : Kept(restorer[r], restorer'[r])
         /\ \/ /\ pipe[1].method = "stop" /\ pipe[1].reply = "ok" /\ active' = active \ {pipe[1].feed}
               /\ shown' = [shown EXCEPT ![pipe[1].feed] = Show(pipe[1].feed, "stopped")]
            \/ /\ pipe[1].reply = "error" /\ active' = active /\ shown' = shown
            \/ /\ pipe[1].method = "start" /\ pipe[1].reply = "ok" /\ active' = active
               /\ shown' = [shown EXCEPT ![pipe[1].feed] = Show(pipe[1].feed, "running")]
<1> DEFINE f == pipe[1].feed
           gone == IF pipe[1].method = "stop" /\ pipe[1].reply = "ok" THEN {f} ELSE {}
<1>1. /\ pipe # <<>> /\ pipe' = Tail(pipe)
      /\ active' = Forget(active, gone) /\ restorer' = Unvisit(restorer, gone)
      /\ shown' = IF pipe[1].reply = "error" THEN shown
                  ELSE [shown EXCEPT ![f] = Show(f, IF gone = {} THEN "running" ELSE "stopped")]
      /\ UNCHANGED <<client, disposed, gaveUp, timer, superseded, held, user>>
  BY DEF NotifiedLate, FromPipe, launchVars
<1>2. pipe[1] \in Answers /\ pipe' \in Seq(Answers) BY <1>1, TailRemains DEF CallInv
<1>3. restorer' \in [Restorers -> Loops] /\ \A r \in Restorers : Kept(restorer[r], restorer'[r])
  BY <1>1, UnvisitKeeps DEF CallInv, CallerTypes
<1>4. \/ gone = {f} /\ pipe[1].method = "stop" /\ pipe[1].reply = "ok"
      \/ gone = {} /\ pipe[1].reply = "error"
      \/ gone = {} /\ pipe[1].method = "start" /\ pipe[1].reply = "ok"
  BY <1>2 DEF Answers
<1> HIDE DEF gone
<1>5. QED BY <1>1, <1>2, <1>3, <1>4 DEF Forget

LEMMA NotifiedLateKeepsCalls == ASSUME CallInv, NotifiedLate PROVE CallInv'
<1>1. /\ pipe # <<>> /\ pipe' = Tail(pipe) /\ pipe[1] \in Answers /\ pipe' \in Seq(Answers)
      /\ UNCHANGED <<client, held, user>> /\ active' \subseteq active
      /\ restorer' \in [Restorers -> Loops] /\ \A r \in Restorers : Kept(restorer[r], restorer'[r])
      /\ shown' = shown \/ shown' = [shown EXCEPT ![pipe[1].feed] = Show(pipe[1].feed, "stopped")]
                        \/ shown' = [shown EXCEPT ![pipe[1].feed] = Show(pipe[1].feed, "running")]
  BY NotifiedLateFacts
<1>2. shown' \in [Feeds -> TreeStates] BY <1>1 DEF CallInv, CallerTypes, Answers, Show, TreeStates
<1>3. CallerTypes' BY <1>1, <1>2 DEF CallInv, CallerTypes
<1>4. Remain(pipe, pipe', 1) BY <1>1, TailRemains DEF CallInv
<1>5. QED BY <1>1, <1>3, <1>4, CallsKept

LEMMA BeginFacts ==
  ASSUME CallInv, NEW f \in Feeds,
         StartOrRetry(f) \/ StopFeed(f) \/ EditFeed(f) \/ RemoveFeed(f)
  PROVE  /\ user[f].at = "idle" /\ ~disposed
         /\ UNCHANGED <<client, disposed, gaveUp, timer, superseded, held, pipe>>
         /\ \/ /\ shown[f] # "removed" /\ UNCHANGED <<active, restorer>>
               /\ \E cmd \in Commands : user' = [user EXCEPT ![f] = Call(cmd)]
               /\ \/ shown' = shown
                  \/ shown[f] = "stopped" /\ shown' = [shown EXCEPT ![f] = "starting"]
            \/ /\ user' = user /\ shown' = [shown EXCEPT ![f] = "removed"]
               /\ active' = active \ {f} /\ restorer' = Unvisit(restorer, {f})
<1>1. shown \in [Feeds -> TreeStates] BY DEF CallInv, CallerTypes
<1> USE DEF Begin, rest, serviceVars, launchVars, Commands
<1>2. CASE StartOrRetry(f)
  <2>1. CASE shown[f] = "stopped" /\ Begin(f, "start", "starting") BY <2>1
  <2>2. CASE shown[f] = "error" /\ Begin(f, "retry", "error") BY <1>1, <2>2
  <2>3. QED BY <1>2, <2>1, <2>2 DEF StartOrRetry
<1>3. CASE StopFeed(f) BY <1>1, <1>3 DEF StopFeed
<1>4. CASE EditFeed(f) BY <1>1, <1>4 DEF EditFeed
<1>5. CASE RemoveFeed(f)
  <2>1. CASE Begin(f, "remove", shown[f]) BY <1>1, <2>1
  <2>2. CASE ~Begin(f, "remove", shown[f]) BY <1>5, <2>2 DEF RemoveFeed, Forget
  <2>3. QED BY <2>1, <2>2
<1>6. QED BY <1>2, <1>3, <1>4, <1>5

LEMMA BeginKeepsCalls ==
  ASSUME CallInv, NEW f \in Feeds,
         StartOrRetry(f) \/ StopFeed(f) \/ EditFeed(f) \/ RemoveFeed(f)
  PROVE  CallInv'
<1>1. /\ user[f].at = "idle" /\ UNCHANGED <<client, held, pipe>>
      /\ \/ /\ UNCHANGED <<active, restorer>>
            /\ \E cmd \in Commands : user' = [user EXCEPT ![f] = Call(cmd)]
            /\ shown' = shown \/ shown' = [shown EXCEPT ![f] = "starting"]
         \/ /\ user' = user /\ shown' = [shown EXCEPT ![f] = "removed"]
            /\ active' = active \ {f} /\ restorer' = Unvisit(restorer, {f})
  BY BeginFacts
<1>2. Remain(pipe, pipe', 0) /\ ~Awaited(f, pipe') BY <1>1, NoneAwaited
<1>3. /\ shown' \in [Feeds -> TreeStates] /\ active' \subseteq Feeds
      /\ restorer' \in [Restorers -> Loops] /\ \A r \in Restorers : Kept(restorer[r], restorer'[r])
  BY <1>1, UnvisitKeeps DEF CallInv, CallerTypes, TreeStates, Kept
<1>4. /\ user' \in [Feeds -> UserStates] /\ \A g \in Feeds \ {f} : user'[g] = user[g]
      /\ user'[f] = user[f] \/ GoodCall(user'[f])
  <2>1. CASE user' = user BY <2>1 DEF CallInv, CallerTypes
  <2>2. CASE user' # user
    <3>1. PICK cmd \in Commands : user' = [user EXCEPT ![f] = Call(cmd)] BY <1>1, <2>2
    <3>2. Call(cmd) \in UserStates /\ GoodCall(Call(cmd))
      BY DEF Call, Idle, UserStates, GoodCall, None
    <3>3. QED BY <3>1, <3>2 DEF CallInv, CallerTypes
  <2>3. QED BY <2>1, <2>2
<1>5. CallerTypes' BY <1>1, <1>3, <1>4 DEF CallInv, CallerTypes
<1>6. QED BY <1>1, <1>2, <1>3, <1>4, <1>5, CallsKept

LEMMA CallInit == Init => CallInv
<1> SUFFICES ASSUME Init PROVE CallInv OBVIOUS
<1>1. Idle \in UserStates /\ AtRest \in Loops /\ "stopped" \in TreeStates
  BY DEF Idle, UserStates, AtRest, Loops, TreeStates, None
<1>2. CallerTypes BY <1>1 DEF Init, CallerTypes
<1>3. Callers BY DEF Init, Callers, GoodCall, GoodLoop, Idle, AtRest
<1>4. Answering BY DEF Init, Answering
<1>5. QED BY <1>2, <1>3, <1>4 DEF CallInv

LEMMA CallStep == LaunchInv /\ CallInv /\ [Next]_vars => CallInv'
<1> SUFFICES ASSUME LaunchInv, CallInv, [Next]_vars PROVE CallInv' OBVIOUS
<1>1. CASE UNCHANGED <<client, active, held, user, restorer, pipe>> /\ shown' \in [Feeds -> TreeStates]
  BY <1>1 DEF CallInv, CallerTypes, Callers, GoodCall, GoodLoop, Answering
<1>2. ASSUME NEW k \in Servers, LaunchNext(k) PROVE CallInv'
  <2>0. shown \in [Feeds -> TreeStates] BY DEF CallInv, CallerTypes
  <2>1. CASE Discover(k)
    <3>1. CASE LaunchFails(k) BY <3>1, LaunchFailsKeepsCalls
    <3>2. CASE ~LaunchFails(k) BY <1>1, <2>0, <2>1, <3>2 DEF Discover, serviceVars
    <3>3. QED BY <3>1, <3>2
  <2>2. CASE Spawned(k) BY <2>2, SpawnedKeepsCalls
  <2>3. CASE HandshakeOk(k) BY <2>3, HandshakeOkKeepsCalls
  <2>4. CASE HandshakeFails(k)
    <3>1. PICK restartBackend \in AutoRestart : HandleClose(k, restartBackend) BY <2>4 DEF HandshakeFails
    <3>2. client = k /\ held' = held /\ restartBackend \in BOOLEAN
      BY <2>4, BackendAssumption DEF HandshakeFails, LaunchInv, OneLaunch
    <3>3. QED BY <3>1, <3>2, ClientEndKeepsCalls
  <2>5. CASE Crash(k)
    <3>1. PICK restartBackend \in AutoRestart : HandleClose(k, restartBackend) BY <2>5 DEF Crash
    <3>2. client = k /\ held' = held /\ restartBackend \in BOOLEAN BY <2>5, BackendAssumption DEF Crash
    <3>3. QED BY <3>1, <3>2, ClientEndKeepsCalls
  <2>6. CASE Exit(k) BY <1>1, <2>0, <2>6 DEF Exit, serviceVars
  <2>7. QED BY <1>2, <2>1, <2>2, <2>3, <2>4, <2>5, <2>6 DEF LaunchNext
<1>3. ASSUME NEW f \in Feeds, UserNext(f) PROVE CallInv'
  <2>1. ASSUME NEW state \in Reports, PollNews(f, state) PROVE CallInv'
    <3>1. state \in {"running", "error"} BY BackendAssumption
    <3>2. UNCHANGED <<client, active, held, user, restorer, pipe>> /\ shown' = [shown EXCEPT ![f] = Show(f, state)]
      BY <2>1 DEF PollNews, rest, serviceVars
    <3>3. shown' \in [Feeds -> TreeStates] BY <3>1, <3>2 DEF CallInv, CallerTypes, Show, TreeStates
    <3>4. QED BY <1>1, <3>2, <3>3
  <2>2. QED BY <1>3, <2>1, BeginKeepsCalls, CallKeepsCalls, ServeUserKeepsCalls, AnsweredKeepsCalls,
               TimesOutKeepsCalls DEF UserNext
<1>4. ASSUME NEW r \in Restorers, RestorerNext(r) PROVE CallInv'
  BY <1>4, TimerKeepsCalls, RestartKeepsCalls, ServeRestorerKeepsCalls, RestoredKeepsCalls,
     RestoreTimesOutKeepsCalls DEF RestorerNext
<1>5. CASE NotifiedLate BY <1>5, NotifiedLateKeepsCalls
<1>6. CASE Dispose BY <1>6, DisposeKeepsCalls
<1>7. CASE UNCHANGED vars BY <1>1, <1>7 DEF vars, serviceVars, CallInv, CallerTypes
<1>8. QED BY <1>2, <1>3, <1>4, <1>5, <1>6, <1>7 DEF Next

LEMMA CallInvariant == Spec => [](LaunchInv /\ CallInv)
<1>1. LaunchInv /\ CallInv /\ [Next]_vars => LaunchInv' /\ CallInv' BY LaunchStep, CallStep
<1>2. Init => LaunchInv /\ CallInv BY LaunchInit, CallInit
<1>3. QED BY <1>1, <1>2, PTL DEF Spec

-----------------------------------------------------------------------------
(* What the client's server polls, the answers under way, and what is shown *)

Unborn == {"none"} \cup Young

\* A launch begins with one that had not begun.
LEMMA NewLaunchIsNone ==
  ASSUME LaunchInv, faults < MaxFaults \/ (client = None /\ starting = None /\ ~disposed)
  PROVE  NewLaunch \in Servers /\ launch[NewLaunch] = "none"
<1>1. PICK n \in 0..(faults + 1) :
        /\ \A k \in Servers : launch[k] = "none" <=> k > n
        /\ client = None /\ starting = None /\ ~disposed => n <= faults
  BY DEF LaunchInv, Counted
<1>2. n \in 0..MaxFaults /\ launch \in [Servers -> Stages]
  BY <1>1, BackendAssumption DEF LaunchInv, LaunchTypes
<1>3. NewLaunch = n + 1 /\ NewLaunch \in Servers BY <1>1, <1>2, NewLaunchIsNext, BackendAssumption
<1>4. QED BY <1>1, <1>2, <1>3 DEF Servers

LEMMA LaunchesGrow ==
  ASSUME LaunchInv, [Next]_vars, NEW k \in Servers, launch'[k] \in Unborn
  PROVE  launch[k] \in Unborn
<1> USE DEF Unborn, Young
<1>1. launch \in [Servers -> Stages] BY DEF LaunchInv, LaunchTypes
<1>2. ASSUME NEW j \in Servers, LaunchNext(j) PROVE launch[k] \in Unborn
  BY <1>1, <1>2
  DEF LaunchNext, Discover, Spawned, HandshakeOk, HandshakeFails, Crash, Exit, LaunchFails, HandleClose, HandshakeEnds
<1>3. ASSUME Launched(client, starting), ~disposed PROVE launch[k] \in Unborn
  <2>1. CASE client = None /\ starting = None
    <3>1. NewLaunch \in Servers /\ launch[NewLaunch] = "none" BY <1>3, <2>1, NewLaunchIsNone
    <3>2. launch' = [launch EXCEPT ![NewLaunch] = "discover"] BY <1>3, <2>1 DEF Launched
    <3>3. QED BY <1>1, <3>1, <3>2
  <2>2. CASE ~(client = None /\ starting = None) BY <1>3, <2>2 DEF Launched
  <2>3. QED BY <2>1, <2>2
<1>4. ASSUME NEW f \in Feeds, UserNext(f) PROVE launch[k] \in Unborn
  BY <1>3, <1>4
  DEF UserNext, CallBackend, StartOrRetry, StopFeed, EditFeed, RemoveFeed, Begin, ServeUser, Answered, TimesOut,
      PollNews, rest, launchVars
<1>5. ASSUME NEW r \in Restorers, Restart(r) PROVE launch[k] \in Unborn
  <2>1. faults < MaxFaults BY <1>5 DEF Restart, Fault
  <2>2. NewLaunch \in Servers /\ launch[NewLaunch] = "none" BY <2>1, NewLaunchIsNone
  <2> DEFINE ended == IF client # None /\ launch[client] = "handshake" THEN HandshakeEnds(client) ELSE launch
  <2>3. ended \in [Servers -> Stages] /\ (ended[k] \in Unborn => launch[k] \in Unborn)
    BY <1>1 DEF HandshakeEnds, Stages
  <2>4. launch' = ended \/ launch' = [ended EXCEPT ![NewLaunch] = "discover"] BY <1>5 DEF Restart
  <2> HIDE DEF ended
  <2>5. QED BY <2>2, <2>3, <2>4
<1>6. ASSUME NEW r \in Restorers, RestorerNext(r) PROVE launch[k] \in Unborn
  BY <1>3, <1>5, <1>6
  DEF RestorerNext, TimerFires, ServeRestorer, Restored, RestoreTimesOut, rest, launchVars
<1>7. CASE NotifiedLate BY <1>7 DEF NotifiedLate, launchVars
<1>8. CASE Dispose BY <1>1, <1>8 DEF Dispose, HandshakeEnds
<1>9. CASE UNCHANGED vars BY <1>9 DEF vars, launchVars
<1>10. QED BY <1>2, <1>4, <1>6, <1>7, <1>8, <1>9 DEF Next

Did(i, f, method) ==
  i \in 1..Len(pipe) /\ pipe[i].feed = f /\ pipe[i].method = method /\ pipe[i].reply = "ok"

\* A server that has not been spawned polls nothing.
NothingEarly == \A k \in Servers : launch[k] \in Unborn => held[k] = {}

\* What the answers under way say of a feed, the last one of them says truly.
Truly(f) ==
  \A i \in 1..Len(pipe) :
    /\ f \in held[client] /\ Did(i, f, "stop") => \E j \in 1..Len(pipe) : j > i /\ Did(j, f, "start")
    /\ f \notin held[client] /\ Did(i, f, "start") => \E j \in 1..Len(pipe) : j > i /\ Did(j, f, "stop")
Told == client # None => \A f \in Feeds : Truly(f)

Stopped(f) == f \notin active /\ (client # None /\ f \in held[client] => \E i \in 1..Len(pipe) : Did(i, f, "start"))
StoppedToo == \A f \in Feeds : shown[f] = "stopped" => Stopped(f)

\* Nothing is under way for a feed that was removed, and nothing restores it.
Removed(f) == f \notin active /\ user[f].at = "idle"
RemovedToo == \A f \in Feeds : shown[f] = "removed" => Removed(f)

ShownInv == NothingEarly /\ Told /\ StoppedToo /\ RemovedToo

\* The step takes the first d answers out of the pipe.
Taken(d) == Remain(pipe, pipe', d) /\ Len(pipe) = Len(pipe') + d

\* An answer that stays in the pipe.
LEMMA DidRemains ==
  ASSUME CallerTypes, pipe' \in Seq(Answers), NEW d \in {0, 1}, Taken(d),
         NEW f \in Feeds, NEW method
  PROVE  /\ \A i \in 1..Len(pipe') : i + d \in 1..Len(pipe) /\ (Did(i, f, method)' <=> Did(i + d, f, method))
         /\ \A i \in 1..Len(pipe) : i > d => i - d \in 1..Len(pipe') /\ (Did(i - d, f, method)' <=> Did(i, f, method))
<1>1. Len(pipe) \in Nat /\ Len(pipe') \in Nat BY DEF CallerTypes
<1>2. ASSUME NEW i \in 1..Len(pipe')
      PROVE  i + d \in 1..Len(pipe) /\ (Did(i, f, method)' <=> Did(i + d, f, method))
  BY <1>2 DEF Remain, Did, Taken
<1>3. ASSUME NEW i \in 1..Len(pipe), i > d
      PROVE  i - d \in 1..Len(pipe') /\ (Did(i - d, f, method)' <=> Did(i, f, method))
  <2>1. i - d \in 1..Len(pipe') /\ (i - d) + d = i BY <1>1, <1>3 DEF Taken
  <2>2. QED BY <1>2, <2>1
<1>4. QED BY <1>2, <1>3

\* A step after which the first d answers are not in the pipe any more, and the feeds
\* shown as stopped or removed were so before, or the first answer said so.
LEMMA ShownKept ==
  ASSUME LaunchInv, CallInv, ShownInv, [Next]_vars, CallerTypes',
         held' = held, client' = client, NEW d \in {0, 1}, Taken(d),
         \A f \in Feeds : shown'[f] = "stopped" =>
           /\ f \notin active'
           /\ \/ shown[f] = "stopped" /\ (d = 1 => ~Did(1, f, "start"))
              \/ d = 1 /\ Did(1, f, "stop"),
         \A f \in Feeds : shown'[f] = "removed" =>
           \/ f \notin active' /\ user'[f].at = "idle"
           \/ shown[f] = "removed" /\ user'[f] = user[f] /\ (f \in active' => f \in active)
  PROVE  ShownInv'
<1> USE DEF ShownInv
<1>1. Len(pipe) \in Nat /\ Len(pipe') \in Nat /\ pipe' \in Seq(Answers) /\ CallerTypes
  BY DEF CallInv, CallerTypes
<1>2. NothingEarly' BY LaunchesGrow DEF NothingEarly
<1>3. \A f \in Feeds, method \in {"start", "stop"} :
        /\ \A i \in 1..Len(pipe') : i + d \in 1..Len(pipe) /\ (Did(i, f, method)' <=> Did(i + d, f, method))
        /\ \A i \in 1..Len(pipe) : i > d => i - d \in 1..Len(pipe') /\ (Did(i - d, f, method)' <=> Did(i, f, method))
  BY <1>1, DidRemains
<1>4. Told'
  <2> SUFFICES ASSUME client # None, NEW f \in Feeds, NEW i \in 1..Len(pipe')
               PROVE  /\ f \in held[client] /\ Did(i, f, "stop")' =>
                           \E j \in 1..Len(pipe') : j > i /\ Did(j, f, "start")'
                      /\ f \notin held[client] /\ Did(i, f, "start")' =>
                           \E j \in 1..Len(pipe') : j > i /\ Did(j, f, "stop")'
    BY DEF Told, Truly
  <2>1. i + d \in 1..Len(pipe) BY <1>3
  <2>2. ASSUME NEW j \in 1..Len(pipe), j > i + d PROVE j > d /\ j - d > i BY <1>1, <2>2
  <2>3. CASE f \in held[client] /\ Did(i, f, "stop")'
    <3>1. PICK j \in 1..Len(pipe) : j > i + d /\ Did(j, f, "start")
      BY <1>3, <2>1, <2>3 DEF Told, Truly
    <3>2. j - d \in 1..Len(pipe') /\ j - d > i /\ Did(j - d, f, "start")' BY <1>3, <2>2, <3>1
    <3>3. QED BY <2>3, <3>2
  <2>4. CASE f \notin held[client] /\ Did(i, f, "start")'
    <3>1. PICK j \in 1..Len(pipe) : j > i + d /\ Did(j, f, "stop")
      BY <1>3, <2>1, <2>4 DEF Told, Truly
    <3>2. j - d \in 1..Len(pipe') /\ j - d > i /\ Did(j - d, f, "stop")' BY <1>3, <2>2, <3>1
    <3>3. QED BY <2>4, <3>2
  <2>5. QED BY <2>3, <2>4
<1>5. StoppedToo'
  <2> SUFFICES ASSUME NEW f \in Feeds, shown'[f] = "stopped", client # None, f \in held[client]
               PROVE  \E i \in 1..Len(pipe') : Did(i, f, "start")'
    BY DEF StoppedToo, Stopped
  <2>1. PICK i \in 1..Len(pipe) : Did(i, f, "start") /\ i > d
    <3>1. CASE shown[f] = "stopped" /\ (d = 1 => ~Did(1, f, "start"))
      <4>1. PICK i \in 1..Len(pipe) : Did(i, f, "start") BY <3>1 DEF StoppedToo, Stopped
      <4>2. i > d BY <1>1, <3>1, <4>1
      <4>3. QED BY <4>1, <4>2
    <3>2. CASE d = 1 /\ Did(1, f, "stop")
      <4>1. 1 \in 1..Len(pipe) BY <3>2 DEF Did
      <4>2. QED BY <3>2, <4>1 DEF Told, Truly
    <3>3. QED BY <3>1, <3>2
  <2>2. QED BY <1>3, <2>1
<1>6. RemovedToo' BY DEF RemovedToo, Removed
<1>7. QED BY <1>2, <1>4, <1>5, <1>6

\* The same of a step that ends the client.
LEMMA ShownKeptAtEnd ==
  ASSUME LaunchInv, ShownInv, [Next]_vars, held' = held, client' = None,
         \A f \in Feeds : shown'[f] = "stopped" => f \notin active',
         \A f \in Feeds : shown'[f] = "removed" =>
           \/ f \notin active' /\ user'[f].at = "idle"
           \/ shown[f] = "removed" /\ user'[f] = user[f] /\ (f \in active' => f \in active)
  PROVE  ShownInv'
<1>1. NothingEarly' BY LaunchesGrow DEF ShownInv, NothingEarly
<1>2. Told' BY DEF Told
<1>3. StoppedToo' BY DEF StoppedToo, Stopped
<1>4. RemovedToo' BY DEF ShownInv, RemovedToo, Removed
<1>5. QED BY <1>1, <1>2, <1>3, <1>4 DEF ShownInv

LEMMA LaunchFailsKeepsShown ==
  ASSUME LaunchInv, CallInv, ShownInv, [Next]_vars, NEW k \in Servers, LaunchFails(k) PROVE ShownInv'
<1>1. /\ CallerTypes' /\ client' = client /\ pipe' = pipe /\ held' = held
      /\ \A f \in Feeds :
           \/ user[f].at = "launch" /\ WentOn(f, "error")
           \/ user'[f] = user[f] /\ shown'[f] = shown[f] /\ (f \in active' <=> f \in active)
  BY LaunchFailsFacts
<1>2. Taken(0) BY <1>1, NoneAwaited DEF CallInv, CallerTypes, Taken
<1>3. ASSUME NEW f \in Feeds
      PROVE  /\ shown'[f] = "stopped" => f \notin active' /\ shown[f] = "stopped"
             /\ shown'[f] = "removed" =>
                  \/ f \notin active' /\ user'[f].at = "idle"
                  \/ shown[f] = "removed" /\ user'[f] = user[f] /\ (f \in active' => f \in active)
  <2>1. CASE user[f].at = "launch" /\ WentOn(f, "error")
    BY <2>1 DEF WentOn, ShownInv, RemovedToo, Removed
  <2>2. CASE user'[f] = user[f] /\ shown'[f] = shown[f] /\ (f \in active' <=> f \in active)
    BY <2>2 DEF ShownInv, StoppedToo, Stopped
  <2>3. QED BY <1>1, <2>1, <2>2
<1>4. QED BY <1>1, <1>2, <1>3, ShownKept

LEMMA SpawnedKeepsShown ==
  ASSUME LaunchInv, CallInv, ShownInv, [Next]_vars, NEW k \in Servers, Spawned(k) PROVE ShownInv'
<1>1. CASE LaunchFails(k) BY <1>1, LaunchFailsKeepsShown
<1>2. CASE ~LaunchFails(k)
  <2>1. ~Superseded(k) /\ launch[k] = "spawn" /\ client' = k /\ UNCHANGED <<active, held, user, pipe, shown>>
    BY <1>2 DEF Spawned
  <2>2. client = None BY <2>1 DEF LaunchInv, OneLaunch, Superseded, Young
  <2>3. held[k] = {} /\ Len(pipe) = 0 BY <2>1, <2>2 DEF ShownInv, NothingEarly, Unborn, Young, CallInv, Answering
  <2>4. NothingEarly' BY <2>1, LaunchesGrow DEF ShownInv, NothingEarly
  <2>5. Told' BY <2>1, <2>3 DEF Told, Truly
  <2>6. StoppedToo' BY <2>1, <2>3 DEF ShownInv, StoppedToo, Stopped
  <2>7. RemovedToo' BY <2>1 DEF ShownInv, RemovedToo, Removed
  <2>8. QED BY <2>4, <2>5, <2>6, <2>7 DEF ShownInv
<1>3. QED BY <1>1, <1>2

LEMMA HandshakeOkKeepsShown ==
  ASSUME LaunchInv, CallInv, CallInv', ShownInv, [Next]_vars, NEW k \in Servers, HandshakeOk(k) PROVE ShownInv'
<1>1. UNCHANGED <<client, active, held, pipe, shown>> BY DEF HandshakeOk
<1>2. \A f \in Feeds : user[f].at = "idle" => user'[f] = user[f] BY DEF HandshakeOk
<1>3. Taken(0) BY <1>1, NoneAwaited DEF CallInv, CallerTypes, Taken
<1>4. \A f \in Feeds : /\ shown'[f] = "stopped" => f \notin active' /\ shown[f] = "stopped"
                       /\ shown'[f] = "removed" => shown[f] = "removed" /\ user'[f] = user[f]
  BY <1>1, <1>2 DEF ShownInv, StoppedToo, Stopped, RemovedToo, Removed
<1>5. QED BY <1>1, <1>3, <1>4, ShownKept DEF CallInv

LEMMA ClientEndKeepsShown ==
  ASSUME LaunchInv, CallInv, ShownInv, [Next]_vars, NEW k \in Servers, client = k, held' = held,
         NEW restartBackend \in BOOLEAN, HandleClose(k, restartBackend)
  PROVE  ShownInv'
<1>1. PICK noted \in {"none", "starting", "error"} : CloseClient(k, noted, restorer)
  BY DEF HandleClose
<1>2. restorer \in [Restorers -> Loops] BY DEF CallInv, CallerTypes
<1>3. /\ client' = None /\ active' \subseteq active
      /\ \A f \in Feeds :
           \/ WentOn(f, "error") /\ user[f].at \in {"launch", "answer"}
           \/ /\ user'[f] = user[f]
              /\ shown'[f] = Show(f, News(k, noted, f)) /\ (f \in active' <=> f \in active)
  BY <1>1, <1>2, CloseClientFacts
<1>4. ASSUME NEW f \in Feeds
      PROVE  /\ shown'[f] = "stopped" => f \notin active'
             /\ shown'[f] = "removed" =>
                  \/ f \notin active' /\ user'[f].at = "idle"
                  \/ shown[f] = "removed" /\ user'[f] = user[f] /\ (f \in active' => f \in active)
  <2>1. CASE WentOn(f, "error") /\ user[f].at \in {"launch", "answer"}
    BY <2>1 DEF WentOn, ShownInv, RemovedToo, Removed
  <2>2. CASE /\ user'[f] = user[f]
             /\ shown'[f] = Show(f, News(k, noted, f)) /\ (f \in active' <=> f \in active)
    <3>1. Show(f, News(k, noted, f)) \in {"stopped", "removed"} =>
            shown[f] = Show(f, News(k, noted, f))
      BY DEF Show, News
    <3>2. QED BY <2>2, <3>1 DEF ShownInv, StoppedToo, Stopped
  <2>3. QED BY <1>3, <2>1, <2>2
<1>5. QED BY <1>3, <1>4, ShownKeptAtEnd

LEMMA QuietEndKeepsShown ==
  ASSUME LaunchInv, CallInv, ShownInv, [Next]_vars, NEW loops \in [Restorers -> Loops], Quietly(loops), held' = held
  PROVE  ShownInv'
<1>1. /\ client' = None /\ active' \subseteq active
      /\ \A f \in Feeds :
           \/ WentOn(f, "error") /\ user[f].at \in {"launch", "answer"}
           \/ /\ user'[f] = user[f]
              /\ shown'[f] \in {shown[f], Show(f, "error")} /\ (f \in active' <=> f \in active)
  BY QuietlyFacts
<1>2. ASSUME NEW f \in Feeds
      PROVE  /\ shown'[f] = "stopped" => f \notin active'
             /\ shown'[f] = "removed" =>
                  \/ f \notin active' /\ user'[f].at = "idle"
                  \/ shown[f] = "removed" /\ user'[f] = user[f] /\ (f \in active' => f \in active)
  <2>1. CASE WentOn(f, "error") /\ user[f].at \in {"launch", "answer"}
    BY <2>1 DEF WentOn, ShownInv, RemovedToo, Removed
  <2>2. CASE /\ user'[f] = user[f]
             /\ shown'[f] \in {shown[f], Show(f, "error")} /\ (f \in active' <=> f \in active)
    BY <2>2 DEF ShownInv, StoppedToo, Stopped, Show
  <2>3. QED BY <1>1, <2>1, <2>2
<1>3. QED BY <1>1, <1>2, ShownKeptAtEnd

\* The command on f goes on, after the first answer or without one.
LEMMA ContinueKeepsShown ==
  ASSUME LaunchInv, CallInv, CallInv', ShownInv, [Next]_vars,
         NEW f \in Feeds, user[f].at # "idle", NEW reply \in {"ok", "error"}, Continue(f, reply),
         UNCHANGED <<client, held>>, NEW d \in {0, 1}, Taken(d),
         d = 0 => reply = "error",
         d = 1 => pipe[1].feed = f /\ (reply = "ok" => Did(1, f, Method(user[f].cmd)))
  PROVE  ShownInv'
<1>1. CallerTypes /\ user[f].cmd \in Commands BY DEF CallInv, Callers, GoodCall
<1>2. /\ WentOn(f, reply)
      /\ \A g \in Feeds \ {f} : user'[g] = user[g] /\ shown'[g] = shown[g] /\ (g \in active' <=> g \in active)
  BY <1>1, ContinueFacts
<1>3. ASSUME NEW g \in Feeds, shown'[g] = "stopped"
      PROVE  /\ g \notin active'
             /\ \/ shown[g] = "stopped" /\ (d = 1 => ~Did(1, g, "start"))
                \/ d = 1 /\ Did(1, g, "stop")
  <2>1. CASE g = f
    <3>1. g \notin active' /\ user[f].cmd = "stop" /\ reply = "ok" BY <1>2, <1>3, <2>1 DEF WentOn
    <3>2. QED BY <2>1, <3>1 DEF Method
  <2>2. CASE g # f BY <1>2, <1>3, <2>2 DEF ShownInv, StoppedToo, Stopped, Did
  <2>3. QED BY <2>1, <2>2
<1>4. ASSUME NEW g \in Feeds, shown'[g] = "removed"
      PROVE  \/ g \notin active' /\ user'[g].at = "idle"
             \/ shown[g] = "removed" /\ user'[g] = user[g] /\ (g \in active' => g \in active)
  <2>1. CASE g = f BY <1>2, <1>4, <2>1 DEF WentOn, ShownInv, RemovedToo, Removed
  <2>2. CASE g # f BY <1>2, <1>4, <2>2
  <2>3. QED BY <2>1, <2>2
<1>5. QED BY <1>3, <1>4, ShownKept DEF CallInv

LEMMA CallKeepsShown ==
  ASSUME LaunchInv, CallInv, CallInv', ShownInv, [Next]_vars, NEW f \in Feeds, CallBackend(f) PROVE ShownInv'
<1>1. user[f].at = "call" /\ UNCHANGED <<client, held, pipe>> BY DEF CallBackend
<1>2. Taken(0) BY <1>1, NoneAwaited DEF CallInv, CallerTypes, Taken
<1>3. CASE disposed
  <2>1. Continue(f, "error") BY <1>3 DEF CallBackend
  <2>2. QED BY <1>1, <1>2, <2>1, ContinueKeepsShown
<1>4. CASE ~disposed
  <2>1. UNCHANGED <<active, shown>> /\ \A g \in Feeds : g # f => user'[g] = user[g]
    BY <1>4 DEF CallBackend, CallInv, CallerTypes
  <2>2. \A g \in Feeds : /\ shown'[g] = "stopped" => g \notin active' /\ shown[g] = "stopped"
                         /\ shown'[g] = "removed" => shown[g] = "removed" /\ user'[g] = user[g]
    BY <1>1, <2>1 DEF ShownInv, StoppedToo, Stopped, RemovedToo, Removed
  <2>3. QED BY <1>1, <1>2, <2>1, <2>2, ShownKept DEF CallInv
<1>5. QED BY <1>3, <1>4

LEMMA AnsweredKeepsShown ==
  ASSUME LaunchInv, CallInv, CallInv', ShownInv, [Next]_vars, NEW f \in Feeds, Answered(f) PROVE ShownInv'
<1>1. /\ user[f].at = "answer"
      /\ pipe # <<>> /\ pipe' = Tail(pipe) /\ pipe[1] \in Answers /\ pipe[1].feed = f
      /\ pipe[1].method = Method(user[f].cmd) /\ Continue(f, pipe[1].reply)
      /\ UNCHANGED <<client, held>>
  BY AnsweredFacts
<1>2. /\ Taken(1) /\ 1 \in 1..Len(pipe)
      /\ pipe[1].reply \in {"ok", "error"}
  BY <1>1, TailRemains DEF CallInv, CallerTypes, Answers, Taken
<1>3. pipe[1].reply = "ok" => Did(1, f, Method(user[f].cmd)) BY <1>1, <1>2 DEF Did
<1>4. QED BY <1>1, <1>2, <1>3, ContinueKeepsShown

LEMMA TimesOutKeepsShown ==
  ASSUME LaunchInv, CallInv, CallInv', ShownInv, [Next]_vars, NEW f \in Feeds, TimesOut(f) PROVE ShownInv'
<1>1. user[f].at = "answer" /\ Continue(f, "error") /\ UNCHANGED <<client, held>> /\ Abandon(f, f) BY DEF TimesOut
<1>2. Taken(0) BY <1>1, AbandonFacts DEF CallInv, CallerTypes, Taken
<1>3. QED BY <1>1, <1>2, ContinueKeepsShown

\* The server answers a request of the caller about f.
LEMMA ServeKeepsShown ==
  ASSUME LaunchInv, CallInv, ShownInv, [Next]_vars, NEW caller \in Feeds \cup Restorers, NEW f \in Feeds,
         NEW method \in {"start", "stop"}, client \in Servers, Serve(caller, client, f, method),
         UNCHANGED <<client, active, user, shown>>
  PROVE  ShownInv'
<1> USE DEF ShownInv
<1>1. PICK answer \in Answers :
        /\ answer.feed = f /\ answer.method = method
        /\ Len(pipe') = Len(pipe) + 1
        /\ \A i \in 1..Len(pipe) : pipe'[i] = pipe[i]
        /\ pipe'[Len(pipe) + 1] = answer
        /\ answer.reply = "error" => held' = held
        /\ answer.reply = "ok" =>
             /\ (f \in held[client]) <=> (method = "stop")
             /\ (f \in held'[client]) <=> (method = "start")
             /\ \A j \in Servers, g \in Feeds :
                  j # client \/ g # f => (g \in held'[j] <=> g \in held[j])
  BY ServeFacts
<1>2. Len(pipe) \in Nat /\ Len(pipe) + 1 \in 1..Len(pipe') /\ answer.reply \in {"ok", "error"}
  BY <1>1 DEF CallInv, CallerTypes, Answers
<1>0. PICK last \in Nat : last = Len(pipe) + 1 BY <1>2
<1>3. /\ \A i \in 1..Len(pipe') : i \in 1..Len(pipe) \/ i = last
      /\ \A i \in 1..Len(pipe) : i \in 1..Len(pipe') /\ last > i /\ last \in 1..Len(pipe')
  BY <1>0, <1>1, <1>2
<1>4. /\ \A i \in 1..Len(pipe), g \in Feeds, m \in {"start", "stop"} : Did(i, g, m)' <=> Did(i, g, m)
      /\ \A g \in Feeds, m \in {"start", "stop"} :
           Did(last, g, m)' <=> (g = f /\ m = method /\ answer.reply = "ok")
  BY <1>0, <1>1, <1>2, <1>3 DEF Did
<1>5. NothingEarly'
  <2> SUFFICES ASSUME NEW k \in Servers, launch'[k] \in Unborn PROVE held'[k] = {}
    BY DEF NothingEarly
  <2>1. launch[k] \in Unborn /\ held[k] = {} BY LaunchesGrow DEF NothingEarly
  <2>2. k # client BY <2>1 DEF LaunchInv, OneLaunch, Unborn, Young
  <2>3. held' \in [Servers -> SUBSET Feeds] BY ServeFacts
  <2>4. QED BY <1>1, <1>2, <2>1, <2>2, <2>3
<1>6. client # None BY DEF Servers, None
<1>7. Told'
  <2> SUFFICES ASSUME NEW g \in Feeds, NEW i \in 1..Len(pipe')
               PROVE  /\ g \in held'[client] /\ Did(i, g, "stop")' =>
                           \E j \in 1..Len(pipe') : j > i /\ Did(j, g, "start")'
                      /\ g \notin held'[client] /\ Did(i, g, "start")' =>
                           \E j \in 1..Len(pipe') : j > i /\ Did(j, g, "stop")'
    BY DEF Told, Truly
  <2>1. CASE answer.reply = "ok" /\ g = f
    <3>1. CASE i = last BY <1>1, <1>4, <2>1, <3>1
    <3>2. CASE i \in 1..Len(pipe) BY <1>1, <1>3, <1>4, <2>1, <3>2
    <3>3. QED BY <1>3, <3>1, <3>2
  <2>2. CASE ~(answer.reply = "ok" /\ g = f)
    <3>1. g \in held'[client] <=> g \in held[client] BY <1>1, <1>2, <2>2
    <3>2. CASE i = last BY <1>4, <2>2, <3>2
    <3>3. CASE i \in 1..Len(pipe)
      <4>1. Truly(g) BY <1>6 DEF Told
      <4>2. CASE g \in held[client] /\ Did(i, g, "stop")
        <5>1. PICK j \in 1..Len(pipe) : j > i /\ Did(j, g, "start") BY <3>3, <4>1, <4>2 DEF Truly
        <5>2. j \in 1..Len(pipe') /\ Did(j, g, "start")' BY <1>3, <1>4, <5>1
        <5>3. QED BY <3>1, <4>2, <5>1, <5>2
      <4>3. CASE g \notin held[client] /\ Did(i, g, "start")
        <5>1. PICK j \in 1..Len(pipe) : j > i /\ Did(j, g, "stop") BY <3>3, <4>1, <4>3 DEF Truly
        <5>2. j \in 1..Len(pipe') /\ Did(j, g, "stop")' BY <1>3, <1>4, <5>1
        <5>3. QED BY <3>1, <4>3, <5>1, <5>2
      <4>4. QED BY <1>4, <3>1, <3>3, <4>2, <4>3
    <3>4. QED BY <1>3, <3>2, <3>3
  <2>3. QED BY <2>1, <2>2
<1>8. StoppedToo'
  <2> SUFFICES ASSUME NEW g \in Feeds, shown[g] = "stopped", g \in held'[client]
               PROVE  \E i \in 1..Len(pipe') : Did(i, g, "start")'
    BY DEF StoppedToo, Stopped
  <2>1. CASE answer.reply = "ok" /\ g = f BY <1>0, <1>1, <1>2, <1>4, <2>1
  <2>2. CASE ~(answer.reply = "ok" /\ g = f)
    <3>1. g \in held[client] BY <1>1, <1>2, <2>2
    <3>2. PICK i \in 1..Len(pipe) : Did(i, g, "start") BY <1>6, <3>1 DEF StoppedToo, Stopped
    <3>3. QED BY <1>3, <1>4, <3>2
  <2>3. QED BY <2>1, <2>2
<1>9. RemovedToo' BY DEF RemovedToo, Removed
<1>10. QED BY <1>5, <1>7, <1>8, <1>9

LEMMA ServesKeepShown ==
  ASSUME LaunchInv, CallInv, ShownInv, [Next]_vars,
         (\E f \in Feeds : ServeUser(f)) \/ (\E r \in Restorers : ServeRestorer(r))
  PROVE  ShownInv'
<1>1. ASSUME NEW f \in Feeds, ServeUser(f) PROVE ShownInv'
  <2>1. /\ user[f].at = "answer" /\ user[f].on = client /\ client # None /\ client \in Servers
        /\ Method(user[f].cmd) \in {"start", "stop"}
    BY <1>1 DEF ServeUser, CallInv, Callers, GoodCall, LaunchInv, LaunchTypes, Method
  <2>2. Serve(f, client, f, Method(user[f].cmd)) /\ UNCHANGED <<client, active, user, shown>>
    BY <1>1, <2>1 DEF ServeUser, rest, serviceVars
  <2>3. QED BY <2>1, <2>2, ServeKeepsShown
<1>2. ASSUME NEW r \in Restorers, ServeRestorer(r) PROVE ShownInv'
  <2>1. restorer[r].at = "answer" /\ restorer[r].on = client /\ client # None /\ client \in Servers
    BY <1>2 DEF ServeRestorer, CallInv, Callers, GoodLoop, LaunchInv, LaunchTypes
  <2>2. PICK f \in Feeds : restorer[r].feed = {f} BY <2>1 DEF CallInv, Callers, GoodLoop
  <2>3. Serve(r, client, f, "start") /\ UNCHANGED <<client, active, user, shown>>
    BY <1>2, <2>1, <2>2 DEF ServeRestorer, rest, serviceVars
  <2>4. QED BY <2>1, <2>3, ServeKeepsShown
<1>3. QED BY <1>1, <1>2

LEMMA RestoredKeepsShown ==
  ASSUME LaunchInv, CallInv, CallInv', ShownInv, [Next]_vars, NEW r \in Restorers, Restored(r) PROVE ShownInv'
<1>1. /\ pipe # <<>> /\ pipe' = Tail(pipe) /\ pipe[1] \in Answers
      /\ shown' = [shown EXCEPT ![pipe[1].feed] =
                     Show(pipe[1].feed, IF pipe[1].reply = "ok" THEN "running" ELSE "error")]
      /\ UNCHANGED <<client, active, held, user>>
  BY RestoredFacts
<1>2. Taken(1) BY <1>1, TailRemains DEF CallInv, CallerTypes, Taken
<1>3. ASSUME NEW g \in Feeds
      PROVE  /\ shown'[g] = "stopped" => shown[g] = "stopped" /\ ~Did(1, g, "start")
             /\ shown'[g] = "removed" => shown[g] = "removed"
  <2>1. CASE g = pipe[1].feed
    <3>1. shown'[g] = Show(g, IF pipe[1].reply = "ok" THEN "running" ELSE "error")
      BY <1>1, <2>1 DEF CallInv, CallerTypes
    <3>2. QED BY <3>1 DEF Show
  <2>2. CASE g # pipe[1].feed BY <1>1, <2>2 DEF CallInv, CallerTypes, Did
  <2>3. QED BY <2>1, <2>2
<1>4. \A g \in Feeds : shown[g] = "stopped" => g \notin active'
  BY <1>1 DEF ShownInv, StoppedToo, Stopped
<1>5. QED BY <1>1, <1>2, <1>3, <1>4, ShownKept DEF CallInv

LEMMA RestoreTimesOutKeepsShown ==
  ASSUME LaunchInv, CallInv, CallInv', ShownInv, [Next]_vars, NEW r \in Restorers, RestoreTimesOut(r) PROVE ShownInv'
<1>1. UNCHANGED <<client, active, held, user>> BY DEF RestoreTimesOut, rest, serviceVars
<1>2. PICK f \in restorer[r].feed : Abandon(r, f) /\ shown' = [shown EXCEPT ![f] = Show(f, "error")]
  BY DEF RestoreTimesOut
<1>3. Taken(0) BY <1>2, AbandonFacts DEF CallInv, CallerTypes, Taken
<1>4. \A g \in Feeds : /\ shown'[g] = "stopped" => shown[g] = "stopped" /\ g \notin active'
                       /\ shown'[g] = "removed" => shown[g] = "removed"
  BY <1>1, <1>2 DEF Show, CallInv, CallerTypes, ShownInv, StoppedToo, Stopped
<1>5. QED BY <1>1, <1>3, <1>4, ShownKept DEF CallInv

LEMMA NotifiedLateKeepsShown ==
  ASSUME LaunchInv, CallInv, CallInv', ShownInv, [Next]_vars, NotifiedLate PROVE ShownInv'
<1>1. /\ pipe # <<>> /\ pipe' = Tail(pipe) /\ pipe[1] \in Answers
      /\ UNCHANGED <<client, held, user>>
      /\ \/ /\ pipe[1].method = "stop" /\ pipe[1].reply = "ok" /\ active' = active \ {pipe[1].feed}
            /\ shown' = [shown EXCEPT ![pipe[1].feed] = Show(pipe[1].feed, "stopped")]
         \/ /\ pipe[1].reply = "error" /\ active' = active /\ shown' = shown
         \/ /\ pipe[1].method = "start" /\ pipe[1].reply = "ok" /\ active' = active
            /\ shown' = [shown EXCEPT ![pipe[1].feed] = Show(pipe[1].feed, "running")]
  BY NotifiedLateFacts
<1>2. Taken(1) /\ 1 \in 1..Len(pipe) BY <1>1, TailRemains DEF CallInv, CallerTypes, Taken
<1>3. shown \in [Feeds -> TreeStates] /\ active' \subseteq active BY <1>1 DEF CallInv, CallerTypes
<1>4. ASSUME NEW g \in Feeds
      PROVE  /\ shown'[g] = "stopped" =>
                  /\ g \notin active'
                  /\ \/ shown[g] = "stopped" /\ ~Did(1, g, "start")
                     \/ Did(1, g, "stop")
             /\ shown'[g] = "removed" => shown[g] = "removed"
  <2> USE DEF ShownInv, StoppedToo, Stopped, Show, Did
  <2>1. CASE /\ pipe[1].method = "stop" /\ pipe[1].reply = "ok" /\ active' = active \ {pipe[1].feed}
             /\ shown' = [shown EXCEPT ![pipe[1].feed] = Show(pipe[1].feed, "stopped")]
    BY <1>2, <1>3, <2>1
  <2>2. CASE pipe[1].reply = "error" /\ active' = active /\ shown' = shown BY <1>3, <2>2
  <2>3. CASE /\ pipe[1].method = "start" /\ pipe[1].reply = "ok" /\ active' = active
             /\ shown' = [shown EXCEPT ![pipe[1].feed] = Show(pipe[1].feed, "running")]
    BY <1>3, <2>3
  <2>4. QED BY <1>1, <2>1, <2>2, <2>3
<1>5. QED BY <1>1, <1>2, <1>3, <1>4, ShownKept DEF CallInv

LEMMA BeginKeepsShown ==
  ASSUME LaunchInv, CallInv, CallInv', ShownInv, [Next]_vars, NEW f \in Feeds,
         StartOrRetry(f) \/ StopFeed(f) \/ EditFeed(f) \/ RemoveFeed(f)
  PROVE  ShownInv'
<1>1. /\ user[f].at = "idle" /\ UNCHANGED <<client, held, pipe>>
      /\ \/ /\ shown[f] # "removed" /\ UNCHANGED active
            /\ \E cmd \in Commands : user' = [user EXCEPT ![f] = Call(cmd)]
            /\ \/ shown' = shown
               \/ shown[f] = "stopped" /\ shown' = [shown EXCEPT ![f] = "starting"]
         \/ /\ user' = user /\ shown' = [shown EXCEPT ![f] = "removed"]
            /\ active' = active \ {f}
  BY BeginFacts
<1>2. Taken(0) BY <1>1, NoneAwaited DEF CallInv, CallerTypes, Taken
<1>3. ASSUME NEW g \in Feeds
      PROVE  /\ shown'[g] = "stopped" => g \notin active' /\ shown[g] = "stopped"
             /\ shown'[g] = "removed" =>
                  \/ g \notin active' /\ user'[g].at = "idle"
                  \/ shown[g] = "removed" /\ user'[g] = user[g] /\ (g \in active' => g \in active)
  BY <1>1 DEF ShownInv, StoppedToo, Stopped, CallInv, CallerTypes
<1>4. QED BY <1>1, <1>2, <1>3, ShownKept DEF CallInv

\* A step that only moves launches and servers, or tells what the polls of a watcher say.
LEMMA NewsKeepsShown ==
  ASSUME LaunchInv, CallInv, CallInv', ShownInv, [Next]_vars, UNCHANGED <<client, active, held, user, pipe>>,
         \/ shown' = shown
         \/ \E f \in Feeds, state \in {"running", "error"} : shown' = [shown EXCEPT ![f] = Show(f, state)]
  PROVE  ShownInv'
<1>1. \A g \in Feeds : /\ shown'[g] = "stopped" => shown[g] = "stopped" /\ g \notin active'
                       /\ shown'[g] = "removed" => shown[g] = "removed"
  BY DEF Show, CallInv, CallerTypes, ShownInv, StoppedToo, Stopped
<1>2. Taken(0) BY NoneAwaited DEF CallInv, CallerTypes, Taken
<1>3. QED BY <1>1, <1>2, ShownKept DEF CallInv

LEMMA ShownInit == Init => ShownInv
<1> SUFFICES ASSUME Init PROVE ShownInv OBVIOUS
<1>1. NothingEarly BY DEF Init, NothingEarly
<1>2. Told BY DEF Init, Told
<1>3. StoppedToo BY DEF Init, StoppedToo, Stopped
<1>4. RemovedToo BY DEF Init, RemovedToo
<1>5. QED BY <1>1, <1>2, <1>3, <1>4 DEF ShownInv

LEMMA ShownStep == LaunchInv /\ CallInv /\ ShownInv /\ [Next]_vars => ShownInv'
<1> SUFFICES ASSUME LaunchInv, CallInv, ShownInv, [Next]_vars PROVE ShownInv' OBVIOUS
<1>1. CallInv' BY CallStep
<1>2. ASSUME NEW k \in Servers, LaunchNext(k) PROVE ShownInv'
  <2>1. CASE Discover(k)
    <3>1. CASE LaunchFails(k) BY <3>1, LaunchFailsKeepsShown
    <3>2. CASE ~LaunchFails(k) BY <1>1, <2>1, <3>2, NewsKeepsShown DEF Discover, serviceVars
    <3>3. QED BY <3>1, <3>2
  <2>2. CASE Spawned(k) BY <2>2, SpawnedKeepsShown
  <2>3. CASE HandshakeOk(k) BY <1>1, <2>3, HandshakeOkKeepsShown
  <2>4. CASE HandshakeFails(k)
    <3>1. PICK restartBackend \in AutoRestart : HandleClose(k, restartBackend) BY <2>4 DEF HandshakeFails
    <3>2. client = k /\ held' = held /\ restartBackend \in BOOLEAN
      BY <2>4, BackendAssumption DEF HandshakeFails, LaunchInv, OneLaunch
    <3>3. QED BY <3>1, <3>2, ClientEndKeepsShown
  <2>5. CASE Crash(k)
    <3>1. PICK restartBackend \in AutoRestart : HandleClose(k, restartBackend) BY <2>5 DEF Crash
    <3>2. client = k /\ held' = held /\ restartBackend \in BOOLEAN BY <2>5, BackendAssumption DEF Crash
    <3>3. QED BY <3>1, <3>2, ClientEndKeepsShown
  <2>6. CASE Exit(k) BY <1>1, <2>6, NewsKeepsShown DEF Exit, serviceVars
  <2>7. QED BY <1>2, <2>1, <2>2, <2>3, <2>4, <2>5, <2>6 DEF LaunchNext
<1>3. ASSUME NEW f \in Feeds, UserNext(f) PROVE ShownInv'
  <2>1. ASSUME NEW state \in Reports, PollNews(f, state) PROVE ShownInv'
    <3>1. state \in {"running", "error"} BY BackendAssumption
    <3>2. UNCHANGED <<client, active, held, user, pipe>> /\ shown' = [shown EXCEPT ![f] = Show(f, state)]
      BY <2>1 DEF PollNews, rest, serviceVars
    <3>3. QED BY <1>1, <3>1, <3>2, NewsKeepsShown
  <2>2. QED BY <1>1, <1>3, <2>1, BeginKeepsShown, CallKeepsShown, ServesKeepShown, AnsweredKeepsShown,
               TimesOutKeepsShown DEF UserNext
<1>4. ASSUME NEW r \in Restorers, RestorerNext(r) PROVE ShownInv'
  <2>1. CASE TimerFires(r)
    <3>1. UNCHANGED <<client, active, held, user, pipe, shown>> BY <2>1 DEF TimerFires
    <3>2. QED BY <1>1, <3>1, NewsKeepsShown
  <2>2. CASE Restart(r)
    <3>1. PICK loops \in [Restorers -> Loops] : Quietly(loops) /\ held' = held BY <2>2, RestartFacts
    <3>2. QED BY <3>1, QuietEndKeepsShown
  <2>3. QED BY <1>1, <1>4, <2>1, <2>2, ServesKeepShown, RestoredKeepsShown, RestoreTimesOutKeepsShown
            DEF RestorerNext
<1>5. CASE NotifiedLate BY <1>1, <1>5, NotifiedLateKeepsShown
<1>6. CASE Dispose
  <2>1. Quietly(restorer) /\ held' = held BY <1>6 DEF Dispose
  <2>2. restorer \in [Restorers -> Loops] BY DEF CallInv, CallerTypes
  <2>3. QED BY <2>1, <2>2, QuietEndKeepsShown
<1>7. CASE UNCHANGED vars BY <1>1, <1>7, NewsKeepsShown DEF vars, serviceVars
<1>8. QED BY <1>2, <1>3, <1>4, <1>5, <1>6, <1>7 DEF Next

LEMMA ShownInvariant == Spec => [](LaunchInv /\ CallInv /\ ShownInv)
<1>1. LaunchInv /\ CallInv /\ ShownInv /\ [Next]_vars => LaunchInv' /\ CallInv' /\ ShownInv'
  BY LaunchStep, CallStep, ShownStep
<1>2. Init => LaunchInv /\ CallInv /\ ShownInv BY LaunchInit, CallInit, ShownInit
<1>3. QED BY <1>1, <1>2, PTL DEF Spec

\* A feed shown as stopped will not be restored after a crash, and is not polled unless
\* the answer of a later start is under way: whatever commands, timeouts, crashes and
\* restores went before (dashboard.ts and extension.ts, the stop commands; backend.ts,
\* forgetActive).
THEOREM StoppedStaysStopped == Spec => []StoppedIsStopped
<1>1. CallInv /\ ShownInv => StoppedIsStopped
  <2> SUFFICES ASSUME CallInv, ShownInv, NEW f \in Feeds, shown[f] = "stopped"
               PROVE  /\ f \notin active
                      /\ client # None /\ f \in held[client] =>
                           \E i \in DOMAIN pipe : pipe[i].feed = f /\ pipe[i].method = "start"
    BY DEF StoppedIsStopped
  <2>1. Stopped(f) BY DEF ShownInv, StoppedToo
  <2>2. DOMAIN pipe = 1..Len(pipe) BY DEF CallInv, CallerTypes
  <2>3. QED BY <2>1, <2>2 DEF Stopped, Did
<1>2. QED BY <1>1, ShownInvariant, PTL

-----------------------------------------------------------------------------
(* The active feeds that nothing polls *)

\* The loop has the feed before it: it has not met it, or is at it, and is not one whose
\* launch was superseded and will fail without being tried again.
Hopeful(loop, f) ==
  \/ loop.at = "launch" /\ (loop.byTimer \/ loop.on \notin superseded)
  \/ loop.at = "answer" /\ (f \notin loop.visited \/ f \in loop.feed)

Hope(f) ==
  \/ client # None /\ f \in held[client]
  \/ timer
  \/ \E r \in Restorers : Hopeful(restorer[r], f)
  \/ \E i \in 1..Len(pipe) : Did(i, f, "stop")
  \/ shown[f] = "error"

Covered == ~disposed /\ ~gaveUp => \A f \in active : Hope(f)

\* A step that takes from f none of what it had, or gives it something else.
LEMMA HopeRemains ==
  ASSUME CallInv, CallInv', NEW f \in Feeds, Hope(f),
         UNCHANGED <<client, held, superseded>>, timer => timer' \/ Hope(f)',
         \A r \in Restorers :
           \/ Kept(restorer[r], restorer'[r])
           \/ Hopeful(restorer[r], f) => Hopeful(restorer[r], f)' \/ Hope(f)',
         NEW d \in {0, 1}, Taken(d), d = 1 => ~Did(1, f, "stop"),
         shown[f] = "error" => shown'[f] = "error" \/ Hope(f)'
  PROVE  Hope(f)'
<1>1. CallerTypes /\ CallerTypes' BY DEF CallInv
<1>2. CASE client # None /\ f \in held[client] BY <1>2 DEF Hope
<1>3. CASE timer BY <1>3 DEF Hope
<1>4. CASE \E r \in Restorers : Hopeful(restorer[r], f)
  <2>1. PICK r \in Restorers : Hopeful(restorer[r], f) BY <1>4
  <2>2. Kept(restorer[r], restorer'[r]) => Hopeful(restorer[r], f)' BY <2>1 DEF Hopeful, Kept
  <2>3. Hopeful(restorer[r], f)' \/ Hope(f)' BY <2>1, <2>2
  <2>4. QED BY <2>3 DEF Hope
<1>5. CASE \E i \in 1..Len(pipe) : Did(i, f, "stop")
  <2>1. PICK i \in 1..Len(pipe) : Did(i, f, "stop") BY <1>5
  <2>2. i > d BY <2>1 DEF CallInv, CallerTypes
  <2>3. i - d \in 1..Len(pipe') /\ Did(i - d, f, "stop")'
    BY <1>1, <2>1, <2>2, DidRemains DEF CallerTypes
  <2>4. QED BY <2>3 DEF Hope
<1>6. CASE shown[f] = "error" BY <1>6 DEF Hope
<1>7. QED BY <1>2, <1>3, <1>4, <1>5, <1>6 DEF Hope

\* The first answer said that f was started: it still is, or was stopped since.
LEMMA HopeFromHead ==
  ASSUME CallInv, CallInv', ShownInv, client # None, NEW f \in Feeds, Did(1, f, "start"), Taken(1),
         UNCHANGED <<client, held>>
  PROVE  Hope(f)'
<1>1. CASE f \in held[client] BY <1>1 DEF Hope
<1>2. CASE f \notin held[client]
  <2>1. 1 \in 1..Len(pipe) BY DEF Did
  <2>2. PICK j \in 1..Len(pipe) : j > 1 /\ Did(j, f, "stop")
    BY <1>2, <2>1 DEF ShownInv, Told, Truly
  <2>3. j - 1 \in 1..Len(pipe') /\ Did(j - 1, f, "stop")'
    BY <2>2, DidRemains DEF CallInv, CallerTypes
  <2>4. QED BY <2>3 DEF Hope
<1>3. QED BY <1>1, <1>2

\* An active feed whose command failed is shown as failed.
LEMMA FailedIsShown ==
  ASSUME ShownInv, NEW f \in Feeds, WentOn(f, "error"), f \in active' PROVE shown'[f] = "error"
BY DEF WentOn, ShownInv, RemovedToo, Removed, Show

LEMMA LaunchFailsKeepsHope ==
  ASSUME LaunchInv, CallInv, CallInv', ShownInv, Covered, NEW k \in Servers, LaunchFails(k),
         ~disposed', ~gaveUp', NEW f \in active'
  PROVE  Hope(f)'
<1>1. /\ UNCHANGED <<client, held, superseded, pipe>> /\ active' \subseteq active
      /\ \A g \in Feeds :
           \/ user[g].at = "launch" /\ WentOn(g, "error")
           \/ user'[g] = user[g] /\ shown'[g] = shown[g] /\ (g \in active' <=> g \in active)
      /\ \A r \in Restorers : Kept(IF r \in LaunchersOf(k) THEN AtRest ELSE restorer[r], restorer'[r])
  BY LaunchFailsFacts DEF LaunchFails
<1>2. ~disposed BY DEF LaunchFails
<1>3. ~gaveUp /\ ~GivesUp(k) BY DEF LaunchFails
<1>4. timer \/ RetryLater(k) => timer' BY <1>2 DEF LaunchFails
<1>5. f \in Feeds /\ Hope(f) BY <1>1, <1>2, <1>3 DEF Covered, CallInv, CallerTypes
<1>6. ASSUME NEW r \in Restorers
      PROVE  \/ Kept(restorer[r], restorer'[r])
             \/ Hopeful(restorer[r], f) => Hopeful(restorer[r], f)' \/ Hope(f)'
  <2>1. CASE r \in LaunchersOf(k)
    <3>1. restorer[r].at = "launch" /\ restorer[r].on = k BY <2>1 DEF LaunchersOf
    <3>2. CASE restorer[r].byTimer BY <1>4, <2>1, <3>2 DEF RetryLater, Hope
    <3>3. CASE ~restorer[r].byTimer
      <4>1. k \in superseded BY <1>3, <2>1, <3>3 DEF GivesUp
      <4>2. QED BY <3>1, <3>3, <4>1 DEF Hopeful
    <3>4. QED BY <3>2, <3>3
  <2>2. CASE r \notin LaunchersOf(k) BY <1>1, <2>2
  <2>3. QED BY <2>1, <2>2
<1>7. shown[f] = "error" => shown'[f] = "error" BY <1>1, <1>5, FailedIsShown
<1>8. Taken(0) BY <1>1, NoneAwaited DEF CallInv, CallerTypes, Taken
<1>9. QED BY <1>1, <1>4, <1>5, <1>6, <1>7, <1>8, HopeRemains

LEMMA SpawnedKeepsHope ==
  ASSUME LaunchInv, CallInv, CallInv', ShownInv, Covered, NEW k \in Servers, Spawned(k),
         ~disposed', ~gaveUp', NEW f \in active'
  PROVE  Hope(f)'
<1>1. CASE LaunchFails(k) BY <1>1, LaunchFailsKeepsHope
<1>2. CASE ~LaunchFails(k)
  <2>1. /\ ~Superseded(k) /\ launch[k] = "spawn"
        /\ UNCHANGED <<timer, active, disposed, gaveUp, superseded, restorer, pipe, shown>>
    BY <1>2 DEF Spawned
  <2>2. client = None BY <2>1 DEF LaunchInv, OneLaunch, Superseded, Young
  <2>3. Hope(f) BY <2>1 DEF Covered
  <2>4. CASE \E r \in Restorers : Hopeful(restorer[r], f) BY <2>1, <2>4 DEF Hope, Hopeful
  <2>5. CASE \E i \in 1..Len(pipe) : Did(i, f, "stop") BY <2>1, <2>5 DEF Hope, Did
  <2>6. CASE timer BY <2>1, <2>6 DEF Hope
  <2>7. QED BY <2>1, <2>2, <2>3, <2>4, <2>5, <2>6 DEF Hope
<1>3. QED BY <1>1, <1>2

\* The loops that waited for the launch have every active feed before them.
LEMMA HandshakeOkKeepsHope ==
  ASSUME LaunchInv, CallInv, CallInv', ShownInv, Covered, NEW k \in Servers, HandshakeOk(k),
         ~disposed', ~gaveUp', NEW f \in active'
  PROVE  Hope(f)'
<1>1. UNCHANGED <<client, timer, active, disposed, superseded, held, pipe, shown>> BY DEF HandshakeOk
<1>2. PICK next \in [LaunchersOf(k) -> UNION {NextFeed(restorer[r], active) : r \in LaunchersOf(k)}] :
        /\ \A r \in LaunchersOf(k) : next[r] \in NextFeed(restorer[r], active)
        /\ restorer' = [r \in Restorers |-> IF r \in LaunchersOf(k) THEN next[r] ELSE restorer[r]]
  BY DEF HandshakeOk
<1>3. f \in active /\ f \in Feeds /\ active \in SUBSET Feeds BY <1>1 DEF CallInv, CallerTypes
<1>4. ASSUME NEW r \in LaunchersOf(k) PROVE Hopeful(restorer[r], f)'
  <2>1. r \in Restorers /\ restorer[r].at = "launch" BY DEF LaunchersOf
  <2>2. restorer[r] \in Loops /\ restorer[r].visited = {}
    BY <2>1 DEF CallInv, CallerTypes, Callers, GoodLoop
  <2>3. restorer'[r] \in NextFeed(restorer[r], active) BY <1>2, <2>1
  <2>4. /\ restorer'[r].at = "answer"
        /\ \E g \in active : restorer'[r].feed = {g} /\ restorer'[r].visited = restorer[r].visited \cup {g}
    BY <1>3, <2>2, <2>3, NextFeedFacts
  <2>5. QED BY <2>2, <2>4 DEF Hopeful
<1>5. CASE LaunchersOf(k) # {}
  <2>1. PICK r \in LaunchersOf(k) : TRUE BY <1>5
  <2>2. QED BY <1>4, <2>1 DEF Hope, LaunchersOf
<1>6. CASE LaunchersOf(k) = {}
  <2>1. ~gaveUp BY <1>6 DEF HandshakeOk
  <2>2. ~disposed BY <1>1
  <2>3. Hope(f) BY <1>3, <2>1, <2>2 DEF Covered
  <2>4. Taken(0) BY <1>1, NoneAwaited DEF CallInv, CallerTypes, Taken
  <2>5. \A r \in Restorers : Kept(restorer[r], restorer'[r])
    BY <1>2, <1>6 DEF Kept, CallInv, CallerTypes
  <2>6. timer => timer' BY <1>1
  <2>7. QED BY <1>1, <1>3, <2>3, <2>4, <2>5, <2>6, HopeRemains
<1>7. QED BY <1>5, <1>6

\* The server ended: a restart is scheduled, or every active feed is shown as failed.
LEMMA ClientEndKeepsHope ==
  ASSUME LaunchInv, CallInv, ShownInv, NEW k \in Servers, client = k,
         NEW restartBackend \in BOOLEAN, HandleClose(k, restartBackend), NEW f \in active'
  PROVE  Hope(f)'
<1> DEFINE restarts == active # {} /\ restartBackend
           noted == IF restarts THEN "starting" ELSE "error"
<1>1. CloseClient(k, noted, restorer) /\ noted \in {"none", "starting", "error"} BY DEF HandleClose
<1>2. restarts => timer' BY DEF HandleClose
<1>3. ~restarts => noted = "error" OBVIOUS
<1> HIDE DEF restarts, noted
<1>4. restorer \in [Restorers -> Loops] BY DEF CallInv, CallerTypes
<1>5. /\ active' \subseteq active
      /\ \A g \in Feeds :
           \/ WentOn(g, "error")
           \/ shown'[g] = Show(g, News(k, noted, g)) /\ (g \in active' <=> g \in active)
  BY <1>1, <1>4, CloseClientFacts
<1>6. f \in active /\ f \in Feeds BY <1>5 DEF CallInv, CallerTypes
<1>7. CASE restarts BY <1>2, <1>7 DEF Hope
<1>8. CASE ~restarts
  <2>1. CASE WentOn(f, "error") BY <1>6, <2>1, FailedIsShown DEF Hope
  <2>2. CASE shown'[f] = Show(f, News(k, noted, f))
    <3>1. News(k, noted, f) = "error" BY <1>3, <1>6, <1>8 DEF News
    <3>2. shown[f] # "removed" BY <1>6 DEF ShownInv, RemovedToo, Removed
    <3>3. QED BY <2>2, <3>1, <3>2 DEF Show, Hope
  <2>3. QED BY <1>5, <1>6, <2>1, <2>2
<1>9. QED BY <1>7, <1>8

LEMMA TimerKeepsHope ==
  ASSUME LaunchInv, CallInv, NEW r \in Restorers, TimerFires(r), NEW f \in active'
  PROVE  Hope(f)'
<1>1. /\ active' = active
      /\ client = None => restorer'[r].at = "launch" /\ restorer'[r].byTimer
      /\ client # None =>
           \/ restorer'[r].at = "idle" /\ active = {}
           \/ /\ restorer'[r].at = "answer"
              /\ \E g \in active : restorer'[r].feed = {g} /\ restorer'[r].visited = {g}
  BY TimerFacts
<1>2. Hopeful(restorer[r], f)' BY <1>1 DEF Hopeful
<1>3. QED BY <1>2 DEF Hope

\* The loop a restart begins has every active feed before it.
LEMMA RestartKeepsHope ==
  ASSUME LaunchInv, CallInv, NEW r \in Restorers, Restart(r), NEW f \in active'
  PROVE  Hope(f)'
<1>1. PICK loops \in [Restorers -> Loops] :
        /\ Quietly(loops)
        /\ restorer[r].at = "idle"
        /\ active # {} => loops[r].at = "launch" /\ loops[r].on = starting' /\ starting' \notin superseded'
  BY RestartFacts
<1>2. /\ active' \subseteq active
      /\ \A x \in Restorers : \/ restorer[x].at # "idle" /\ Kept(AtRest, restorer'[x])
                              \/ restorer[x].at # "answer" /\ Kept(loops[x], restorer'[x])
  BY <1>1, QuietlyFacts
<1>3. Kept(loops[r], restorer'[r]) BY <1>1, <1>2
<1>4. Hopeful(restorer[r], f)' BY <1>1, <1>2, <1>3 DEF Hopeful, Kept
<1>5. QED BY <1>4 DEF Hope

LEMMA ServeKeepsHope ==
  ASSUME CallInv, NEW caller \in Feeds \cup Restorers, NEW f \in Feeds,
         NEW method \in {"start", "stop"}, client \in Servers, Serve(caller, client, f, method),
         UNCHANGED <<client, timer, superseded, restorer, shown>>, NEW g \in Feeds, Hope(g)
  PROVE  Hope(g)'
<1>1. PICK answer \in Answers :
        /\ answer.feed = f /\ answer.method = method
        /\ Len(pipe') = Len(pipe) + 1
        /\ \A i \in 1..Len(pipe) : pipe'[i] = pipe[i]
        /\ pipe'[Len(pipe) + 1] = answer
        /\ answer.reply = "error" => held' = held
        /\ answer.reply = "ok" =>
             /\ (f \in held'[client]) <=> (method = "start")
             /\ \A j \in Servers, h \in Feeds :
                  j # client \/ h # f => (h \in held'[j] <=> h \in held[j])
  BY ServeFacts
<1>2. Len(pipe) \in Nat /\ answer.reply \in {"ok", "error"} BY DEF CallInv, CallerTypes, Answers
<1>3. PICK last \in 1..Len(pipe') : last = Len(pipe) + 1 BY <1>1, <1>2
<1>4. CASE client # None /\ g \in held[client]
  <2>1. CASE g \in held'[client] BY <1>4, <2>1 DEF Hope
  <2>2. CASE g \notin held'[client]
    <3>1. answer.reply = "ok" /\ g = f /\ method = "stop" BY <1>1, <1>2, <1>4, <2>2
    <3>2. Did(last, g, "stop")' BY <1>1, <1>3, <3>1 DEF Did
    <3>3. QED BY <3>2 DEF Hope
  <2>3. QED BY <2>1, <2>2
<1>5. CASE timer BY <1>5 DEF Hope
<1>6. CASE \E r \in Restorers : Hopeful(restorer[r], g) BY <1>6 DEF Hope, Hopeful
<1>7. CASE \E i \in 1..Len(pipe) : Did(i, g, "stop")
  <2>1. PICK i \in 1..Len(pipe) : Did(i, g, "stop") BY <1>7
  <2>2. i \in 1..Len(pipe') /\ Did(i, g, "stop")' BY <1>1, <1>2, <2>1 DEF Did
  <2>3. QED BY <2>2 DEF Hope
<1>8. CASE shown[g] = "error" BY <1>8 DEF Hope
<1>9. QED BY <1>4, <1>5, <1>6, <1>7, <1>8 DEF Hope

LEMMA ServesKeepHope ==
  ASSUME LaunchInv, CallInv, Covered,
         (\E g \in Feeds : ServeUser(g)) \/ (\E r \in Restorers : ServeRestorer(r)),
         ~disposed', ~gaveUp', NEW f \in active'
  PROVE  Hope(f)'
<1>1. UNCHANGED <<client, timer, active, disposed, gaveUp, superseded, restorer, shown>>
  BY DEF ServeUser, ServeRestorer, rest, serviceVars, launchVars
<1>2. f \in Feeds /\ Hope(f) BY <1>1 DEF Covered, CallInv, CallerTypes
<1>3. ASSUME NEW g \in Feeds, ServeUser(g) PROVE Hope(f)'
  <2>1. /\ user[g].at = "answer" /\ user[g].on = client /\ client # None /\ client \in Servers
        /\ Method(user[g].cmd) \in {"start", "stop"}
    BY <1>3 DEF ServeUser, CallInv, Callers, GoodCall, LaunchInv, LaunchTypes, Method
  <2>2. Serve(g, client, g, Method(user[g].cmd)) BY <1>3, <2>1 DEF ServeUser
  <2>3. QED BY <1>1, <1>2, <2>1, <2>2, ServeKeepsHope
<1>4. ASSUME NEW r \in Restorers, ServeRestorer(r) PROVE Hope(f)'
  <2>1. restorer[r].at = "answer" /\ restorer[r].on = client /\ client # None /\ client \in Servers
    BY <1>4 DEF ServeRestorer, CallInv, Callers, GoodLoop, LaunchInv, LaunchTypes
  <2>2. PICK g \in Feeds : restorer[r].feed = {g} BY <2>1 DEF CallInv, Callers, GoodLoop
  <2>3. Serve(r, client, g, "start") BY <1>4, <2>1, <2>2 DEF ServeRestorer
  <2>4. QED BY <1>1, <1>2, <2>1, <2>3, ServeKeepsHope
<1>5. QED BY <1>3, <1>4

\* A start that succeeded is remembered while the server polls the feed, or has stopped
\* it since; a command that failed is shown.
LEMMA ContinueKeepsHope ==
  ASSUME CallInv, CallInv', ShownInv, Covered,
         NEW g \in Feeds, user[g].at = "answer", NEW reply \in {"ok", "error"}, Continue(g, reply),
         UNCHANGED <<client, timer, disposed, gaveUp, superseded, held>>, NEW d \in {0, 1}, Taken(d),
         d = 0 => reply = "error",
         d = 1 => pipe[1].feed = g /\ (reply = "ok" => Did(1, g, Method(user[g].cmd))),
         ~disposed', ~gaveUp', NEW f \in active'
  PROVE  Hope(f)'
<1>1. CallerTypes /\ user[g].cmd \in Commands /\ client # None BY DEF CallInv, Callers, GoodCall
<1>2. /\ active' \subseteq Feeds /\ WentOn(g, reply)
      /\ \A h \in Feeds \ {g} : shown'[h] = shown[h] /\ (h \in active' <=> h \in active)
      /\ \A r \in Restorers : Kept(restorer[r], restorer'[r])
  BY <1>1, ContinueFacts
<1>3. CASE f = g
  <2>1. CASE user[g].cmd = "start" /\ reply = "ok"
    <3>1. d = 1 /\ Did(1, f, "start") BY <1>3, <2>1 DEF Method
    <3>2. QED BY <1>1, <1>2, <3>1, HopeFromHead
  <2>2. CASE ~(user[g].cmd = "start" /\ reply = "ok")
    <3>1. reply = "error" BY <1>3, <2>2 , <1>2 DEF WentOn
    <3>2. QED BY <1>2, <1>3, <3>1, FailedIsShown DEF Hope
  <2>3. QED BY <2>1, <2>2
<1>4. CASE f # g
  <2>1. f \in Feeds /\ f \in active /\ shown'[f] = shown[f] BY <1>2, <1>4
  <2>2. ~disposed /\ ~gaveUp OBVIOUS
  <2>3. Hope(f) BY <2>1, <2>2 DEF Covered
  <2>4. timer => timer' OBVIOUS
  <2>5. d = 1 => ~Did(1, f, "stop") BY <1>4 DEF Did
  <2>6. QED BY <1>2, <2>1, <2>3, <2>4, <2>5, HopeRemains
<1>5. QED BY <1>3, <1>4

LEMMA AnsweredKeepsHope ==
  ASSUME CallInv, CallInv', ShownInv, Covered, NEW g \in Feeds, Answered(g),
         ~disposed', ~gaveUp', NEW f \in active'
  PROVE  Hope(f)'
<1>1. /\ user[g].at = "answer"
      /\ pipe # <<>> /\ pipe' = Tail(pipe) /\ pipe[1] \in Answers /\ pipe[1].feed = g
      /\ pipe[1].method = Method(user[g].cmd) /\ Continue(g, pipe[1].reply)
      /\ UNCHANGED <<client, timer, disposed, gaveUp, superseded, held>>
  BY AnsweredFacts
<1>2. Taken(1) /\ 1 \in 1..Len(pipe) /\ pipe[1].reply \in {"ok", "error"}
  BY <1>1, TailRemains DEF CallInv, CallerTypes, Answers, Taken
<1>3. pipe[1].reply = "ok" => Did(1, g, Method(user[g].cmd)) BY <1>1, <1>2 DEF Did
<1>4. QED BY <1>1, <1>2, <1>3, ContinueKeepsHope

LEMMA TimesOutKeepsHope ==
  ASSUME CallInv, CallInv', ShownInv, Covered, NEW g \in Feeds, TimesOut(g),
         ~disposed', ~gaveUp', NEW f \in active'
  PROVE  Hope(f)'
<1>1. /\ user[g].at = "answer" /\ Continue(g, "error") /\ Abandon(g, g)
      /\ UNCHANGED <<client, timer, disposed, gaveUp, superseded, held>>
  BY DEF TimesOut, launchVars
<1>2. Taken(0) BY <1>1, AbandonFacts DEF CallInv, CallerTypes, Taken
<1>3. QED BY <1>1, <1>2, ContinueKeepsHope

\* A loop goes on: what it had before it, it still has, but for the feed it was at.
LEMMA LoopKeepsHope ==
  ASSUME CallInv, NEW r \in Restorers, restorer[r].at = "answer", NEW next \in NextFeed(restorer[r], active),
         restorer' = [restorer EXCEPT ![r] = next], superseded' = superseded, NEW f \in active
  PROVE  \A x \in Restorers : Hopeful(restorer[x], f) =>
           Hopeful(restorer[x], f)' \/ (x = r /\ f \in restorer[r].feed)
<1>1. /\ \A x \in Restorers \ {r} : restorer'[x] = restorer[x]
      /\ \/ restorer'[r].at = "idle" /\ active \subseteq restorer[r].visited
         \/ /\ restorer'[r].at = "answer"
            /\ \E g \in active : restorer'[r].feed = {g} /\ restorer'[r].visited = restorer[r].visited \cup {g}
  BY LoopGoesOn
<1>2. \A x \in Restorers \ {r} : Hopeful(restorer[x], f) => Hopeful(restorer[x], f)' BY <1>1 DEF Hopeful
<1>3. Hopeful(restorer[r], f) => f \in restorer[r].feed \/ Hopeful(restorer[r], f)'
  BY <1>1 DEF Hopeful
<1>4. QED BY <1>2, <1>3

LEMMA RestoredKeepsHope ==
  ASSUME CallInv, CallInv', ShownInv, Covered, NEW r \in Restorers, Restored(r),
         ~disposed', ~gaveUp', NEW f \in active'
  PROVE  Hope(f)'
<1>1. PICK next \in NextFeed(restorer[r], active) : restorer' = [restorer EXCEPT ![r] = next]
  BY RestoredFacts
<1>2. /\ pipe # <<>> /\ pipe' = Tail(pipe) /\ pipe[1] \in Answers /\ pipe[1].method = "start"
      /\ restorer[r].at = "answer" /\ restorer[r].feed = {pipe[1].feed}
      /\ shown' = [shown EXCEPT ![pipe[1].feed] =
                     Show(pipe[1].feed, IF pipe[1].reply = "ok" THEN "running" ELSE "error")]
      /\ UNCHANGED <<client, disposed, gaveUp, timer, active, superseded, held>>
  BY RestoredFacts
<1>3. Taken(1) /\ 1 \in 1..Len(pipe) /\ client # None
  BY <1>2, TailRemains DEF CallInv, CallerTypes, Callers, GoodLoop, Taken
<1>4. f \in active /\ f \in Feeds /\ Hope(f) BY <1>2 DEF Covered, CallInv, CallerTypes
<1>5. shown[f] # "removed" BY <1>4 DEF ShownInv, RemovedToo, Removed
<1>6. CASE f = pipe[1].feed
  <2>1. CASE pipe[1].reply = "ok"
    <3>1. Did(1, f, "start") BY <1>2, <1>3, <1>6, <2>1 DEF Did
    <3>2. QED BY <1>2, <1>3, <1>4, <3>1, HopeFromHead
  <2>2. CASE pipe[1].reply # "ok"
    <3>1. shown'[f] = "error" BY <1>2, <1>4, <1>5, <1>6, <2>2 DEF Show, CallInv, CallerTypes
    <3>2. QED BY <3>1 DEF Hope
  <2>3. QED BY <2>1, <2>2
<1>7. CASE f # pipe[1].feed
  <2>1. \A x \in Restorers : Hopeful(restorer[x], f) => Hopeful(restorer[x], f)'
    BY <1>1, <1>2, <1>4, <1>7, LoopKeepsHope
  <2>2. shown'[f] = shown[f] BY <1>2, <1>4, <1>7 DEF CallInv, CallerTypes
  <2>3. timer => timer' BY <1>2
  <2>4. ~Did(1, f, "stop") BY <1>7 DEF Did
  <2>5. QED BY <1>2, <1>3, <1>4, <2>1, <2>2, <2>3, <2>4, HopeRemains
<1>8. QED BY <1>6, <1>7

LEMMA RestoreTimesOutKeepsHope ==
  ASSUME CallInv, CallInv', ShownInv, Covered, NEW r \in Restorers, RestoreTimesOut(r),
         ~disposed', ~gaveUp', NEW f \in active'
  PROVE  Hope(f)'
<1>1. PICK next \in NextFeed(restorer[r], active) : restorer' = [restorer EXCEPT ![r] = next]
  BY DEF RestoreTimesOut
<1>2. PICK g \in restorer[r].feed : Abandon(r, g) /\ shown' = [shown EXCEPT ![g] = Show(g, "error")]
  BY DEF RestoreTimesOut
<1>3. restorer[r].at = "answer" /\ UNCHANGED <<client, disposed, gaveUp, timer, active, superseded, held>>
  BY DEF RestoreTimesOut, rest, serviceVars, launchVars
<1>4. Taken(0) BY <1>2, AbandonFacts DEF CallInv, CallerTypes, Taken
<1>5. f \in active /\ f \in Feeds /\ Hope(f) BY <1>3 DEF Covered, CallInv, CallerTypes
<1>6. shown[f] # "removed" BY <1>5 DEF ShownInv, RemovedToo, Removed
<1>7. restorer[r].feed = {g} BY <1>2, <1>3 DEF CallInv, Callers, GoodLoop
<1>8. CASE f = g
  <2>1. shown'[f] = "error" BY <1>2, <1>5, <1>6, <1>8 DEF Show, CallInv, CallerTypes
  <2>2. QED BY <2>1 DEF Hope
<1>9. CASE f # g
  <2>1. \A x \in Restorers : Hopeful(restorer[x], f) => Hopeful(restorer[x], f)'
    BY <1>1, <1>3, <1>5, <1>7, <1>9, LoopKeepsHope
  <2>2. shown'[f] = shown[f] BY <1>2, <1>5, <1>9 DEF CallInv, CallerTypes
  <2>3. timer => timer' BY <1>3
  <2>4. QED BY <1>3, <1>4, <1>5, <2>1, <2>2, <2>3, HopeRemains
<1>10. QED BY <1>8, <1>9

LEMMA NotifiedLateKeepsHope ==
  ASSUME CallInv, CallInv', ShownInv, Covered, NotifiedLate,
         ~disposed', ~gaveUp', NEW f \in active'
  PROVE  Hope(f)'
<1>1. /\ pipe # <<>> /\ pipe' = Tail(pipe) /\ pipe[1] \in Answers
      /\ UNCHANGED <<client, disposed, gaveUp, timer, superseded, held>>
      /\ \A r \in Restorers : Kept(restorer[r], restorer'[r])
      /\ \/ /\ pipe[1].method = "stop" /\ pipe[1].reply = "ok" /\ active' = active \ {pipe[1].feed}
            /\ shown' = [shown EXCEPT ![pipe[1].feed] = Show(pipe[1].feed, "stopped")]
         \/ /\ pipe[1].reply = "error" /\ active' = active /\ shown' = shown
         \/ /\ pipe[1].method = "start" /\ pipe[1].reply = "ok" /\ active' = active
            /\ shown' = [shown EXCEPT ![pipe[1].feed] = Show(pipe[1].feed, "running")]
  BY NotifiedLateFacts
<1>2. Taken(1) /\ 1 \in 1..Len(pipe) BY <1>1, TailRemains DEF CallInv, CallerTypes, Taken
<1>3. client # None BY <1>2 DEF CallInv, Answering
<1>4. f \in active /\ f \in Feeds BY <1>1 DEF CallInv, CallerTypes
<1>5. Hope(f) BY <1>1, <1>4 DEF Covered
<1>6. CASE f = pipe[1].feed /\ pipe[1].reply = "ok"
  <2>1. Did(1, f, "start") BY <1>1, <1>2, <1>6 DEF Did
  <2>2. QED BY <1>1, <1>2, <1>3, <1>4, <2>1, HopeFromHead
<1>7. CASE ~(f = pipe[1].feed /\ pipe[1].reply = "ok")
  <2>1. shown'[f] = shown[f] BY <1>1, <1>4, <1>7 DEF CallInv, CallerTypes
  <2>2. timer => timer' BY <1>1
  <2>3. ~Did(1, f, "stop") BY <1>7 DEF Did
  <2>4. QED BY <1>1, <1>2, <1>4, <1>5, <2>1, <2>2, <2>3, HopeRemains
<1>8. QED BY <1>6, <1>7

\* Steps that leave the active feeds, the restores and the pipe alone.
LEMMA NewsKeepsHope ==
  ASSUME CallInv, CallInv', Covered, ~disposed', ~gaveUp',
         UNCHANGED <<client, timer, disposed, gaveUp, superseded, held, pipe>>,
         \A r \in Restorers : Kept(restorer[r], restorer'[r]),
         NEW f \in active', f \in active,
         shown[f] = "error" => shown'[f] = "error" \/ Hope(f)'
  PROVE  Hope(f)'
<1>1. Taken(0) BY NoneAwaited DEF CallInv, CallerTypes, Taken
<1>2. f \in Feeds /\ Hope(f) BY DEF Covered, CallInv, CallerTypes
<1>3. timer => timer' OBVIOUS
<1>4. QED BY <1>1, <1>2, <1>3, HopeRemains

LEMMA BeginKeepsHope ==
  ASSUME CallInv, CallInv', ShownInv, Covered, NEW g \in Feeds,
         StartOrRetry(g) \/ StopFeed(g) \/ EditFeed(g) \/ RemoveFeed(g),
         ~disposed', ~gaveUp', NEW f \in active'
  PROVE  Hope(f)'
<1>1. /\ UNCHANGED <<client, disposed, gaveUp, timer, superseded, held, pipe>>
      /\ \/ /\ UNCHANGED <<active, restorer>>
            /\ \/ shown' = shown
               \/ shown[g] = "stopped" /\ shown' = [shown EXCEPT ![g] = "starting"]
         \/ /\ shown' = [shown EXCEPT ![g] = "removed"]
            /\ active' = active \ {g} /\ restorer' = Unvisit(restorer, {g})
  BY BeginFacts
<1>2. restorer \in [Restorers -> Loops] /\ shown \in [Feeds -> TreeStates] BY DEF CallInv, CallerTypes
<1>3. \A r \in Restorers : Kept(restorer[r], restorer'[r]) BY <1>1, <1>2, UnvisitKeeps DEF Kept
<1>4. f \in active /\ f \in Feeds /\ (active' # active => f # g) BY <1>1 DEF CallInv, CallerTypes
<1>5. shown[f] = "error" => shown'[f] = "error" BY <1>1, <1>2, <1>4 DEF ShownInv, StoppedToo, Stopped
<1>6. QED BY <1>1, <1>3, <1>4, <1>5, NewsKeepsHope

LEMMA CallKeepsHope ==
  ASSUME CallInv, CallInv', Covered, NEW g \in Feeds, CallBackend(g),
         ~disposed', ~gaveUp', NEW f \in active'
  PROVE  Hope(f)'
<1>1. UNCHANGED <<client, timer, disposed, gaveUp, superseded, held, pipe>> BY DEF CallBackend
<1>2. ~disposed BY <1>1
<1>3. UNCHANGED <<active, restorer, shown>> BY <1>2 DEF CallBackend
<1>4. \A r \in Restorers : Kept(restorer[r], restorer'[r]) BY <1>3 DEF Kept, CallInv, CallerTypes
<1>5. QED BY <1>1, <1>3, <1>4, NewsKeepsHope

LEMMA PollNewsKeepsHope ==
  ASSUME CallInv, CallInv', Covered, NEW g \in Feeds, NEW state, PollNews(g, state),
         ~disposed', ~gaveUp', NEW f \in active'
  PROVE  Hope(f)'
<1>1. /\ UNCHANGED <<client, timer, active, disposed, gaveUp, superseded, held, restorer, pipe>>
      /\ client # None /\ g \in held[client] /\ shown' = [shown EXCEPT ![g] = Show(g, state)]
  BY DEF PollNews, rest, serviceVars, launchVars
<1>2. \A r \in Restorers : Kept(restorer[r], restorer'[r]) BY <1>1 DEF Kept, CallInv, CallerTypes
<1>3. CASE f = g BY <1>1, <1>3 DEF Hope
<1>4. CASE f # g
  <2>1. f \in active /\ shown'[f] = shown[f] BY <1>1, <1>4 DEF CallInv, CallerTypes
  <2>2. QED BY <1>1, <1>2, <2>1, NewsKeepsHope
<1>5. QED BY <1>3, <1>4

LEMMA CoveredStep == LaunchInv /\ CallInv /\ ShownInv /\ Covered /\ [Next]_vars => Covered'
<1> SUFFICES ASSUME LaunchInv, CallInv, ShownInv, Covered, [Next]_vars, ~disposed', ~gaveUp', NEW f \in active'
             PROVE  Hope(f)'
  BY DEF Covered
<1>1. CallInv' BY CallStep
<1>2. ASSUME UNCHANGED <<client, timer, disposed, gaveUp, superseded, held, pipe, active, restorer, shown>>
      PROVE  Hope(f)'
  <2>1. \A r \in Restorers : Kept(restorer[r], restorer'[r]) BY <1>2 DEF Kept, CallInv, CallerTypes
  <2>2. QED BY <1>1, <1>2, <2>1, NewsKeepsHope
<1>3. ASSUME NEW k \in Servers, LaunchNext(k) PROVE Hope(f)'
  <2>1. CASE Discover(k)
    <3>1. CASE LaunchFails(k) BY <1>1, <3>1, LaunchFailsKeepsHope
    <3>2. CASE ~LaunchFails(k) BY <1>2, <2>1, <3>2 DEF Discover, serviceVars
    <3>3. QED BY <3>1, <3>2
  <2>2. CASE Spawned(k) BY <1>1, <2>2, SpawnedKeepsHope
  <2>3. CASE HandshakeOk(k) BY <1>1, <2>3, HandshakeOkKeepsHope
  <2>4. CASE HandshakeFails(k)
    <3>1. PICK restartBackend \in AutoRestart : HandleClose(k, restartBackend) BY <2>4 DEF HandshakeFails
    <3>2. client = k /\ restartBackend \in BOOLEAN
      BY <2>4, BackendAssumption DEF HandshakeFails, LaunchInv, OneLaunch
    <3>3. QED BY <3>1, <3>2, ClientEndKeepsHope
  <2>5. CASE Crash(k)
    <3>1. PICK restartBackend \in AutoRestart : HandleClose(k, restartBackend) BY <2>5 DEF Crash
    <3>2. client = k /\ restartBackend \in BOOLEAN BY <2>5, BackendAssumption DEF Crash
    <3>3. QED BY <3>1, <3>2, ClientEndKeepsHope
  <2>6. CASE Exit(k) BY <1>2, <2>6 DEF Exit, serviceVars
  <2>7. QED BY <1>3, <2>1, <2>2, <2>3, <2>4, <2>5, <2>6 DEF LaunchNext
<1>4. ASSUME NEW g \in Feeds, UserNext(g) PROVE Hope(f)'
  <2>1. CASE StartOrRetry(g) \/ StopFeed(g) \/ EditFeed(g) \/ RemoveFeed(g) BY <1>1, <2>1, BeginKeepsHope
  <2>2. CASE CallBackend(g) BY <1>1, <2>2, CallKeepsHope
  <2>3. CASE ServeUser(g) BY <2>3, ServesKeepHope
  <2>4. CASE Answered(g) BY <1>1, <2>4, AnsweredKeepsHope
  <2>5. CASE TimesOut(g) BY <1>1, <2>5, TimesOutKeepsHope
  <2>6. CASE \E state \in Reports : PollNews(g, state) BY <1>1, <2>6, PollNewsKeepsHope
  <2>7. QED BY <1>4, <2>1, <2>2, <2>3, <2>4, <2>5, <2>6 DEF UserNext
<1>5. ASSUME NEW r \in Restorers, RestorerNext(r) PROVE Hope(f)'
  <2>1. CASE TimerFires(r) BY <2>1, TimerKeepsHope
  <2>2. CASE Restart(r) BY <2>2, RestartKeepsHope
  <2>3. CASE ServeRestorer(r) BY <2>3, ServesKeepHope
  <2>4. CASE Restored(r) BY <1>1, <2>4, RestoredKeepsHope
  <2>5. CASE RestoreTimesOut(r) BY <1>1, <2>5, RestoreTimesOutKeepsHope
  <2>6. QED BY <1>5, <2>1, <2>2, <2>3, <2>4, <2>5 DEF RestorerNext
<1>6. CASE NotifiedLate BY <1>1, <1>6, NotifiedLateKeepsHope
<1>7. CASE Dispose BY <1>7 DEF Dispose
<1>8. CASE UNCHANGED vars BY <1>2, <1>8 DEF vars, serviceVars, launchVars
<1>9. QED BY <1>3, <1>4, <1>5, <1>6, <1>7, <1>8 DEF Next

\* An active feed that no server polls is about to be restored, or shown as failed,
\* unless the extension was deactivated or a configuration change's launch failed:
\* whatever crashes, restarts, timeouts and commands overlap (backend.ts, #handleClose,
\* #scheduleRestart, #startAndRestore).
THEOREM NoFeedForgotten == Spec => []NoFeedSilentlyDead
<1>1. Init => Covered BY DEF Init, Covered
<1>2. LaunchInv /\ CallInv /\ ShownInv /\ Covered /\ [Next]_vars => Covered' BY CoveredStep
<1>3. CallInv /\ Covered => NoFeedSilentlyDead
  <2> SUFFICES ASSUME CallInv, Covered, ~disposed, ~gaveUp, NEW f \in active
               PROVE  \/ client # None /\ f \in held[client]
                      \/ BeingRestored(f) \/ BeingStopped(f)
                      \/ shown[f] = "error"
    BY DEF NoFeedSilentlyDead
  <2>1. Hope(f) BY DEF Covered
  <2>2. DOMAIN pipe = 1..Len(pipe) BY DEF CallInv, CallerTypes
  <2>3. (\E r \in Restorers : Hopeful(restorer[r], f)) \/ timer => BeingRestored(f) BY DEF Hopeful, BeingRestored
  <2>4. (\E i \in 1..Len(pipe) : Did(i, f, "stop")) => BeingStopped(f) BY <2>2 DEF Did, BeingStopped
  <2>5. QED BY <2>1, <2>3, <2>4 DEF Hope
<1>4. QED BY <1>1, <1>2, <1>3, ShownInvariant, PTL DEF Spec

=============================================================================
