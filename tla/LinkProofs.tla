----------------------------- MODULE LinkProofs -----------------------------
(***************************************************************************)
(* Theorems about Link, for any interfaces and networks and any number of  *)
(* moves.                                                                  *)
(***************************************************************************)
EXTENDS Link, TLAPS

-----------------------------------------------------------------------------
(* A report is about one network *)

\* All that a report says of a network is about the one it names.
AboutOne(r) ==
  r.ssid # NoNetwork =>
    /\ r.radio \in {r.ssid, NoNetwork}
    /\ r.security \in {r.ssid, NoNetwork}

OneNetworkInv == info \in LinkInfo /\ AboutOne(info) /\ AboutOne(link)

LEMMA OneNetworkStep ==
  ASSUME OneNetworkInv, [Next]_vars
  PROVE  OneNetworkInv'
<1> USE DEF OneNetworkInv
<1>1. CASE \/ \E i \in Interface : Move(i)
           \/ Enumerate
           \/ UNCHANGED vars
  BY <1>1 DEF Move, Enumerate, vars, reportVars, AboutOne
<1>2. CASE BeginRefresh
  BY <1>2 DEF BeginRefresh, Unknown, Bare, Named, reportVars, AboutOne, LinkInfo
<1>3. CASE Iw
  BY <1>3
  DEF Iw, Finds, Named, reportVars, AboutOne, LinkInfo
<1>4. CASE MergeNmcli
  BY <1>4 DEF MergeNmcli, Finds, OnAir, reportVars, AboutOne, LinkInfo
<1>5. CASE Nmcli \/ SystemProfiler \/ Netsh
  BY <1>5
  DEF Nmcli, SystemProfiler, Netsh, Finds, OnAir, Named, Bare, reportVars,
      AboutOne, LinkInfo
<1>6. CASE AirportNetwork \/ Media
  BY <1>6
  DEF AirportNetwork, Media, Finds, Named, Bare, Unknown, reportVars,
      AboutOne, LinkInfo
<1>7. CASE Store
  BY <1>7 DEF Store, Stored, Unknown, Bare, Named, AboutOne, LinkInfo
<1> QED
  BY <1>1, <1>2, <1>3, <1>4, <1>5, <1>6, <1>7 DEF Next

\* A report never mixes two networks, wherever the machine moves between the
\* tools that a refresh runs (mergeNmcli).
THEOREM OneNetworkPerReportHolds == Spec => []OneNetworkPerReport
<1>1. Init => OneNetworkInv
  BY DEF Init, OneNetworkInv, Unknown, Bare, Named, AboutOne, LinkInfo
<1>2. OneNetworkInv => OneNetworkPerReport
  BY DEF OneNetworkInv, AboutOne, OneNetworkPerReport
<1> QED
  BY <1>1, <1>2, OneNetworkStep, PTL DEF Spec

-----------------------------------------------------------------------------
(* A report is about this machine *)

\* What holds of a report besides SaysOf.
Located(report, places) ==
  /\ SaysOf(report, places)
  /\ report.ssid # NoNetwork =>
       report.type = "wifi" /\ OnRadio(report.ssid, places)

AllPlaces == Network \cup {NoNetwork, Gone}

Places == [Interface -> SUBSET AllPlaces]

PlacesType ==
  /\ goos \in {"linux", "darwin", "windows"}
  /\ attached \in [Interface -> AllPlaces]
  /\ seen \in Places /\ linkSeen \in Places /\ startSeen \in Places
  /\ info \in LinkInfo
  /\ step = "start" => ~serving
  /\ step # "start" => iface \in Interface

\* The tool that runs next is one for this system and interface.
StepInv ==
  /\ step \in {"iw", "merge", "nmcli"} => goos = "linux" /\ iface \in Radio
  /\ step \in {"system_profiler", "airport", "media"} => goos = "darwin"
  /\ step = "netsh" => goos = "windows"

Refreshing == step \notin {"start", "idle"}

\* A refresh has seen where the machine is, and finds no more than that.
RefreshInv ==
  Refreshing =>
    /\ \A i \in Interface : attached[i] \in seen[i]
    /\ Located(info, seen)

\* All that the first refresh sees happens while the server starts.
StartInv ==
  /\ ~serving /\ step # "start" =>
       \A i \in Interface : attached[i] \in startSeen[i]
  /\ ~serving /\ Refreshing =>
       \A i \in Interface : seen[i] \subseteq startSeen[i]
  /\ step # "start" /\ subnet # NoNetwork => subnet \in startSeen[iface]

ReportInv ==
  PlacesType /\ StepInv /\ RefreshInv /\ StartInv /\ RunNamesWhereItWas

\* A report stays true as more is seen.
LEMMA LocatedMonotonic ==
  ASSUME NEW report, NEW few \in Places, NEW many \in Places,
         iface \in Interface, \A i \in Interface : few[i] \subseteq many[i]
  PROVE  /\ SaysOf(report, few) => SaysOf(report, many)
         /\ Located(report, few) => Located(report, many)
BY DEF SaysOf, Located, OnRadio, Interface

LEMMA MoveKeeps ==
  ASSUME ReportInv, NEW i \in Interface, Move(i)
  PROVE  ReportInv'
<1>1. PICK p \in Place(i) :
        /\ attached' = [attached EXCEPT ![i] = p]
        /\ seen' = IF Refreshing THEN Also(seen, i, p) ELSE seen
        /\ linkSeen' = IF serving THEN Also(linkSeen, i, p) ELSE linkSeen
        /\ startSeen' = IF serving \/ step = "start" THEN startSeen
                        ELSE Also(startSeen, i, p)
        /\ UNCHANGED <<goos, iface, subnet, serving, step, info, link, network>>
  BY DEF Move, Refreshing, reportVars
<1>2. p \in AllPlaces
  BY DEF Place, AllPlaces
<1>3. ASSUME NEW places \in Places
      PROVE  /\ Also(places, i, p) \in Places
             /\ \A j \in Interface : places[j] \subseteq Also(places, i, p)[j]
             /\ p \in Also(places, i, p)[i]
  BY <1>2 DEF Also, Places
<1>4. PlacesType'
  BY <1>1, <1>2, <1>3 DEF ReportInv, PlacesType
<1>5. StepInv'
  BY <1>1 DEF ReportInv, StepInv
<1>6. /\ \A j \in Interface : seen[j] \subseteq seen'[j]
      /\ \A j \in Interface : linkSeen[j] \subseteq linkSeen'[j]
      /\ \A j \in Interface : startSeen[j] \subseteq startSeen'[j]
  BY <1>1, <1>3 DEF ReportInv, PlacesType
<1>7. RefreshInv'
  <2> SUFFICES ASSUME Refreshing
               PROVE  /\ \A j \in Interface : attached'[j] \in seen'[j]
                      /\ Located(info, seen')
    BY <1>1 DEF RefreshInv, Refreshing, Located, SaysOf, OnRadio
  <2>1. \A j \in Interface : attached'[j] \in seen'[j]
    BY <1>1, <1>3, <1>6 DEF ReportInv, PlacesType, RefreshInv
  <2>2. Located(info, seen')
    BY <1>4, <1>6, LocatedMonotonic
    DEF ReportInv, PlacesType, RefreshInv, Refreshing
  <2> QED
    BY <2>1, <2>2
<1>8. StartInv'
  <2>1. ASSUME ~serving, step # "start", NEW j \in Interface
        PROVE  attached'[j] \in startSeen'[j]
    BY <2>1, <1>1, <1>3, <1>6 DEF ReportInv, PlacesType, StartInv
  <2>2. ASSUME ~serving, Refreshing, NEW j \in Interface
        PROVE  seen'[j] \subseteq startSeen'[j]
    BY <2>2, <1>1 DEF ReportInv, PlacesType, StartInv, Also, Refreshing, Places
  <2>3. ASSUME step # "start", subnet # NoNetwork
        PROVE  subnet \in startSeen'[iface]
    BY <2>3, <1>6 DEF ReportInv, PlacesType, StartInv
  <2> QED
    BY <2>1, <2>2, <2>3, <1>1 DEF StartInv, Refreshing
<1>9. RunNamesWhereItWas'
  <2> SUFFICES ASSUME serving
               PROVE  /\ SaysOf(link, linkSeen')
                      /\ startSeen' = startSeen
    BY <1>1 DEF ReportInv, RunNamesWhereItWas, SaysOf, OnRadio
  <2>1. iface \in Interface
    BY DEF ReportInv, PlacesType
  <2> QED
    BY <2>1, <1>1, <1>4, <1>6, LocatedMonotonic
    DEF ReportInv, RunNamesWhereItWas, PlacesType
<1> QED
  BY <1>4, <1>5, <1>7, <1>8, <1>9 DEF ReportInv

\* A tool that finds no more than what was seen keeps the invariant.
LEMMA FindsKeeps ==
  ASSUME ReportInv, Refreshing, NEW report \in LinkInfo, NEW next,
         next \notin {"start", "idle"}, Finds(report, next),
         Located(report, seen), StepInv'
  PROVE  ReportInv'
<1>1. /\ info' = report /\ step' = next
      /\ UNCHANGED <<goos, attached, iface, subnet, serving, link, network,
                     seen, linkSeen, startSeen>>
  BY DEF Finds, reportVars, seenVars
<1>2. PlacesType'
  BY <1>1 DEF ReportInv, PlacesType, Refreshing
<1>3. RefreshInv'
  BY <1>1 DEF ReportInv, RefreshInv, Located, SaysOf, OnRadio
<1>4. StartInv'
  BY <1>1 DEF ReportInv, StartInv, Refreshing
<1>5. RunNamesWhereItWas'
  BY <1>1 DEF ReportInv, RunNamesWhereItWas, SaysOf, OnRadio
<1> QED
  BY <1>2, <1>3, <1>4, <1>5 DEF ReportInv

LEMMA ToolsKeep ==
  ASSUME ReportInv,
         \/ Iw \/ MergeNmcli \/ Nmcli \/ SystemProfiler
         \/ AirportNetwork \/ Media \/ Netsh
  PROVE  ReportInv'
<1> DEFINE Good(report) == report \in LinkInfo /\ Located(report, seen)
<1>1. Refreshing
  BY DEF Refreshing, Iw, MergeNmcli, Nmcli, SystemProfiler, AirportNetwork,
         Media, Netsh
<1>2. Good(info)
  BY <1>1 DEF ReportInv, PlacesType, RefreshInv
<1>3. ASSUME NEW n \in OnAir PROVE n \in Network /\ OnRadio(n, seen)
  BY <1>1 DEF OnAir, OnRadio, ReportInv, RefreshInv, Interface
<1>4. ASSUME iface \in Radio, attached[iface] \in Network
      PROVE  attached[iface] \in seen[iface] /\ OnRadio(attached[iface], seen)
  BY <1>4, <1>1 DEF OnRadio, ReportInv, RefreshInv, Interface
<1> HIDE DEF Good
<1>5. CASE Iw
  <2>1. goos = "linux" /\ iface \in Radio
    BY <1>5 DEF Iw, ReportInv, StepInv
  <2>2. CASE Finds(info, "nmcli")
    BY <2>1, <2>2, <1>1, <1>2, FindsKeeps DEF Finds, StepInv, Good
  <2>3. ASSUME attached[iface] \in Network,
               NEW n \in {attached[iface], NoNetwork},
               Finds(Named("wifi", "iw", n, attached[iface], NoNetwork),
                     "merge")
        PROVE  ReportInv'
    <3>1. Good(Named("wifi", "iw", n, attached[iface], NoNetwork))
      BY <2>1, <2>3, <1>4 DEF Good, Named, LinkInfo, Located, SaysOf
    <3> QED
      BY <3>1, <2>1, <2>3, <1>1, FindsKeeps DEF Finds, StepInv, Good
  <2> QED
    BY <2>2, <2>3, <1>5 DEF Iw
<1>6. CASE MergeNmcli
  <2>1. goos = "linux" /\ iface \in Radio
    BY <1>6 DEF MergeNmcli, ReportInv, StepInv
  <2>2. CASE Finds(info, "store")
    BY <2>2, <1>1, <1>2, FindsKeeps DEF Finds, StepInv, Good
  <2>3. ASSUME NEW n \in OnAir, Finds([info EXCEPT !.security = n], "store")
        PROVE  ReportInv'
    <3>1. Good([info EXCEPT !.security = n])
      BY <1>2, <1>3 DEF Good, LinkInfo, Located, SaysOf
    <3> QED
      BY <3>1, <2>3, <1>1, FindsKeeps DEF Finds, StepInv, Good
  <2> QED
    BY <2>2, <2>3, <1>6 DEF MergeNmcli
<1>7. CASE Nmcli
  <2>1. goos = "linux" /\ iface \in Radio
    BY <1>7 DEF Nmcli, ReportInv, StepInv
  <2>2. Good(Bare("wifi", "none"))
    BY <2>1 DEF Good, Bare, Named, LinkInfo, Located, SaysOf
  <2>3. ASSUME NEW n \in OnAir PROVE Good(Named("wifi", "nmcli", n, n, n))
    BY <2>1, <1>3 DEF Good, Named, LinkInfo, Located, SaysOf
  <2> QED
    BY <2>2, <2>3, <1>1, <1>7, FindsKeeps DEF Nmcli, Finds, StepInv, Good
<1>8. CASE SystemProfiler
  <2>1. goos = "darwin"
    BY <1>8 DEF SystemProfiler, ReportInv, StepInv
  <2>2. ASSUME NEW n \in OnAir
        PROVE  Good(Named("wifi", "system_profiler", n, n, n))
    BY <2>1, <1>3 DEF Good, Named, LinkInfo, Located, SaysOf
  <2> QED
    BY <2>1, <2>2, <1>1, <1>2, <1>8, FindsKeeps
    DEF SystemProfiler, Finds, StepInv, Good
<1>9. CASE AirportNetwork
  <2>1. goos = "darwin"
    BY <1>9 DEF AirportNetwork, ReportInv, StepInv
  <2>2. ASSUME iface \in Radio, attached[iface] \in Network
        PROVE  Good(Named("wifi", "networksetup", attached[iface], NoNetwork,
                          NoNetwork))
    BY <2>1, <2>2, <1>4 DEF Good, Named, LinkInfo, Located, SaysOf
  <2> QED
    BY <2>1, <2>2, <1>1, <1>2, <1>9, FindsKeeps
    DEF AirportNetwork, Finds, StepInv, Good
<1>10. CASE Media
  <2>1. goos = "darwin"
    BY <1>10 DEF Media, ReportInv, StepInv
  <2>2. Good(Bare("ethernet", "networksetup")) /\ Good(Unknown)
    BY <2>1 DEF Good, Unknown, Bare, Named, LinkInfo, Located, SaysOf
  <2> QED
    BY <2>2, <1>1, <1>10, FindsKeeps DEF Media, Finds, StepInv, Good
<1>11. CASE Netsh
  <2>1. goos = "windows"
    BY <1>11 DEF Netsh, ReportInv, StepInv
  <2>2. Good(Bare("ethernet", "netsh"))
    BY <2>1 DEF Good, Bare, Named, LinkInfo, Located, SaysOf
  <2>3. ASSUME NEW n \in OnAir PROVE Good(Named("wifi", "netsh", n, n, n))
    BY <2>1, <1>3 DEF Good, Named, LinkInfo, Located, SaysOf
  <2> QED
    BY <2>2, <2>3, <1>1, <1>11, FindsKeeps DEF Netsh, Finds, StepInv, Good
<1> QED
  BY <1>5, <1>6, <1>7, <1>8, <1>9, <1>10, <1>11

LEMMA ReportInitial ==
  ASSUME Init
  PROVE  ReportInv
<1>1. attached \in [Interface -> AllPlaces]
  BY DEF Init, AllPlaces
<1>2. Nowhere \in Places /\ Unknown \in LinkInfo
  BY DEF Nowhere, Places, Unknown, Bare, Named, LinkInfo
<1> QED
  BY <1>1, <1>2
  DEF Init, ReportInv, PlacesType, StepInv, RefreshInv, StartInv, Refreshing,
      RunNamesWhereItWas

LEMMA ReportStep ==
  ASSUME ReportInv, [Next]_vars
  PROVE  ReportInv'
<1>1. CASE Enumerate
  <2>1. /\ startSeen' = [i \in Interface |-> {attached[i]}]
        /\ step = "start" /\ step' = "idle" /\ iface' \in Interface
        /\ subnet' \in {attached[iface'], NoNetwork}
        /\ UNCHANGED <<goos, attached, serving, info, seen, linkSeen>>
    BY <1>1 DEF Enumerate, Online, PrimaryIfaces, SubnetOf
  <2>2. startSeen' \in Places /\ ~serving
    BY <2>1 DEF ReportInv, PlacesType, Places
  <2>3. PlacesType'
    BY <2>1, <2>2 DEF ReportInv, PlacesType
  <2>4. StepInv' /\ RefreshInv' /\ RunNamesWhereItWas'
    BY <2>1, <2>2 DEF StepInv, RefreshInv, Refreshing, RunNamesWhereItWas
  <2>5. StartInv'
    BY <2>1 DEF StartInv, Refreshing
  <2> QED
    BY <2>3, <2>4, <2>5 DEF ReportInv
<1>2. CASE BeginRefresh
  <2>1. /\ step = "idle" /\ seen' = [i \in Interface |-> {attached[i]}]
        /\ UNCHANGED <<goos, attached, iface, subnet, serving, link, network,
                       linkSeen, startSeen>>
    BY <1>2 DEF BeginRefresh, reportVars
  <2>2. /\ step' \in {"store", "iw", "system_profiler", "netsh"}
        /\ step' = "iw" =>
             goos = "linux" /\ iface \in Radio /\ attached[iface] # Gone
        /\ step' = "system_profiler" => goos = "darwin"
        /\ step' = "netsh" => goos = "windows"
    <3>1. CASE iface \in Unsafe
      BY <3>1, <1>2 DEF BeginRefresh
    <3>2. CASE iface \notin Unsafe /\ goos = "linux"
      <4>1. CASE iface \in Radio /\ attached[iface] # Gone
        BY <3>2, <4>1, <1>2 DEF BeginRefresh
      <4>2. CASE ~(iface \in Radio /\ attached[iface] # Gone)
        BY <3>2, <4>2, <1>2 DEF BeginRefresh
      <4> QED
        BY <4>1, <4>2
    <3>3. CASE iface \notin Unsafe /\ goos = "darwin"
      BY <3>3, <1>2 DEF BeginRefresh
    <3>4. CASE iface \notin Unsafe /\ goos = "windows"
      BY <3>4, <1>2 DEF BeginRefresh
    <3> QED
      BY <3>1, <3>2, <3>3, <3>4 DEF ReportInv, PlacesType
  <2>3. /\ info' \in {Bare("ethernet", "sysfs"), Unknown}
        /\ info' = Unknown
             \/ ~(iface \in Radio /\ attached[iface] # Gone)
    BY <1>2 DEF BeginRefresh
  <2>4. iface \in Interface
    BY <2>1 DEF ReportInv, PlacesType
  <2>5. PlacesType'
    BY <2>1, <2>2, <2>3
    DEF ReportInv, PlacesType, Places, Bare, Unknown, Named, LinkInfo
  <2>6. RefreshInv'
    <3>1. \A i \in Interface : attached'[i] \in seen'[i]
      BY <2>1
    <3>2. info'.ssid = NoNetwork /\ info'.radio = NoNetwork
          /\ info'.security = NoNetwork /\ info'.type # "wifi"
      BY <2>3 DEF Bare, Unknown, Named
    <3>3. info'.type = "ethernet" /\ iface \in Radio => attached[iface] = Gone
      BY <2>3 DEF Bare, Unknown, Named
    <3> QED
      BY <3>1, <3>2, <3>3, <2>1, <2>4 DEF RefreshInv, Located, SaysOf
  <2>7. StepInv' /\ StartInv'
    BY <2>1, <2>2 DEF ReportInv, StepInv, StartInv, Refreshing
  <2>8. RunNamesWhereItWas'
    BY <2>1 DEF ReportInv, RunNamesWhereItWas, SaysOf, OnRadio
  <2> QED
    BY <2>5, <2>6, <2>7, <2>8 DEF ReportInv
<1>3. CASE Store
  <2>1. /\ step = "store" /\ step' = "idle" /\ link' = info /\ linkSeen' = seen
        /\ seen' = Nowhere /\ info' = Unknown /\ serving' = TRUE
        /\ network' = IF serving THEN network
                      ELSE [ssid |-> info.ssid, subnet |-> subnet]
        /\ UNCHANGED <<goos, attached, iface, subnet, startSeen>>
    BY <1>3 DEF Store, Stored
  <2>2. PlacesType'
    BY <2>1
    DEF ReportInv, PlacesType, Places, Nowhere, Unknown, Bare, Named, LinkInfo
  <2>3. StepInv' /\ RefreshInv' /\ StartInv'
    BY <2>1 DEF ReportInv, StepInv, RefreshInv, StartInv, Refreshing
  <2>4. SaysOf(link, linkSeen)'
    BY <2>1 DEF ReportInv, RefreshInv, Refreshing, Located, SaysOf, OnRadio
  <2>5. ASSUME serving PROVE RunNamesWhereItWas'
    <3>1. network' = network /\ startSeen' = startSeen
      BY <2>1, <2>5
    <3> QED
      BY <3>1, <2>1, <2>4, <2>5
      DEF ReportInv, RunNamesWhereItWas, OnRadio
  <2>6. ASSUME ~serving PROVE RunNamesWhereItWas'
    <3>1. /\ info.ssid # NoNetwork =>
               info.type = "wifi" /\ OnRadio(info.ssid, seen)
          /\ goos = "linux" /\ info.type = "wifi" => iface \in Radio
      BY <2>1 DEF ReportInv, RefreshInv, Refreshing, Located, SaysOf
    <3>2. \A i \in Interface : seen[i] \subseteq startSeen[i]
      BY <2>1, <2>6 DEF ReportInv, StartInv, Refreshing
    <3>3. info.ssid # NoNetwork => OnRadio(info.ssid, startSeen)
      BY <3>1, <3>2 DEF OnRadio, Interface
    <3>4. subnet # NoNetwork => subnet \in startSeen[iface]
      BY <2>1 DEF ReportInv, StartInv
    <3>5. network' = [ssid |-> info.ssid, subnet |-> subnet]
      BY <2>1, <2>6
    <3>6. /\ network'.ssid = info.ssid /\ network'.subnet = subnet
          /\ iface' = iface /\ startSeen' = startSeen /\ goos' = goos
      BY <3>5, <2>1
    <3> QED
      BY <2>4, <3>1, <3>3, <3>4, <3>6 DEF RunNamesWhereItWas, OnRadio
  <2> QED
    BY <2>2, <2>3, <2>5, <2>6 DEF ReportInv
<1>4. CASE UNCHANGED vars
  BY <1>4
  DEF vars, reportVars, seenVars, ReportInv, PlacesType, StepInv, RefreshInv,
      StartInv, Refreshing, RunNamesWhereItWas, Located, SaysOf, OnRadio
<1> QED
  BY <1>1, <1>2, <1>3, <1>4, MoveKeeps, ToolsKeep DEF Next

\* A stored run names no network but those the machine was on, however the tools
\* of a refresh fail and wherever the machine moves (Refresh, identifyNetwork).
THEOREM RunNamesWhereItWasHolds == Spec => []RunNamesWhereItWas
<1>1. ReportInv => RunNamesWhereItWas
  BY DEF ReportInv
<1> QED
  BY <1>1, ReportInitial, ReportStep, PTL DEF Spec
=============================================================================
