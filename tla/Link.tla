-------------------------------- MODULE Link --------------------------------
(***************************************************************************)
(* How the server learns what network it is on: primaryIface and           *)
(* identifyNetwork once at start, LinkMonitor.Refresh from then on         *)
(* (src/link.go, src/network.go, src/main.go), while the machine moves     *)
(* between networks.  A refresh is a sequence of tools that may each fail  *)
(* or time out, and what it finds is stored at its end.  What a report     *)
(* says of a network is represented by the network it is about.            *)
(***************************************************************************)
EXTENDS Naturals

CONSTANTS Wired,     \* interfaces for a cable
          Radio,     \* Wi-Fi interfaces
          Unsafe,    \* interfaces with a name that safeIface does not match
          Network,   \* networks
          Ipv4,      \* networks that give a private IPv4 address
          MaxMoves,  \* bound: how often the machine's attachment changes
          NoNetwork, Gone  \* null values

ASSUME LinkAssumption ==
  /\ Wired \cap Radio = {}
  /\ Ipv4 \subseteq Network
  /\ NoNetwork \notin Network /\ Gone \notin Network /\ Gone # NoNetwork
  /\ MaxMoves \in Nat

VARIABLES goos,      \* runtime.GOOS
          attached,  \* interface: its network, NoNetwork or Gone
          iface,     \* LinkMonitor.iface
          subnet,    \* the subnet that identifyNetwork finds
          serving,   \* the server has started
          step,      \* where the refresh is: the tool it runs next
          info,      \* what it has found
          link,      \* LinkMonitor.info
          network,   \* Server.network
          moves,     \* how often the attachment has changed
          seen,      \* history: what each interface was on since the
                     \* refresh that is under way began
          linkSeen,  \* history: since the refresh that found link began
          startSeen  \* history: while the server started

reportVars == <<link, network>>
seenVars == <<moves, seen, linkSeen, startSeen>>
vars == <<goos, attached, iface, subnet, serving, step, info, reportVars,
          seenVars>>

Interface == Wired \cup Radio

\* Where an interface may be: only a radio is unplugged with its interface.
Place(i) == Network \cup {NoNetwork} \cup (IF i \in Radio THEN {Gone} ELSE {})

\* ssid, what else is said of the radio (BSSID, frequency, rates), and what only
\* nmcli says where iw is the source (security, signal in percent).
LinkInfo == [type : {"wifi", "ethernet", "unknown"},
             source : {"none", "iw", "nmcli", "sysfs", "system_profiler",
                       "networksetup", "netsh"},
             ssid : Network \cup {NoNetwork},
             radio : Network \cup {NoNetwork},
             security : Network \cup {NoNetwork}]

Named(type, source, n, radio, security) ==
  [type |-> type, source |-> source, ssid |-> n,
   radio |-> radio, security |-> security]

\* A report without a network.
Bare(type, source) == Named(type, source, NoNetwork, NoNetwork, NoNetwork)

Unknown == Bare("unknown", "none")

NetworkIdentity == [ssid : Network \cup {NoNetwork},
                    subnet : Network \cup {NoNetwork}]

Nowhere == [i \in Interface |-> {}]

Init ==
  /\ goos \in {"linux", "darwin", "windows"}
  /\ attached \in {f \in [Interface -> Network \cup {NoNetwork, Gone}] :
                     \A i \in Interface : f[i] \in Place(i)}
  /\ iface = "none"
  /\ subnet = NoNetwork
  /\ serving = FALSE
  /\ step = "start"
  /\ info = Unknown
  /\ link = Unknown
  /\ network = [ssid |-> NoNetwork, subnet |-> NoNetwork]
  /\ moves = 0
  /\ seen = Nowhere /\ linkSeen = Nowhere /\ startSeen = Nowhere

-----------------------------------------------------------------------------
(* The machine *)

Also(places, i, p) == [places EXCEPT ![i] = @ \cup {p}]

\* An interface joins a network, leaves it, or is unplugged.
Move(i) ==
  /\ moves < MaxMoves
  /\ moves' = moves + 1
  /\ \E p \in Place(i) \ {attached[i]} :
       /\ attached' = [attached EXCEPT ![i] = p]
       /\ seen' = IF step \in {"start", "idle"} THEN seen ELSE Also(seen, i, p)
       /\ linkSeen' = IF serving THEN Also(linkSeen, i, p) ELSE linkSeen
       /\ startSeen' = IF serving \/ step = "start" THEN startSeen
                       ELSE Also(startSeen, i, p)
  /\ UNCHANGED <<goos, iface, subnet, serving, step, info, reportVars>>

-----------------------------------------------------------------------------
(* Start *)

Online(networks) == {i \in Interface : attached[i] \in networks}

\* primaryIface: the first interface with an IPv4 address, or else the first.
PrimaryIfaces ==
  IF Online(Ipv4) # {} THEN Online(Ipv4) ELSE Online(Network)

\* What identifyNetwork falls back to: the IPv4 subnet, which is the primary
\* interface's.
SubnetOf(i) == IF attached[i] \in Ipv4 THEN attached[i] ELSE NoNetwork

\* getLANAddresses, and what is taken from it; without an address the server
\* refuses to start.
Enumerate ==
  /\ step = "start"
  /\ Online(Network) # {}
  /\ \E i \in PrimaryIfaces : iface' = i /\ subnet' = SubnetOf(i)
  /\ step' = "idle"
  /\ startSeen' = [i \in Interface |-> {attached[i]}]
  /\ UNCHANGED <<goos, attached, serving, info, reportVars, moves, seen,
                 linkSeen>>

-----------------------------------------------------------------------------
(* A refresh *)

Finds(report, next) ==
  /\ info' = report
  /\ step' = next
  /\ UNCHANGED <<goos, attached, iface, subnet, serving, reportVars, seenVars>>

\* detectLink, and isWirelessLinux, which an unplugged interface is not.
BeginRefresh ==
  LET wireless == iface \in Radio /\ attached[iface] # Gone
  IN /\ step = "idle"
     /\ seen' = [i \in Interface |-> {attached[i]}]
     /\ info' = IF goos = "linux" /\ ~wireless /\ iface \notin Unsafe
                THEN Bare("ethernet", "sysfs") ELSE Unknown
     /\ step' = CASE iface \in Unsafe                -> "store"
                  [] goos = "linux" /\ ~wireless     -> "store"
                  [] goos = "linux" /\ wireless      -> "iw"
                  [] goos = "darwin"                 -> "system_profiler"
                  [] goos = "windows"                -> "netsh"
     /\ UNCHANGED <<goos, attached, iface, subnet, serving, reportVars, moves,
                    linkSeen, startSeen>>

\* The networks that a tool which is not asked about an interface may name.
OnAir == {attached[r] : r \in Radio} \cap Network

\* iw is asked about the interface; a hidden network has no SSID line.
Iw ==
  /\ step = "iw"
  /\ \/ /\ attached[iface] \in Network
        /\ \E n \in {attached[iface], NoNetwork} :
             Finds(Named("wifi", "iw", n, attached[iface], NoNetwork), "merge")
     \/ Finds(info, "nmcli")

\* Faulty variant: what nmcli says is taken whatever network it is about.
MergeNmcliUnchecked ==
  /\ step = "merge"
  /\ \/ \E n \in OnAir : Finds([info EXCEPT !.security = n], "store")
     \/ Finds(info, "store")

\* mergeNmcli: nmcli names the first active network, of whichever radio.
MergeNmcli ==
  /\ step = "merge"
  /\ \/ \E n \in OnAir :
          /\ info.ssid \in {n, NoNetwork}
          /\ Finds([info EXCEPT !.security = n], "store")
     \/ Finds(info, "store")

\* Without iw, all that nmcli says is taken.
Nmcli ==
  /\ step = "nmcli"
  /\ \/ \E n \in OnAir : Finds(Named("wifi", "nmcli", n, n, n), "store")
     \/ Finds(Bare("wifi", "none"), "store")

\* detectLinkDarwin: system_profiler reports the current network of any radio.
SystemProfiler ==
  /\ step = "system_profiler"
  /\ \/ \E n \in OnAir :
          Finds(Named("wifi", "system_profiler", n, n, n), "store")
     \/ Finds(info, "airport")

\* networksetup -getairportnetwork, which fails for a cable.
AirportNetwork ==
  /\ step = "airport"
  /\ \/ /\ iface \in Radio /\ attached[iface] \in Network
        /\ Finds(Named("wifi", "networksetup", attached[iface], NoNetwork,
                       NoNetwork), "store")
     \/ Finds(info, "media")

\* networksetup -getmedia
Media ==
  /\ step = "media"
  /\ \/ Finds(Bare("ethernet", "networksetup"), "store")
     \/ Finds(Unknown, "store")

\* detectLinkWindows: netsh lists the radios.
Netsh ==
  /\ step = "netsh"
  /\ \/ \E n \in OnAir : Finds(Named("wifi", "netsh", n, n, n), "store")
     \/ Finds(Bare("ethernet", "netsh"), "store")

\* The rest of Store: the first refresh also identifies the network.
Stored ==
  /\ step = "store"
  /\ step' = "idle"
  /\ linkSeen' = seen
  /\ seen' = Nowhere
  /\ info' = Unknown
  /\ serving' = TRUE
  /\ network' = IF serving THEN network
                ELSE [ssid |-> info.ssid, subnet |-> subnet]
  /\ UNCHANGED <<goos, attached, iface, subnet, moves, startSeen>>

\* Faulty variant: a refresh that could not read the network keeps what it knew.
StoreKeepsNetwork ==
  Stored /\ link' = IF info.ssid = NoNetwork THEN link ELSE info

\* Refresh stores what it found, also when that is nothing.
Store == Stored /\ link' = info

Next ==
  \/ \E i \in Interface : Move(i)
  \/ Enumerate
  \/ BeginRefresh
  \/ Iw \/ MergeNmcli \/ Nmcli
  \/ SystemProfiler \/ AirportNetwork \/ Media
  \/ Netsh
  \/ Store

Spec == Init /\ [][Next]_vars

-----------------------------------------------------------------------------
(* Properties *)

\* A report never mixes two networks, although it is put together from two tools
\* and the machine may move in between: what is said of the radio and of the
\* security is about the network it names (mergeNmcli).  A hidden network has no
\* name to compare with.
OneNetworkPerReport ==
  link.ssid # NoNetwork =>
    /\ link.radio \in {link.ssid, NoNetwork}
    /\ link.security \in {link.ssid, NoNetwork}

OnRadio(n, places) == \E r \in Radio : n \in places[r]

\* What a report names is where the machine was, given where each interface was.
SaysOf(report, places) ==
  /\ report.ssid # NoNetwork =>
       IF report.source \in {"iw", "networksetup"}
       THEN report.ssid \in places[iface] ELSE OnRadio(report.ssid, places)
  /\ report.radio # NoNetwork => OnRadio(report.radio, places)
  /\ report.security # NoNetwork => OnRadio(report.security, places)
  /\ goos = "linux" =>
       /\ report.type = "wifi" => iface \in Radio
       /\ report.type = "ethernet" /\ iface \in Radio => Gone \in places[iface]

\* What a run is stored with is no older than the last refresh, and is about
\* this machine: a network it names is one that a radio was on since that
\* refresh began, the primary interface if the tool was asked about it; on
\* Linux a cable is never reported as Wi-Fi, nor a radio as a cable unless it
\* was unplugged; and the network that the run is compared by is one the
\* machine was on while the server started (Refresh, linkSnapshot,
\* identifyNetwork).
RunNamesWhereItWas ==
  serving =>
    /\ SaysOf(link, linkSeen)
    /\ network.ssid # NoNetwork =>
         /\ OnRadio(network.ssid, startSeen)
         /\ goos = "linux" => iface \in Radio
    /\ network.subnet # NoNetwork => network.subnet \in startSeen[iface]
=============================================================================
