----------------------------- MODULE MCNetSession ------------------------------
(***************************************************************************)
(* Two graphs for TLC: the Ghost Lobby floor (scenario/floor_graph.json,   *)
(* one fixture standing for all that share its segment and supply), and a  *)
(* chain of open hosts, each within reach of its neighbours, long enough   *)
(* for depth to divide a rate to nothing and a path to turn back on itself.*)
(***************************************************************************)
EXTENDS NetSession

(* Addresses with a node are written as the node. *)
GridNodes == {"bms", "ops", "jump", "substation", "feed", "door"}
GridAddresses == GridNodes \cup {"van", "room"}
GridVantages == {"van", "room"}
GridSegments == {"perimeter-wifi", "bms", "auto-hall", "isp", "utility-dmz", "utility"}
GridIp == [n \in GridNodes |-> n]

GridSegmentOf == [a \in GridAddresses |->
  CASE a = "van" -> "perimeter-wifi"
    [] a \in {"room", "door"} -> "auto-hall"
    [] a \in {"bms", "feed"} -> "bms"
    [] a = "ops" -> "isp"
    [] a = "jump" -> "utility-dmz"
    [] a = "substation" -> "utility"]

GridAccess == [s \in GridSegments |->
  CASE s = "perimeter-wifi" -> {"bms", "isp"}
    [] s = "bms" -> {"auto-hall", "perimeter-wifi"}
    [] s = "auto-hall" -> {"bms"}
    [] s = "isp" -> {"utility-dmz"}
    [] s = "utility-dmz" -> {"utility"}
    [] s = "utility" -> {}]

GridCategory == [s \in GridSegments |-> IF s = "isp" THEN "isp" ELSE "other"]
GridKind == [n \in GridNodes |-> IF n \in {"bms", "ops", "jump"} THEN "host" ELSE "device"]
GridSecurity == [n \in GridNodes |->
  CASE n \in {"bms", "feed"} -> "medium" [] n = "door" -> "weak" [] OTHER -> "strong"]
GridCuts == {"substation"}
GridDeps == {<<"feed", "substation">>, <<"door", "feed">>}

(* The substation is two pivots away, the ISP's operations host and the     *)
(* grid jump host beyond it, so a dark floor has cost 40 + 20 + 13 of trace *)
(* (scenario/floor_graph.rs:120-126).                                       *)
DarknessIsPaid == "substation" \in dead => Traced \/ progress >= 73

(* An outage of the floor is whole, and dear. *)
DarknessIsWhole == TypeOK /\ OutageIsWhole /\ DarknessIsPaid

-------------------------------------------------------------------------------

Depth == 6
ChainNodes == 1 .. Depth
ChainAddresses == 0 .. Depth
ChainVantages == {0}
ChainSegments == {"s0", "s1", "s2", "s3", "s4", "s5", "s6"}
ChainName == <<"s1", "s2", "s3", "s4", "s5", "s6">>
ChainIp == [n \in ChainNodes |-> n]
ChainSegmentOf == [a \in ChainAddresses |-> IF a = 0 THEN "s0" ELSE ChainName[a]]
ChainAccess == [s \in ChainSegments |->
  {ChainSegmentOf[a] : a \in {a \in ChainAddresses :
    \E b \in {a - 1, a + 1} \cap ChainAddresses : ChainSegmentOf[b] = s}}]
ChainCategory == [s \in ChainSegments |-> "other"]
ChainKind == [n \in ChainNodes |-> "host"]
ChainSecurity == [n \in ChainNodes |-> "open"]
===============================================================================
