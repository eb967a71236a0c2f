----------------------------- MODULE ExchangeHouse -----------------------------
(***************************************************************************)
(* The building the repository ships (building/exchange_house.rs), with the  *)
(* Ghost Lobby as its Billy floor.                                          *)
(***************************************************************************)
EXTENDS Building

Room(floor, room) == <<floor, room>>
Way(id, kind, from, to, time, lock, circuit) ==
  [id |-> id, kind |-> kind, from |-> from, to |-> to, time |-> time,
   lock |-> lock, circuit |-> circuit]

(* scenario_floor_portals: the doors between two rooms; each takes a second. *)
LobbyRooms == <<"kitchen", "hall", "office", "laundry", "exit">>
LobbyDoors == <<"D1", "D2", "D3", "D4">>
LobbyPortals ==
  [i \in DOMAIN LobbyDoors |-> Way(LobbyDoors[i], "Door", Room("ghost-lobby", LobbyRooms[i]),
                      Room("ghost-lobby", LobbyRooms[i + 1]), 1, None, None)]

HousePortals ==
  << Way("front", "Door", Room("exchange", "lobby"), Room("exchange", "hall"), 2, None, None),
     Way("tellers", "Door", Room("exchange", "hall"), Room("exchange", "tellers"), 2,
         "lock-tellers", "main"),
     Way("stair-1", "Stair", Room("exchange", "hall"), Room("office", "landing"), 6, None, None),
     Way("bullpen", "Door", Room("office", "landing"), Room("office", "bullpen"), 2, None, None),
     Way("manager", "Door", Room("office", "bullpen"), Room("office", "manager"), 2, None, None),
     Way("lift-01", "Lift", Room("exchange", "lobby"), Room("office", "landing"), 8, None, "main"),
     Way("lift-12", "Lift", Room("office", "landing"), Room("ghost-lobby", "kitchen"), 8, None, "main"),
     Way("stair-2", "Stair", Room("office", "landing"), Room("ghost-lobby", "kitchen"), 6, None, None),
     Way("hatch", "Ladder", Room("exchange", "lobby"), Room("service", "plant"), 5, None, None),
     Way("crawl", "Door", Room("service", "plant"), Room("service", "crawl"), 3, None, None),
     Way("vent-tellers", "Vent", Room("service", "crawl"), Room("exchange", "tellers"), 10,
         "lock-grille", "service"),
     Way("vent-laundry", "Vent", Room("service", "crawl"), Room("ghost-lobby", "laundry"), 14,
         None, None) >> \o LobbyPortals

Floor(id, level, kind, rooms, scenario) ==
  [id |-> id, level |-> level, kind |-> kind, rooms |-> rooms, scenario |-> scenario]
Zone(id, rooms) == [id |-> id, rooms |-> rooms]

HouseFloors ==
  << Floor("service", -1, "Service", <<"plant", "crawl">>, None),
     Floor("exchange", 0, "Standard", <<"lobby", "hall", "tellers">>, None),
     Floor("office", 1, "Standard", <<"landing", "bullpen", "manager">>, None),
     Floor("ghost-lobby", 2, "Billy", LobbyRooms, [valid |-> TRUE, rooms |-> LobbyRooms]) >>

(* The zones follow the floors: the exchange and office are one. *)
HouseZones ==
  LET refs(f) == [i \in DOMAIN HouseFloors[f].rooms |->
                    Room(HouseFloors[f].id, HouseFloors[f].rooms[i])]
  IN << Zone("corp", refs(2) \o refs(3)), Zone("ops", refs(4)), Zone("ot", refs(1)) >>

House ==
  [floors |-> HouseFloors, portals |-> HousePortals, zones |-> HouseZones,
   circuits |-> << [id |-> "main", source |-> "feed-main", zone |-> "corp"],
                   [id |-> "service", source |-> "feed-service", zone |-> "ot"] >>,
   entry |-> Room("exchange", "lobby")]
=============================================================================
