--------------------------- MODULE GhostLobbyProofs ---------------------------
(* Safety of GhostLobby, with and without the rescue. *)
EXTENDS GhostLobby, TLAPS

(* DecoySticks is kept by the meter: the decoy is thrown with the meter at
   the top, and a thrown drive is not forgotten. *)
DecoyPinned == usb.thrown => interest.usb = 2

(* finish skips what is left of the tick: an ended run is between ticks. *)
EndedAtRest == Ended => at = "idle"

IInv ==
  /\ TypeOK
  /\ Custody
  /\ OffsiteIsQuiet
  /\ GuardCarries
  /\ DecoyPinned
  /\ EndedAtRest
  /\ TickSettles

(* The reset state, from which a restart starts again. *)
LEMMA NewFacts ==
  /\ NewRun \in Run /\ NewFloor \in Floor /\ NewPlayer \in Player
  /\ NewNote \in Note /\ NewUsb \in Usb /\ NewBilly \in Billy /\ NewInterest \in Interest
<1>1. NewRun \in Run
  BY Zenon DEF NewRun, Run
<1>2. NewFloor \in Floor
  BY Zenon DEF NewFloor, Floor
<1>3. NewPlayer \in Player /\ NewNote \in Note /\ NewUsb \in Usb
  BY Zenon DEF NewPlayer, Player, NewNote, Note, NewUsb, Usb
<1>4. NewBilly \in Billy
  BY Zenon DEF NewBilly, Billy, Mode
<1>5. NewInterest \in Interest
  BY SMT DEF NewInterest, Interest
<1> QED
  BY <1>1, <1>2, <1>3, <1>4, <1>5

(* A new run satisfies the invariant. *)
LEMMA InitInv == Init => IInv
<1> SUFFICES ASSUME Init PROVE IInv
  OBVIOUS
<1>1. TypeOK
  BY NewFacts DEF Init, TypeOK, Place
<1>2. Custody /\ OffsiteIsQuiet /\ DecoyPinned
  BY SMT DEF Init, Custody, OffsiteIsQuiet, DecoyPinned, Carrying, NewRun, NewPlayer, NewNote, NewUsb, NewBilly
<1>3. GuardCarries /\ EndedAtRest /\ TickSettles
  BY SMT DEF Init, GuardCarries, EndedAtRest, TickSettles, Carrying, Ended, NewRun, NewFloor, NewBilly
<1> QED
  BY <1>1, <1>2, <1>3 DEF IInv

(* The types of what each helper makes. *)
LEMMA FloorFacts ==
  ASSUME floor \in Floor
  PROVE  /\ \A a \in {"low", "full"} : [floor EXCEPT !.alert = a] \in Floor
         /\ Gained \subseteq {"low", "full"}
         /\ Raised => floor' \in Floor
  BY SMT DEF Floor, Gained, Raised

(* The two ways the run record changes in a tick keep its type. *)
LEMMA RunFacts ==
  ASSUME run \in Run
  PROVE  /\ Crisis \in Run
         /\ \A o \in Failure \cup {"Extracted"} : Finish(o) => run' \in Run
<1>1. Crisis \in Run
  BY SMT DEF Run, Crisis
<1>2. ASSUME NEW o \in Failure \cup {"Extracted"}, Finish(o) PROVE run' \in Run
  BY <1>2, Zenon DEF Run, Finish
<1> QED
  BY <1>1, <1>2

(* Every change of Billy's record keeps its type: a move, a theory heeded,
   a chase, a robbery, a stun. *)
LEMMA BillyFacts ==
  ASSUME NEW b \in Billy
  PROVE  /\ \A m \in Mode : Move(b, m) \in Billy
         /\ Entered(b) \in Billy /\ Robbed(b) \in Billy
         /\ Heed(b) \in Billy
         /\ \A close : Chase(b, close) \in Billy
         /\ \A s \in BOOLEAN : [b EXCEPT !.stun = s] \in Billy
         /\ \A o \in Object \cup {None} : [b EXCEPT !.belief = o] \in Billy
<1>1. \A m \in Mode : Move(b, m) \in Billy
  BY Zenon DEF Billy, Move
<1>2. Entered(b) \in Billy
  BY Zenon DEF Billy, Entered, Mode
<1>3. Robbed(b) \in Billy
  BY Zenon DEF Billy, Robbed, Mode
<1>4. [b EXCEPT !.target = b.belief, !.mode = "Secure"] \in Billy
  BY Zenon DEF Billy, Mode
<1>5. Heed(b) \in Billy
  BY <1>4, Zenon DEF Heed
<1>6. \A close : Chase(b, close) \in Billy
  BY <1>1, Zenon DEF Chase, Mode
<1>7. \A s \in BOOLEAN : [b EXCEPT !.stun = s] \in Billy
  BY Zenon DEF Billy
<1>8. \A o \in Object \cup {None} : [b EXCEPT !.belief = o] \in Billy
  BY Zenon DEF Billy
<1> QED
  BY <1>1, <1>2, <1>3, <1>5, <1>6, <1>7, <1>8

(* What Billy's own modes do to him. *)
Same(b, c) ==
  /\ c.has_note = b.has_note /\ c.has_usb = b.has_usb
  /\ c.reported = b.reported /\ c.called = b.called

(* A move changes Billy's mode and nothing else of Same. *)
LEMMA MoveFacts ==
  ASSUME NEW b \in Billy, NEW m \in Mode
  PROVE  Move(b, m) \in Billy /\ Move(b, m).mode = m /\ Same(b, Move(b, m))
  BY BillyFacts, Zenon DEF Move, Billy, Same

(* The modes that only move Billy: none sends him out of the building, and
   only a guard goes on to guard or to call, once. *)
LEMMA WanderFacts ==
  ASSUME NEW b \in Billy, NEW sees, NEW c \in Wander(b, sees)
  PROVE  /\ c \in Billy /\ Same(b, c)
         /\ c.mode # "Offsite"
         /\ c.mode \in {"Guard", "CallBoss"} => b.mode = "Guard"
         /\ c.mode = "CallBoss" => ~c.called
<1> DEFINE secure == [Move(b, "Secure") EXCEPT !.target = b.belief]
<1>1. secure \in Billy /\ Same(b, secure) /\ secure.mode = "Secure"
  <2>1. \A m \in Billy, o \in Object \cup {None} :
          LET n == [m EXCEPT !.target = o] IN n \in Billy /\ Same(m, n) /\ n.mode = m.mode
    BY Zenon DEF Billy, Same
  <2>2. Move(b, "Secure") \in Billy /\ Same(b, Move(b, "Secure")) /\ Move(b, "Secure").mode = "Secure"
    BY MoveFacts DEF Mode
  <2>3. b.belief \in Object \cup {None}
    BY Zenon DEF Billy
  <2> QED
    BY <2>1, <2>2, <2>3, Zenon DEF Same
<1>2. \A m \in Mode : Move(b, m) \in Billy /\ Move(b, m).mode = m /\ Same(b, Move(b, m))
  BY MoveFacts
<1>3. Same(b, b)
  BY DEF Same
<1> HIDE DEF secure
<1>4. CASE b.mode = "Assess"
  <2>1. c \in {secure, b, Move(b, "Pursue"), Move(b, "Investigate")}
    BY <1>4, SMT DEF Wander, secure
  <2> QED
    BY <1>1, <1>2, <1>3, <1>4, <2>1, SMT DEF Mode
<1>5. CASE b.mode = "Investigate"
  BY <1>1, <1>2, <1>3, <1>5, SMT DEF Wander, Mode
<1>6. CASE b.mode = "Guard"
  BY <1>2, <1>3, <1>6, SMT DEF Wander, Mode, Same
<1>7. CASE b.mode = "Pursue"
  BY <1>2, <1>3, <1>7, SMT DEF Wander, Mode
<1>8. CASE b.mode \notin {"Assess", "Investigate", "Guard", "Pursue"}
  BY <1>8, Zenon DEF Wander
<1> QED
  BY <1>4, <1>5, <1>6, <1>7, <1>8

(* The grabs keep the types, and touch the floor not at all. *)
LEMMA SecureFacts ==
  ASSUME TypeOK, NEW b \in Billy, Secure(b)
  PROVE  billy' \in Billy /\ note' \in Note /\ usb' \in Usb /\ UNCHANGED floor
<1>1. \A m \in Mode : Move(b, m) \in Billy
  BY MoveFacts
<1>2. b \in Billy /\ Move(b, "Pursue") \in Billy /\ Move(b, "Guard") \in Billy
  BY <1>1 DEF Mode
<1>3. /\ [Move(b, "Guard") EXCEPT !.has_note = TRUE, !.reported = "note"] \in Billy
      /\ [Move(b, "Guard") EXCEPT !.has_usb = TRUE, !.reported = "usb"] \in Billy
  BY <1>2, Zenon DEF Billy, Object
<1>4. [note EXCEPT !.billy_has = TRUE] \in Note /\ [usb EXCEPT !.billy_has = TRUE, !.thrown = FALSE] \in Usb
  BY Zenon DEF TypeOK, Note, Usb
<1> QED
  BY <1>2, <1>3, <1>4, Zenon DEF Secure, TypeOK

(* The call keeps the types, and touches neither object. *)
LEMMA CallFacts ==
  ASSUME TypeOK, NEW b \in Billy, NEW sees, CallBoss(b, sees)
  PROVE  billy' \in Billy /\ floor' \in Floor /\ UNCHANGED <<note, usb>>
<1>1. b \in Billy /\ Move(b, "Pursue") \in Billy
  BY MoveFacts DEF Mode
<1>2. Report(b) \in Object \cup {None, "intruder"}
  BY Zenon DEF Report, Billy
<1>3. [Move(b, "Pursue") EXCEPT !.called = TRUE, !.reported = Report(b)] \in Billy
  BY <1>1, <1>2, Zenon DEF Billy
<1> QED
  BY <1>1, <1>3, FloorFacts, Zenon DEF CallBoss, TypeOK

(* The type invariant is inductive by itself. *)
LEMMA TypeInv == TypeOK /\ [Next]_vars => TypeOK'
<1> SUFFICES ASSUME TypeOK, [Next]_vars PROVE TypeOK'
  OBVIOUS
<1> USE LobbyAssumption DEF TypeOK, Place
<1>1. CASE Begin
  BY <1>1, SMT DEF Begin, items, mind
<1>2. CASE Restart
  BY <1>2, NewFacts DEF Restart
<1>3. CASE TouchNetwork
  BY <1>3, Zenon DEF TouchNetwork, Floor, items, mind
<1>4. CASE Hack
  <2>1. floor' \in Floor
    BY <1>4, FloorFacts, ZenonT(40) DEF Hack, Floor
  <2>2. billy' \in Billy
    BY <1>4, ZenonT(40) DEF Hack, Billy
  <2> QED
    BY <1>4, <2>1, <2>2 DEF Hack, items
<1>5. CASE ForceCrisis
  BY <1>5, RunFacts, BillyFacts DEF ForceCrisis, items
<1>6. CASE ForceEnd
  BY <1>6, RunFacts DEF ForceEnd, Finish, items, mind
<1>7. CASE Advance
  BY <1>7, ZenonT(40) DEF Advance, Floor, items, mind
<1>8. CASE PeelNote
  <2>1. note' \in Note /\ player' \in Player
    BY <1>8, ZenonT(40) DEF PeelNote, Note, Player, Sight
  <2>2. interest' \in Interest
    BY <1>8, SMT DEF PeelNote, Interest, Rise
  <2> QED
    BY <1>8, <2>1, <2>2 DEF PeelNote
<1>9. CASE TakeUsb
  <2>1. usb' \in Usb /\ player' \in Player
    BY <1>9, Zenon DEF TakeUsb, Usb, Player
  <2>2. interest' \in Interest
    BY <1>9, SMT DEF TakeUsb, Interest
  <2> QED
    BY <1>9, <2>1, <2>2, RunFacts, BillyFacts DEF TakeUsb
<1>10. CASE EnterChute \/ ServiceExit
  BY <1>10, RunFacts DEF EnterChute, ServiceExit, Finish, items, mind
<1>11. CASE SearchChute
  BY <1>11, Zenon DEF SearchChute, Floor, items, mind
<1>12. CASE Pickpocket
  BY <1>12, BillyFacts, Zenon DEF Pickpocket, Note, Player
<1>13. CASE NothingInReach \/ KeepUsb
  BY <1>13, SMT DEF NothingInReach, KeepUsb, items, mind
<1>14. CASE ThrowUsb
  <2>1. usb' \in Usb /\ player' \in Player
    BY <1>14, Zenon DEF ThrowUsb, Usb, Player
  <2>2. interest' \in Interest
    BY <1>14, SMT DEF ThrowUsb, Interest
  <2>3. billy' \in Billy
    BY <1>14, Zenon DEF ThrowUsb, Billy, Mode, Object
  <2> QED
    BY <1>14, <2>1, <2>2, <2>3, FloorFacts DEF ThrowUsb
<1>15. CASE RunUsb
  BY <1>15, FloorFacts, Zenon DEF RunUsb, Usb, mind
<1>16. CASE RunVacuum
  BY <1>16, ZenonT(40) DEF RunVacuum, Floor, Billy, Mode, items
<1>17. CASE RunCameras
  BY <1>17, FloorFacts, SMT DEF RunCameras, Billy, Mode, items
<1>18. CASE RunSupport
  BY <1>18, RunFacts DEF RunSupport, Finish, Failure, items, mind
<1>19. CASE RunBehaviour
  BY <1>19, SMT DEF RunBehaviour, Rise, Fall, Beliefs, Interest, Billy, Object, items, mind
<1>20. CASE RunBilly
  <2>1. CASE billy' = billy /\ UNCHANGED <<floor, note, usb>>
    BY <1>20, <2>1 DEF RunBilly
  <2>2. ASSUME NEW s \in BOOLEAN, billy' = [billy EXCEPT !.stun = s], UNCHANGED <<floor, note, usb>> PROVE TypeOK'
    BY <1>20, <2>2, BillyFacts DEF RunBilly
  <2>3. CASE /\ billy' \in {billy, Move(billy, IF billy.mode = "Entering" THEN "Shock" ELSE "Assess")}
             /\ UNCHANGED <<floor, note, usb>>
    BY <1>20, <2>3, BillyFacts DEF RunBilly, Mode
  <2>4. ASSUME NEW b \in Billy, NEW sees, billy' \in Wander(b, sees), UNCHANGED <<floor, note, usb>> PROVE TypeOK'
    BY <1>20, <2>4, WanderFacts DEF RunBilly
  <2>5. ASSUME NEW b \in Billy, Secure(b) PROVE TypeOK'
    BY <1>20, <2>5, SecureFacts DEF RunBilly
  <2>6. ASSUME NEW b \in Billy, NEW sees, CallBoss(b, sees) PROVE TypeOK'
    BY <1>20, <2>6, CallFacts DEF RunBilly
  <2> QED
    BY <1>20, <2>1, <2>2, <2>3, <2>4, <2>5, <2>6, BillyFacts DEF RunBilly
<1>21. CASE RunCollisions
  <2>1. floor' \in Floor
    BY <1>21, ZenonT(40) DEF RunCollisions, Floor
  <2>2. run' \in Run
    BY <1>21, RunFacts, Zenon DEF RunCollisions, Failure
  <2> QED
    BY <1>21, <2>1, <2>2, BillyFacts, Zenon DEF RunCollisions, Finish, items
<1>22. CASE Settle
  <2>1. Verdict \in Failure \cup {None} /\ ExitStatus \in {"Locked", "Available", "Done"}
    BY Zenon DEF Verdict, ExitStatus, Failure
  <2>2. run' \in Run
    BY <1>22, <2>1, Zenon DEF Settle, Run
  <2> QED
    BY <1>22, <2>2, BillyFacts DEF Settle, items
<1>23. CASE UNCHANGED vars
  BY <1>23, SMT DEF vars, items, mind
<1> QED
  BY <1>1, <1>2, <1>3, <1>4, <1>5, <1>6, <1>7, <1>8, <1>9, <1>10, <1>11, <1>12, <1>13, <1>14, <1>15,
     <1>16, <1>17, <1>18, <1>19, <1>20, <1>21, <1>22, <1>23 DEF Next

-------------------------------------------------------------------------------
(* The end of the tick: the two conjuncts about at, the outcome and what of
   the floor ends the run. *)
LEMMA RestInv == TypeOK /\ EndedAtRest /\ TickSettles /\ [Next]_vars => EndedAtRest' /\ TickSettles'
<1> SUFFICES ASSUME TypeOK, EndedAtRest, TickSettles, [Next]_vars PROVE EndedAtRest' /\ TickSettles'
  OBVIOUS
<1> USE DEF EndedAtRest, TickSettles, Ended
<1>0. \A o \in Failure \cup {"Extracted"} : Finish(o) => at' = "idle" /\ run'.outcome # None
  BY LobbyAssumption, Zenon DEF Finish, TypeOK, Run
<1>1. CASE Begin \/ NothingInReach \/ KeepUsb \/ SearchChute \/ TouchNetwork
  BY <1>1, SMT DEF Begin, NothingInReach, KeepUsb, SearchChute, TouchNetwork
<1>2. CASE Restart
  BY <1>2, SMT DEF Restart, NewRun, NewFloor
<1>3. CASE Hack \/ Advance \/ PeelNote
  BY <1>3, Zenon DEF Hack, Advance, PeelNote
<1>4. CASE ForceCrisis \/ TakeUsb
  <2>1. Crisis.outcome = run.outcome
    BY Zenon DEF Crisis, TypeOK, Run
  <2> QED
    BY <1>4, <2>1, SMT DEF ForceCrisis, TakeUsb
<1>5. CASE ForceEnd \/ EnterChute \/ ServiceExit
  BY <1>5, <1>0 DEF ForceEnd, EnterChute, ServiceExit
<1>6. CASE Pickpocket \/ ThrowUsb \/ RunUsb \/ RunVacuum \/ RunCameras
  BY <1>6, SMT DEF Pickpocket, ThrowUsb, RunUsb, RunVacuum, RunCameras
<1>7. CASE RunSupport \/ RunCollisions
  BY <1>7, <1>0, SMT DEF RunSupport, RunCollisions, Failure
<1>8. CASE RunBehaviour \/ RunBilly
  BY <1>8, SMT DEF RunBehaviour, RunBilly
<1>9. CASE Settle
  <2>1. run'.outcome = Verdict /\ floor' = floor /\ at' = "idle"
    BY <1>9, Zenon DEF Settle, TypeOK, Run
  <2>2. floor.alert = "full" \/ floor.traced => Verdict # None
    BY LobbyAssumption, Zenon DEF Verdict, Failure
  <2> QED
    BY <2>1, <2>2
<1>10. CASE UNCHANGED vars
  BY <1>10 DEF vars
<1> QED
  BY <1>1, <1>2, <1>3, <1>4, <1>5, <1>6, <1>7, <1>8, <1>9, <1>10 DEF Next

-------------------------------------------------------------------------------
(* What the two decisions before Billy's mode leave alone. *)
LEMMA HeedFacts ==
  ASSUME NEW a \in Billy, NEW close
  PROVE  LET b == Chase(Heed(a), close)
         IN  /\ b \in Billy /\ Same(a, b)
             /\ b.mode \in {a.mode, "Secure", "Pursue"}
<1>1. Heed(a) \in Billy /\ Same(a, Heed(a)) /\ Heed(a).mode \in {a.mode, "Secure"}
  <2>1. LET h == [a EXCEPT !.target = a.belief, !.mode = "Secure"] IN Same(a, h) /\ h.mode = "Secure"
    BY Zenon DEF Billy, Same
  <2>2. Heed(a) \in Billy
    BY BillyFacts
  <2> QED
    BY <2>1, <2>2, Zenon DEF Heed, Same
<1>2. /\ Chase(Heed(a), close) \in Billy /\ Same(Heed(a), Chase(Heed(a), close))
      /\ Chase(Heed(a), close).mode \in {Heed(a).mode, "Pursue"}
  BY <1>1, MoveFacts, Zenon DEF Chase, Mode, Same
<1> QED
  BY <1>1, <1>2, Zenon DEF Same

(* What Billy carries and where he stands, with what he has his hands on. *)
Story ==
  /\ Custody
  /\ OffsiteIsQuiet
  /\ GuardCarries
  /\ DecoyPinned

(* A step that leaves the objects, the phase and the meters alone, and what
   Billy carries and told, keeps all of it if he starts no guard or call. *)
LEMMA StoryKept ==
  ASSUME TypeOK, Story, TypeOK', UNCHANGED items, run'.phase = run.phase, interest' = interest,
         Same(billy, billy'), billy'.mode \in {"Guard", "CallBoss"} => billy.mode = billy'.mode,
         run.phase = "Crisis" => billy'.mode # "Offsite",
         run.phase = "Quiet" => billy'.mode = "Offsite" /\ billy'.belief = None
  PROVE  Story'
<1>1. Custody' /\ DecoyPinned'
  BY Zenon DEF Story, Custody, DecoyPinned, items, Same
<1>2. OffsiteIsQuiet'
  BY Zenon DEF Story, OffsiteIsQuiet, Carrying, items, Same
<1>3. GuardCarries'
  BY Zenon DEF Story, GuardCarries, Carrying, Same
<1> QED
  BY <1>1, <1>2, <1>3 DEF Story

(* The crisis begins: Billy comes in with empty hands. *)
LEMMA EnteredStory ==
  ASSUME TypeOK, Story, run.phase = "Quiet"
  PROVE  /\ Same(billy, Entered(billy)) /\ Entered(billy).mode = "Entering"
         /\ Crisis.phase = "Crisis"
  BY Zenon DEF TypeOK, Run, Billy, Entered, Crisis, Same

(* Story is kept by every system: who holds what, who is in the building,
   what the guard is over and the pinned meter. *)
LEMMA StoryInv == TypeOK /\ Story /\ [Next]_vars => Story'
<1> SUFFICES ASSUME TypeOK, Story, [Next]_vars PROVE Story'
  OBVIOUS
<1>0. TypeOK'
  BY TypeInv
<1>0a. Same(billy, billy)
  BY DEF Same
<1>0b. \A o : Finish(o) => run'.phase = "Result"
  BY Zenon DEF Finish, TypeOK, Run
(* An ended run asks nothing of Billy but custody. *)
<1>0c. ASSUME run'.phase = "Result", UNCHANGED <<items, mind>> PROVE Story'
  BY <1>0c, SMT DEF Story, Custody, OffsiteIsQuiet, GuardCarries, DecoyPinned, Carrying, items, mind
<1>0d. ASSUME UNCHANGED <<run, items, mind>> PROVE Story'
  BY <1>0d, SMT DEF Story, Custody, OffsiteIsQuiet, GuardCarries, DecoyPinned, Carrying, items, mind
<1>1. CASE Begin \/ TouchNetwork \/ Advance \/ SearchChute \/ NothingInReach \/ KeepUsb
  BY <1>1, <1>0d, Zenon DEF Begin, TouchNetwork, Advance, SearchChute, NothingInReach, KeepUsb
<1>2. CASE Restart
  BY <1>2, SMT DEF Restart, Story, Custody, OffsiteIsQuiet, GuardCarries, DecoyPinned, Carrying,
     NewRun, NewPlayer, NewNote, NewUsb, NewBilly
<1>3. CASE Hack
  <2>1. Same(billy, billy') /\ billy'.mode = billy.mode /\ billy'.belief = billy.belief
    BY <1>3, Zenon DEF Hack, TypeOK, Billy, Same
  <2> QED
    BY <1>0, <1>3, <2>1, StoryKept, Zenon DEF Hack, Story, OffsiteIsQuiet
<1>4. CASE ForceCrisis
  <2>1. /\ Same(billy, billy') /\ billy'.mode = "Entering" /\ run'.phase = "Crisis"
        /\ UNCHANGED <<items, interest>>
    BY <1>4, EnteredStory DEF ForceCrisis
  <2> QED
    BY <2>1, SMT DEF Story, Custody, OffsiteIsQuiet, GuardCarries, DecoyPinned, Carrying, Same, items
<1>5. CASE ForceEnd \/ EnterChute \/ ServiceExit
  BY <1>5, <1>0b, <1>0c, Zenon DEF ForceEnd, EnterChute, ServiceExit
<1>6. CASE PeelNote
  <2>1. /\ note'.held = player'.has_note /\ note'.billy_has = note.billy_has
        /\ player'.has_usb = player.has_usb /\ ~note.billy_has
        /\ UNCHANGED <<run, usb, billy>>
    BY <1>6, Zenon DEF PeelNote, TypeOK, Note, Player, NoteFree
  <2>2. interest'.usb = interest.usb
    BY <1>6, SMT DEF PeelNote, TypeOK, Interest
  <2> QED
    BY <2>1, <2>2, SMT DEF Story, Custody, OffsiteIsQuiet, GuardCarries, DecoyPinned, Carrying
<1>7. CASE TakeUsb
  <2>1. /\ usb'.held = TRUE /\ player'.has_usb = TRUE /\ usb'.billy_has = usb.billy_has /\ usb'.thrown = usb.thrown
        /\ player'.has_note = player.has_note /\ ~usb.billy_has /\ note' = note
    BY <1>7, Zenon DEF TakeUsb, TypeOK, Usb, Player, UsbFree
  <2>2. interest.usb = 2 => interest'.usb = 2
    BY <1>7, SMT DEF TakeUsb, TypeOK, Interest
  <2>3. \/ run.phase = "Quiet" /\ run' = Crisis /\ billy' = Entered(billy)
        \/ run.phase # "Quiet" /\ UNCHANGED <<run, billy>>
    BY <1>7, Zenon DEF TakeUsb
  <2>4. Same(billy, billy') /\ run'.phase # "Quiet"
        /\ (billy'.mode = "Entering" \/ UNCHANGED <<run, billy>>)
    BY <2>3, <1>0a, EnteredStory, SMT
  <2>5. Custody' /\ DecoyPinned'
    BY <2>1, <2>2, <2>4, Zenon DEF Story, Custody, DecoyPinned, Same
  <2>6. OffsiteIsQuiet' /\ GuardCarries'
    BY <2>4, SMT DEF Story, OffsiteIsQuiet, GuardCarries, Carrying, Same
  <2> QED
    BY <2>5, <2>6 DEF Story
<1>8. CASE Pickpocket
  <2>1. /\ note'.held = TRUE /\ note'.billy_has = FALSE
        /\ player'.has_note = TRUE /\ player'.has_usb = player.has_usb
        /\ billy'.has_note = FALSE /\ billy'.has_usb = billy.has_usb /\ billy'.mode = "Pursue"
        /\ billy'.called = billy.called /\ billy'.reported = billy.reported
        /\ note.billy_has /\ UNCHANGED <<run, usb, interest>>
    BY <1>8, Zenon DEF Pickpocket, TypeOK, Note, Player, Billy, Robbed
  <2>2. Custody' /\ DecoyPinned'
    BY <2>1, Zenon DEF Story, Custody, DecoyPinned
  <2>3. OffsiteIsQuiet'
    BY <2>1, SMT DEF Story, OffsiteIsQuiet, Custody, Carrying
  <2>4. GuardCarries'
    BY <2>1, SMT DEF Story, GuardCarries
  <2> QED
    BY <2>2, <2>3, <2>4 DEF Story
<1>9. CASE ThrowUsb
  <2>1. /\ usb'.held = FALSE /\ usb'.billy_has = FALSE
        /\ player'.has_usb = FALSE /\ player'.has_note = player.has_note
        /\ player.has_usb /\ UNCHANGED <<run, note>>
    BY <1>9, Zenon DEF ThrowUsb, TypeOK, Usb, Player
  <2>1a. usb.held /\ usb.billy_has = FALSE
    BY <2>1, Zenon DEF TypeOK, Usb, Story, Custody
  <2>2. interest'.usb = 2
    BY <1>9, Zenon DEF ThrowUsb, TypeOK, Interest
  <2>3. Same(billy, billy') /\ billy'.mode \in {billy.mode, "Secure"} /\ billy'.mode # "Offsite"
        /\ (billy'.mode = "Guard" => FALSE)
    BY <1>9, Zenon DEF ThrowUsb, TypeOK, Billy, Same
  <2>4. Custody' /\ DecoyPinned'
    BY <2>1, <2>1a, <2>2, <2>3, Zenon DEF Story, Custody, DecoyPinned, Same
  <2>5. OffsiteIsQuiet'
    BY <2>1, <2>3, SMT DEF Story, OffsiteIsQuiet, Custody
  <2>6. GuardCarries'
    BY <2>3, SMT DEF Story, GuardCarries, Carrying, Same
  <2> QED
    BY <2>4, <2>5, <2>6 DEF Story
<1>10. CASE RunUsb
  <2>1. /\ usb'.held = usb.held /\ usb'.billy_has = usb.billy_has /\ usb'.thrown = usb.thrown
        /\ UNCHANGED <<run, player, note, mind>>
    BY <1>10, Zenon DEF RunUsb, TypeOK, Usb
  <2> QED
    BY <2>1, SMT DEF Story, Custody, OffsiteIsQuiet, GuardCarries, DecoyPinned, Carrying, mind
<1>11. CASE RunVacuum \/ RunCameras
  <2>1. UNCHANGED <<run, items, interest>>
    BY <1>11 DEF RunVacuum, RunCameras
  <2>2. \/ billy' = billy
        \/ run.phase = "Crisis" /\ billy' = Move(billy, "Investigate")
    <3>1. CASE RunVacuum
      BY <3>1, Zenon DEF RunVacuum, InCrisis, Move
    <3>2. CASE RunCameras
      <4>1. [billy EXCEPT !.mode = @] = billy
        BY Zenon DEF TypeOK, Billy
      <4> QED
        BY <3>2, <4>1, Zenon DEF RunCameras, InCrisis, Move
    <3> QED
      BY <1>11, <3>1, <3>2
  <2>3. /\ Same(billy, billy')
        /\ billy' = billy \/ (run.phase = "Crisis" /\ billy'.mode = "Investigate")
    BY <1>0a, <2>2, MoveFacts, SMT DEF TypeOK, Mode
  <2> QED
    BY <2>1, <2>3, SMT DEF Story, Custody, OffsiteIsQuiet, GuardCarries, DecoyPinned, Carrying, Same, items
<1>12. CASE RunSupport
  BY <1>12, <1>0b, <1>0c, <1>0d, Zenon DEF RunSupport
<1>13. CASE RunBehaviour
  <2>1. UNCHANGED <<run, items>> /\ billy'.mode = billy.mode /\ Same(billy, billy')
        /\ (run.phase # "Crisis" => mind' = mind)
    BY <1>13, Zenon DEF RunBehaviour, InCrisis, TypeOK, Billy, Same, mind
  <2>2. usb.thrown /\ interest.usb = 2 => interest'.usb = 2
    BY <1>13, SMT DEF RunBehaviour, Pinned, Rise, TypeOK, Interest, mind
  <2> QED
    BY <2>1, <2>2, SMT DEF Story, Custody, OffsiteIsQuiet, GuardCarries, DecoyPinned, Carrying, Same, items, mind
<1>14. CASE RunBilly
  <2> USE DEF InCrisis
  <2>1. UNCHANGED <<run, player, interest>>
    BY <1>14 DEF RunBilly
  <2>2. CASE run.phase # "Crisis"
    BY <1>14, <1>0d, <2>2 DEF RunBilly, items, mind
  <2>3. ASSUME NEW s \in BOOLEAN, billy' = [billy EXCEPT !.stun = s], UNCHANGED <<note, usb>>,
               run.phase = "Crisis"
        PROVE  Story'
    <3>1. Same(billy, billy') /\ billy'.mode = billy.mode
      BY <2>3, Zenon DEF TypeOK, Billy, Same
    <3> QED
      BY <1>0, <2>1, <2>3, <3>1, StoryKept, Zenon DEF items, Story, OffsiteIsQuiet
  <2>4. CASE /\ billy' \in {billy, Move(billy, IF billy.mode = "Entering" THEN "Shock" ELSE "Assess")}
             /\ UNCHANGED <<note, usb>> /\ run.phase = "Crisis"
    <3>1. CASE billy' = billy
      BY <2>1, <2>4, <3>1, <1>0d DEF items, mind
    <3>2. CASE billy' # billy
      <4>1. billy' \in {Move(billy, "Shock"), Move(billy, "Assess")}
        BY <2>4, <3>2, Zenon
      <4>2. Same(billy, billy') /\ billy'.mode \in {"Shock", "Assess"}
        BY <4>1, MoveFacts, SMT DEF TypeOK, Mode
      <4> QED
        BY <1>0, <2>1, <2>4, <4>2, StoryKept DEF items
    <3> QED
      BY <3>1, <3>2
  <2>5. ASSUME NEW sees, NEW close, run.phase = "Crisis",
               LET b == Chase(Heed(billy), close) IN
                 \/ billy' \in Wander(b, sees) /\ UNCHANGED <<note, usb>>
                 \/ Secure(b)
                 \/ CallBoss(b, close)
        PROVE  Story'
    <3> DEFINE b == Chase(Heed(billy), close)
    <3>1. b \in Billy /\ Same(billy, b) /\ b.mode \in {billy.mode, "Secure", "Pursue"}
      BY HeedFacts DEF TypeOK
    <3> HIDE DEF b
    <3>2. CASE billy' \in Wander(b, sees) /\ UNCHANGED <<note, usb>>
      <4>1. /\ Same(billy, billy') /\ billy'.mode # "Offsite"
            /\ billy'.mode \in {"Guard", "CallBoss"} => billy.mode = "Guard"
            /\ billy'.mode = "CallBoss" => ~billy'.called
        BY <3>1, <3>2, WanderFacts, SMT DEF Same
      <4> QED
        BY <2>1, <2>5, <3>2, <4>1, SMT DEF Story, Custody, OffsiteIsQuiet, GuardCarries, DecoyPinned, Carrying, Same
    <3> DEFINE pursue == Move(b, "Pursue")
               guard == Move(b, "Guard")
    <3>1a. /\ pursue \in Billy /\ Same(billy, pursue) /\ pursue.mode = "Pursue"
           /\ guard \in Billy /\ Same(billy, guard) /\ guard.mode = "Guard"
      BY <3>1, MoveFacts, SMT DEF Mode, Same
    <3> HIDE DEF pursue, guard
    (* He went on, or turned to the player, with nothing new in his hands. *)
    <3>1b. ASSUME UNCHANGED <<note, usb>>, billy' = b \/ billy' = pursue, b.mode \in {"Secure", "CallBoss"}
           PROVE  Story'
      <4>1. /\ Same(billy, billy') /\ billy'.mode # "Offsite"
            /\ billy'.mode \in {"Guard", "CallBoss"} => billy.mode = billy'.mode
        BY <3>1, <3>1a, <3>1b, SMT
      <4> QED
        BY <1>0, <2>1, <2>5, <3>1b, <4>1, StoryKept DEF items
    <3>3. CASE Secure(b)
      <4>1. \/ UNCHANGED <<note, usb>> /\ billy' \in {b, pursue}
            \/ /\ NoteFree /\ UNCHANGED usb
               /\ note' = [note EXCEPT !.billy_has = TRUE]
               /\ billy' = [guard EXCEPT !.has_note = TRUE, !.reported = "note"]
            \/ /\ UsbFree /\ UNCHANGED note
               /\ usb' = [usb EXCEPT !.billy_has = TRUE, !.thrown = FALSE]
               /\ billy' = [guard EXCEPT !.has_usb = TRUE, !.reported = "usb"]
        BY <3>3, Zenon DEF Secure, pursue, guard
      <4>2. CASE UNCHANGED <<note, usb>> /\ billy' \in {b, pursue}
        BY <3>1b, <3>3, <4>2 DEF Secure
      <4>3. CASE /\ NoteFree /\ UNCHANGED usb
                 /\ note' = [note EXCEPT !.billy_has = TRUE]
                 /\ billy' = [guard EXCEPT !.has_note = TRUE, !.reported = "note"]
        <5>1. /\ billy'.has_note = TRUE /\ billy'.has_usb = billy.has_usb /\ billy'.reported = "note"
              /\ billy'.mode = "Guard" /\ billy'.called = billy.called
          BY <3>1a, <4>3, Zenon DEF Billy, Same
        <5>2. note'.billy_has = TRUE /\ note'.held = note.held /\ ~note.held
          BY <4>3, Zenon DEF TypeOK, Note, NoteFree
        <5>3. Custody' /\ DecoyPinned'
          BY <2>1, <4>3, <5>1, <5>2, Zenon DEF Story, Custody, DecoyPinned
        <5>4. OffsiteIsQuiet' /\ GuardCarries'
          BY <2>1, <2>5, <5>1, LobbyAssumption, SMT DEF OffsiteIsQuiet, GuardCarries, Carrying, Object
        <5> QED
          BY <5>3, <5>4 DEF Story
      <4>4. CASE /\ UsbFree /\ UNCHANGED note
                 /\ usb' = [usb EXCEPT !.billy_has = TRUE, !.thrown = FALSE]
                 /\ billy' = [guard EXCEPT !.has_usb = TRUE, !.reported = "usb"]
        <5>1. /\ billy'.has_usb = TRUE /\ billy'.has_note = billy.has_note /\ billy'.reported = "usb"
              /\ billy'.mode = "Guard" /\ billy'.called = billy.called
          BY <3>1a, <4>4, Zenon DEF Billy, Same
        <5>2. usb'.billy_has = TRUE /\ usb'.thrown = FALSE /\ usb'.held = usb.held /\ ~usb.held
          BY <4>4, Zenon DEF TypeOK, Usb, UsbFree
        <5>3. Custody' /\ DecoyPinned'
          BY <2>1, <4>4, <5>1, <5>2, Zenon DEF Story, Custody, DecoyPinned
        <5>4. OffsiteIsQuiet' /\ GuardCarries'
          BY <2>1, <2>5, <5>1, LobbyAssumption, SMT DEF OffsiteIsQuiet, GuardCarries, Carrying, Object
        <5> QED
          BY <5>3, <5>4 DEF Story
      <4> QED
        BY <4>1, <4>2, <4>3, <4>4
    <3>4. CASE CallBoss(b, close)
      <4>1. /\ UNCHANGED <<note, usb>> /\ b.mode = "CallBoss"
            /\ billy' \in {b, pursue} \/ billy' = [pursue EXCEPT !.called = TRUE, !.reported = Report(b)]
        BY <3>4, Zenon DEF CallBoss, pursue
      <4>2. CASE billy' \in {b, pursue}
        BY <3>1b, <4>1, <4>2
      <4>3. CASE billy' = [pursue EXCEPT !.called = TRUE, !.reported = Report(b)]
        <5>1. /\ billy'.has_note = billy.has_note /\ billy'.has_usb = billy.has_usb
              /\ billy'.mode = "Pursue" /\ billy'.reported = Report(b)
          BY <3>1a, <4>3, Zenon DEF Billy, Same
        <5>2. Report(b) # None
          BY LobbyAssumption, Zenon DEF Report, Object
        <5>3. Custody' /\ DecoyPinned'
          BY <2>1, <4>1, <5>1, Zenon DEF Story, Custody, DecoyPinned
        <5>4. OffsiteIsQuiet' /\ GuardCarries'
          BY <2>1, <2>5, <5>1, <5>2, SMT DEF OffsiteIsQuiet, GuardCarries
        <5> QED
          BY <5>3, <5>4 DEF Story
      <4> QED
        BY <4>1, <4>2, <4>3
    <3> QED
      BY <2>5, <3>2, <3>3, <3>4 DEF b
  <2> QED
    BY <1>14, <1>0d, <2>1, <2>2, <2>3, <2>4, <2>5 DEF RunBilly, items, mind
<1>15. CASE RunCollisions
  <2>1. CASE UNCHANGED <<run, items, mind>>
    BY <2>1, <1>0d
  <2>2. CASE run'.phase = "Result" /\ UNCHANGED <<items, mind>>
    BY <2>2, <1>0c
  <2>3. CASE run' = run /\ run.phase = "Crisis" /\ billy' = [billy EXCEPT !.stun = TRUE]
    <3>1. Same(billy, billy') /\ billy'.mode = billy.mode
      BY <2>3, Zenon DEF TypeOK, Billy, Same
    <3> QED
      BY <1>0, <1>15, <2>3, <3>1, StoryKept, Zenon DEF RunCollisions, Story, OffsiteIsQuiet
  <2> QED
    BY <1>15, <1>0b, <2>1, <2>2, <2>3, Zenon DEF RunCollisions, InCrisis, mind
<1>16. CASE Settle
  <2>1. UNCHANGED <<items, interest>>
    BY <1>16 DEF Settle
  <2>2. \/ run'.phase = "Result" /\ billy' \in {billy, Entered(billy)}
        \/ run.phase = "Quiet" /\ run'.phase = "Crisis" /\ billy' = Entered(billy)
        \/ run'.phase = run.phase /\ billy' = billy
    BY <1>16, Zenon DEF Settle, TypeOK, Run
  <2>3. Same(billy, Entered(billy)) /\ Entered(billy).mode = "Entering"
    BY Zenon DEF TypeOK, Billy, Entered, Same
  <2>4. /\ Same(billy, billy')
        /\ \/ run'.phase = "Result" /\ (billy' = billy \/ billy'.mode = "Entering")
           \/ run'.phase = "Crisis" /\ billy'.mode = "Entering"
           \/ run'.phase = run.phase /\ billy' = billy
    BY <1>0a, <2>2, <2>3
  <2>5. Custody' /\ DecoyPinned'
    BY <2>1, <2>4, Zenon DEF Story, Custody, DecoyPinned, Same, items
  <2>6. OffsiteIsQuiet' /\ GuardCarries'
    BY <2>1, <2>4, SMT DEF Story, OffsiteIsQuiet, GuardCarries, Carrying, Same, items
  <2> QED
    BY <2>5, <2>6 DEF Story
<1>17. CASE UNCHANGED vars
  BY <1>17, <1>0d DEF vars
<1> QED
  BY <1>1, <1>2, <1>3, <1>4, <1>5, <1>6, <1>7, <1>8, <1>9, <1>10, <1>11, <1>12, <1>13, <1>14, <1>15,
     <1>16, <1>17 DEF Next

-------------------------------------------------------------------------------
(* The conjuncts of IInv hold together in every reachable state. *)
THEOREM Invariant == Spec => []IInv
<1>1. IInv /\ [Next]_vars => IInv'
  <2> SUFFICES ASSUME IInv, [Next]_vars PROVE IInv'
    OBVIOUS
  <2>1. TypeOK'
    BY TypeInv DEF IInv
  <2>2. Story'
    BY StoryInv DEF IInv, Story
  <2>3. EndedAtRest' /\ TickSettles'
    BY RestInv DEF IInv
  <2> QED
    BY <2>1, <2>2, <2>3 DEF IInv, Story
<1> QED
  BY InitInv, <1>1, PTL DEF Spec

(* Every field keeps its type through every system of every tick. *)
THEOREM TypeCorrect == Spec => []TypeOK
<1>1. IInv => TypeOK
  BY DEF IInv
<1> QED
  BY Invariant, <1>1, PTL

(* Whatever is peeled, picked, thrown and grabbed, each object has one place
   and both sides agree on it. *)
THEOREM ObjectsHaveOneHolder == Spec => []Custody
<1>1. IInv => Custody
  BY DEF IInv
<1> QED
  BY Invariant, <1>1, PTL

(* Nothing that wakes Billy has happened while he is away, and no crisis runs
   without him. *)
THEOREM BillyComesWithTheCrisis == Spec => []OffsiteIsQuiet
<1>1. IInv => OffsiteIsQuiet
  BY DEF IInv
<1> QED
  BY Invariant, <1>1, PTL

(* Billy stands guard or is on the phone only over something he holds, and
   never calls twice. *)
THEOREM GuardsWhatHeHolds == Spec => []GuardCarries
<1>1. IInv => GuardCarries
  BY DEF IInv
<1> QED
  BY Invariant, <1>1, PTL

(* Once the decoy is thrown the misdirect stays on while it is out or in
   Billy's hands: the meter cannot fall while the drive is pinned, and what
   Billy grabbed stands for it afterwards. *)
THEOREM DecoyAlwaysSticks == Spec => []DecoySticks
<1>1. IInv => DecoySticks
  BY Zenon DEF IInv, DecoySticks, DecoyPinned, Custody, Misled
<1> QED
  BY Invariant, <1>1, PTL

(* A tick that reached the alert limit or a trace has ended the run by the
   time it is over. *)
THEOREM EveryTickSettles == Spec => []TickSettles
<1>1. IInv => TickSettles
  BY DEF IInv
<1> QED
  BY Invariant, <1>1, PTL

(* The system that ends the run skips the rest of its tick, so that an ended
   run is at rest, where only the pause and a restart are left. *)
THEOREM TheEndIsFinal == Spec => EndIsFinal
<1>1. IInv /\ [Next]_vars => [Ended => UNCHANGED <<at, run, floor, items, mind>> \/ run' = NewRun]_vars
  <2> SUFFICES ASSUME IInv, Ended, Next
               PROVE  UNCHANGED <<at, run, floor, items, mind>> \/ run' = NewRun
    BY Zenon DEF vars
  <2>1. at = "idle"
    BY DEF IInv, EndedAtRest
  <2>2. Begin \/ Restart
    BY <2>1, SMT DEF Next, TouchNetwork, Hack, ForceCrisis, ForceEnd, Advance, PeelNote, TakeUsb, EnterChute,
       SearchChute, Pickpocket, NothingInReach, ServiceExit, ThrowUsb, KeepUsb, RunUsb, RunVacuum, RunCameras,
       RunSupport, RunBehaviour, RunBilly, RunCollisions, Settle
  <2> QED
    BY <2>1, <2>2, Zenon DEF Begin, Restart
<1> QED
  BY Invariant, <1>1, PTL DEF Spec, EndIsFinal

(* Types, custody, the quiet before the crisis, the guard's hands and settled
   ticks, as the one invariant a reader of a run relies on. *)
THEOREM LobbySafe == Spec => []LobbyIsSafe
<1>1. IInv => LobbyIsSafe
  BY DEF IInv, LobbyIsSafe
<1> QED
  BY Invariant, <1>1, PTL
===============================================================================
