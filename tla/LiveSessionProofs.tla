--------------------------- MODULE LiveSessionProofs --------------------------
(***************************************************************************)
(* Theorems about LiveSession, for every step budget, pair of delays and   *)
(* feed.                                                                   *)
(*                                                                         *)
(*   types    any number of deaths, any hasty timeouts and late notices    *)
(*   moves    what each step of the loop may change, said once             *)
(*   Control  where each process stands in its life; at most one death     *)
(*   Links    what the queue towards a live seat still holds is what that  *)
(*            seat lacks; at most one death; from it SessionIsSafe         *)
(*   History  what the two seats, living and dead, played is one history;  *)
(*            at most one death, and silence no false alarm (the grace     *)
(*            period not hasty); from it OneHistory, DigestsMatch and      *)
(*            CompletedAlike                                               *)
(***************************************************************************)
EXTENDS LiveSession, LockstepCoreProofs

(* What a snapshot carries is finite, as the buffers it was made from.      *)
Small(b) ==
  b.type = "resync" => IsFiniteSet(b.state.survivor_pending) /\ IsFiniteSet(b.state.your_pending)

TypeInv ==
  /\ TypeOK
  /\ \A r \in Role : Buffered(core[r])
  /\ \A r \in Role : \A i \in DOMAIN inbox[r] : Small(inbox[r][i])

Mail == {b \in Message : Small(b)}

(* A broadcast has what its type says. *)
LEMMA MessageFacts ==
  ASSUME NEW b \in Message
  PROVE  /\ b.type = "command" => b.m \in Scheduled
         /\ b.type = "commit" => b.through \in Nat
         /\ b.type = "resync" => b.state \in Resync
         /\ b.type = "hello" => b.rejoin \in BOOLEAN
         /\ b.type = "digest" => b.log \in SUBSET Executed
         /\ b.type \in {"command", "commit", "hello", "resync", "digest", "peer_joined", "peer_left"}
<1>1. CASE b \in [type : {"command"}, m : Scheduled]
  BY <1>1
<1>2. CASE b \in [type : {"commit"}, through : Nat]
  BY <1>2
<1>3. CASE b \in [type : {"hello"}, rejoin : BOOLEAN]
  BY <1>3
<1>4. CASE b \in [type : {"resync"}, state : Resync]
  BY <1>4
<1>5. CASE b \in [type : {"digest"}, log : SUBSET Executed]
  BY <1>5
<1>6. CASE b \in [type : {"peer_joined", "peer_left"}]
  BY <1>6
<1> QED BY <1>1, <1>2, <1>3, <1>4, <1>5, <1>6 DEF Message

(* What a seat pushes is a broadcast, and its snapshots are finite. *)
LEMMA PostedFacts ==
  /\ [type |-> "peer_joined"] \in Mail /\ [type |-> "peer_left"] \in Mail
  /\ \A m \in Scheduled : [type |-> "command", m |-> m] \in Mail
  /\ \A n \in Nat : [type |-> "commit", through |-> n] \in Mail
  /\ \A f \in BOOLEAN : [type |-> "hello", rejoin |-> f] \in Mail
  /\ \A L \in SUBSET Executed : [type |-> "digest", log |-> L] \in Mail
  /\ \A s \in Resync : IsFiniteSet(s.survivor_pending) /\ IsFiniteSet(s.your_pending) =>
       [type |-> "resync", state |-> s] \in Mail
<1>1. /\ [type |-> "peer_joined"] \in Mail /\ [type |-> "peer_left"] \in Mail
  BY DEF Mail, Message, Small
<1>2. /\ \A m \in Scheduled : [type |-> "command", m |-> m] \in Mail
      /\ \A n \in Nat : [type |-> "commit", through |-> n] \in Mail
  BY DEF Mail, Message, Small
<1>3. \A f \in BOOLEAN : [type |-> "hello", rejoin |-> f] \in Mail
  BY DEF Mail, Message, Small
<1>4. \A L \in SUBSET Executed : [type |-> "digest", log |-> L] \in Mail
  BY DEF Mail, Message, Small
<1>5. \A s \in Resync : IsFiniteSet(s.survivor_pending) /\ IsFiniteSet(s.your_pending) =>
        [type |-> "resync", state |-> s] \in Mail
  BY DEF Mail, Message, Small
<1> QED BY <1>1, <1>2, <1>3, <1>4, <1>5

(* The processes that have yet to start are typed. *)
LEMMA TypeInit ==
  ASSUME SessionAssumption, Init
  PROVE  TypeInv
<1>1. NewCore \in Core /\ Buffered(NewCore)
  BY FS_EmptySet DEF NewCore, Core, Buffered
<1>2. core \in [Role -> Core] /\ \A r \in Role : Buffered(core[r])
  BY <1>1 DEF Init
<1>3. inbox \in [Role -> Seq(Message)] /\ \A r \in Role : DOMAIN inbox[r] = {}
  BY DEF Init
<1>4. /\ status \in [Role -> Status] /\ outbox \in [Role -> SUBSET Scheduled]
      /\ digest \in [Role -> SUBSET SUBSET Executed] /\ lives \in [Role -> 0 .. MaxDeaths]
      /\ left \in [Role -> Nat] /\ played \subseteq Executed
  BY DEF Init, Status, SessionAssumption
<1> QED BY <1>2, <1>3, <1>4 DEF TypeInv, TypeOK

(* A seat's inbox as a sequence of Mail: consumed from, and pushed to. *)
LEMMA InboxFacts ==
  ASSUME TypeInv, NEW r \in Role
  PROVE  /\ inbox[r] \in Seq(Mail)
         /\ Peer(r) \in Role /\ Peer(r) # r
         /\ inbox[r] # <<>> => Tail(inbox[r]) \in Seq(Mail) /\ Head(inbox[r]) \in Mail
         /\ \A b \in Mail : Posted(r, <<b>>) \in Seq(Mail)
         /\ Posted(r, <<>>) \in Seq(Mail)
<1>1. \A x \in Role : inbox[x] \in Seq(Mail)
  <2> SUFFICES ASSUME NEW x \in Role PROVE inbox[x] \in Seq(Mail)
    OBVIOUS
  <2>1. inbox[x] \in Seq(Message)
    BY DEF TypeInv, TypeOK
  <2>2. \A i \in 1 .. Len(inbox[x]) : inbox[x][i] \in Mail
    BY <2>1 DEF TypeInv, Mail
  <2> QED BY <2>1, <2>2
<1>2. Peer(r) \in Role /\ Peer(r) # r
  BY DEF Role, Peer
<1>3. inbox[r] # <<>> => Tail(inbox[r]) \in Seq(Mail) /\ Head(inbox[r]) \in Mail
  BY <1>1, HeadTailProperties
<1>4. \A b \in Mail : Posted(r, <<b>>) \in Seq(Mail)
  BY <1>1, <1>2 DEF Posted
<1>5. Posted(r, <<>>) \in Seq(Mail)
  BY <1>1, <1>2 DEF Posted
<1> QED BY <1>1, <1>2, <1>3, <1>4, <1>5

(* What an inbox of Mail gives TypeInv. *)
LEMMA MailKept ==
  ASSUME NEW f \in [Role -> Seq(Mail)]
  PROVE  f \in [Role -> Seq(Message)] /\ \A r \in Role : \A i \in DOMAIN f[r] : Small(f[r][i])
<1> SUFFICES ASSUME NEW r \in Role
             PROVE  f[r] \in Seq(Message) /\ \A i \in DOMAIN f[r] : Small(f[r][i])
  OBVIOUS
<1>1. f[r] \in Seq(Mail)
  OBVIOUS
<1>2. \A i \in 1 .. Len(f[r]) : f[r][i] \in Message /\ Small(f[r][i])
  BY <1>1 DEF Mail
<1> QED BY <1>1, <1>2

(* TypeInv in parts a step treats one by one. *)
CoresTyped == core \in [Role -> Core] /\ \A r \in Role : Buffered(core[r])
MailTyped == inbox \in [Role -> Seq(Mail)]
RestTyped ==
  /\ status \in [Role -> Status]
  /\ outbox \in [Role -> SUBSET Scheduled]
  /\ digest \in [Role -> SUBSET SUBSET Executed]
  /\ lives \in [Role -> 0 .. MaxDeaths]
  /\ left \in [Role -> Nat]
  /\ played \subseteq Executed

(* The type invariant by parts: a step that touches one leaves the others. *)
LEMMA TypeParts == TypeInv <=> CoresTyped /\ MailTyped /\ RestTyped
<1>1. TypeInv => MailTyped
  <2> SUFFICES ASSUME TypeInv PROVE MailTyped
    OBVIOUS
  <2>1. \A r \in Role : inbox[r] \in Seq(Mail)
    BY InboxFacts
  <2> QED BY <2>1 DEF TypeInv, TypeOK, MailTyped
<1>2. CoresTyped /\ MailTyped /\ RestTyped => TypeInv
  BY MailKept DEF TypeInv, TypeOK, CoresTyped, MailTyped, RestTyped
<1> QED BY <1>1, <1>2 DEF TypeInv, TypeOK, CoresTyped, RestTyped

(* A seat's core is replaced; its inbox is, or the peer's. *)
LEMMA CoreSet ==
  ASSUME CoresTyped, NEW r \in Role, NEW c \in Core, Buffered(c), core' = [core EXCEPT ![r] = c]
  PROVE  CoresTyped'
BY DEF CoresTyped

(* The two inboxes replaced at once, as Answer and PushDigest do. *)
LEMMA InboxSet ==
  ASSUME MailTyped, NEW r \in Role, NEW w \in Seq(Mail), NEW v \in Seq(Mail),
         inbox' = [inbox EXCEPT ![r] = w, ![Peer(r)] = v]
  PROVE  MailTyped'
<1>1. Peer(r) \in Role
  BY PeerFacts
<1> QED BY <1>1 DEF MailTyped

(* What Push, Answer and an exit make of the inboxes is typed. *)
LEMMA MailMoves ==
  ASSUME TypeInv, NEW r \in Role
  PROVE  /\ \A b \in Mail : Push(r, <<b>>) => MailTyped'
         /\ inbox[r] # <<>> => \A b \in Mail : Answer(r, <<b>>) => MailTyped'
         /\ inbox[r] # <<>> /\ Answer(r, <<>>) => MailTyped'
         /\ inbox' = [inbox EXCEPT ![r] = <<>>] => MailTyped'
<1>1. MailTyped /\ Peer(r) \in Role /\ Peer(r) # r
  BY TypeParts, PeerFacts
<1>2. /\ \A b \in Mail : Posted(r, <<b>>) \in Seq(Mail)
      /\ Posted(r, <<>>) \in Seq(Mail)
      /\ inbox[r] # <<>> => Tail(inbox[r]) \in Seq(Mail)
  BY InboxFacts
<1>3. \A b \in Mail : Push(r, <<b>>) => MailTyped'
  BY <1>1, <1>2 DEF Push, MailTyped
<1>4. inbox[r] # <<>> => \A b \in Mail : Answer(r, <<b>>) => MailTyped'
  BY <1>1, <1>2 DEF Answer, MailTyped
<1>5. inbox[r] # <<>> /\ Answer(r, <<>>) => MailTyped'
  BY <1>1, <1>2 DEF Answer, MailTyped
<1>6. <<>> \in Seq(Mail)
  OBVIOUS
<1>7. inbox' = [inbox EXCEPT ![r] = <<>>] => MailTyped'
  BY <1>1, <1>6 DEF MailTyped
<1> QED BY <1>3, <1>4, <1>5, <1>7

(* What Become and Exit make of the statuses is typed. *)
LEMMA StatusMoves ==
  ASSUME TypeInv, NEW r \in Role
  PROVE  /\ \A s \in Status : Become(r, s) => status' \in [Role -> Status]
         /\ \A s \in Status : Exit(r, s) => status' \in [Role -> Status] /\ left' \in [Role -> Nat]
<1>1. status \in [Role -> Status] /\ left \in [Role -> Nat]
  BY DEF TypeInv, TypeOK
<1>2. \A s \in Status : Become(r, s) => status' \in [Role -> Status]
  BY <1>1 DEF Become
<1>3. left[r] + 1 \in Nat
  BY <1>1
<1>4. \A s \in Status : Exit(r, s) => left' \in [Role -> Nat]
  BY <1>1, <1>3 DEF Exit
<1> QED BY <1>2, <1>4 DEF Exit, Become

(* A snapshot is sent, by a seat that reads a rejoin hello. *)
LEMMA SnapshotSent ==
  ASSUME TypeInv, NEW r \in Role, inbox[r] # <<>>, SendResync(r)
  PROVE  CoresTyped' /\ MailTyped'
<1> DEFINE c == OnPeerLost(core[r])
<1>1. CoresTyped /\ core[r] \in Core /\ Buffered(core[r])
  BY TypeParts DEF CoresTyped
<1>2. c \in Core /\ Buffered(c)
  BY <1>1, LostTyped
<1>3. core' = [core EXCEPT ![r] = c] /\ Answer(r, <<[type |-> "resync", state |-> MakeResync(c)]>>)
  BY DEF SendResync
<1> HIDE DEF c
<1>4. [type |-> "resync", state |-> MakeResync(c)] \in Mail
  BY <1>2, ResyncTyped, PostedFacts DEF Buffered
<1> QED BY <1>1, <1>2, <1>3, <1>4, CoreSet, MailMoves

(* A hello is a broadcast of one of two forms. *)
LEMMA HelloMail ==
  ASSUME NEW r \in Role
  PROVE  Hello(r) \in Mail
<1> DEFINE f == lives[r] > 0
<1>1. f \in BOOLEAN
  OBVIOUS
<1>2. Hello(r) = [type |-> "hello", rejoin |-> f]
  BY DEF Hello
<1> HIDE DEF f
<1> QED BY <1>1, <1>2, PostedFacts

(* The statuses one by one, and where the frame loop leads. *)
LEMMA StatusFacts ==
  /\ \A c : Loop(c) \in Status
  /\ {"offline", "joining", "barrier", "resync", "closing", "digest", "pump", "push", "drain", "hold",
      "silent", "completed", "peer_gone", "quit", "no_peer", "no_run", "error"} = Status
  /\ "offline" \notin Joined /\ \A s \in Ended : s \notin Joined
BY DEF Loop, Status, Joined, Frame, Holding, Ended

(* What a step leaves alone stays typed. *)
LEMMA TypesRest ==
  ASSUME TypeInv
  PROVE  /\ UNCHANGED core => CoresTyped'
         /\ UNCHANGED inbox => MailTyped'
         /\ UNCHANGED status => status' \in [Role -> Status]
         /\ UNCHANGED outbox => outbox' \in [Role -> SUBSET Scheduled]
         /\ UNCHANGED digest => digest' \in [Role -> SUBSET SUBSET Executed]
         /\ UNCHANGED lives => lives' \in [Role -> 0 .. MaxDeaths]
         /\ UNCHANGED left => left' \in [Role -> Nat]
         /\ UNCHANGED played => played' \subseteq Executed
<1>1. CoresTyped /\ MailTyped /\ RestTyped
  BY TypeParts
<1> QED BY <1>1 DEF CoresTyped, MailTyped, RestTyped

(* The first actions of a process, and those of the barrier. *)
LEMMA TypeBringUp ==
  ASSUME TypeInv, NEW r \in Role, Join(r) \/ SayHello(r) \/ AtBarrier(r) \/ AwaitResync(r)
  PROVE  TypeInv'
<1> SUFFICES CoresTyped' /\ MailTyped' /\ RestTyped'
  <2>1. (TypeInv <=> CoresTyped /\ MailTyped /\ RestTyped)'
    BY TypeParts, PTL
  <2> QED BY <2>1
<1>0. /\ core[r] \in Core /\ Buffered(core[r])
      /\ Hello(r) \in Mail
      /\ \A c : Loop(c) \in Status
      /\ "joining" \in Status /\ "resync" \in Status /\ "barrier" \in Status /\ "no_run" \in Status
  BY TypeParts, HelloMail, StatusFacts DEF CoresTyped
<1>1. CASE Join(r)
  <2>1. MailTyped'
    BY <1>1, MailMoves, PostedFacts DEF Join
  <2> QED BY <1>0, <1>1, <2>1, TypesRest, StatusMoves DEF Join, RestTyped
<1>2. CASE SayHello(r)
  <2>1. MailTyped'
    BY <1>0, <1>2, MailMoves DEF SayHello
  <2>2. status' \in [Role -> Status]
    BY <1>0, <1>2, StatusMoves DEF SayHello
  <2> QED BY <1>2, <2>1, <2>2, TypesRest DEF SayHello, RestTyped
<1>3. CASE AtBarrier(r)
  <2> DEFINE b == Head(inbox[r])
  <2>1. inbox[r] # <<>> /\ UNCHANGED <<core, outbox, digest, lives, played>>
    BY <1>3 DEF AtBarrier
  <2>2. b \in Message
    BY <2>1, InboxFacts DEF Mail
  <2>3. \/ Answer(r, <<Hello(r)>>) /\ UNCHANGED <<status, left>>
        \/ Exit(r, "no_run") /\ inbox' = [inbox EXCEPT ![r] = <<>>]
        \/ Answer(r, <<>>) /\ Become(r, Loop(core[r])) /\ UNCHANGED left
        \/ Answer(r, <<>>) /\ UNCHANGED <<status, left>>
    <3>1. b.type = "hello" => b.rejoin \in BOOLEAN
      BY <2>2, MessageFacts
    <3>2. CASE b.type = "peer_joined"
      BY <1>3, <3>2 DEF AtBarrier
    <3>3. CASE b.type = "hello" /\ b.rejoin
      BY <1>3, <3>3 DEF AtBarrier
    <3>4. CASE b.type = "hello" /\ ~b.rejoin
      BY <1>3, <3>4 DEF AtBarrier
    <3>5. CASE b.type # "peer_joined" /\ b.type # "hello"
      BY <1>3, <3>5 DEF AtBarrier
    <3> QED BY <3>1, <3>2, <3>3, <3>4, <3>5
  <2>4. MailTyped'
    BY <1>0, <2>1, <2>3, MailMoves
  <2>5. status' \in [Role -> Status] /\ left' \in [Role -> Nat]
    BY <1>0, <2>3, StatusMoves, TypesRest
  <2> QED BY <2>1, <2>4, <2>5, TypesRest DEF RestTyped
<1>4. CASE AwaitResync(r)
  <2>1. inbox[r] # <<>> /\ Answer(r, <<>>) /\ UNCHANGED <<outbox, digest, lives, left, played>>
    BY <1>4 DEF AwaitResync
  <2>2. MailTyped'
    BY <2>1, MailMoves
  <2>3. CASE Heard(r, "resync")
    <3> DEFINE s == Head(inbox[r]).state
    <3>1. Head(inbox[r]) \in Message /\ Small(Head(inbox[r]))
      BY <2>1, InboxFacts DEF Mail
    <3>2. s \in Resync /\ IsFiniteSet(s.survivor_pending) /\ IsFiniteSet(s.your_pending)
      BY <2>3, <3>1, MessageFacts DEF Heard, Small
    <3> HIDE DEF s
    <3>3. AdoptResync(s) \in Core /\ Buffered(AdoptResync(s))
      BY <3>2, AdoptTyped DEF Buffered
    <3>4. core' = [core EXCEPT ![r] = AdoptResync(s)] /\ Become(r, Loop(core'[r]))
      BY <1>4, <2>3 DEF AwaitResync, s
    <3>5. CoresTyped'
      BY <3>3, <3>4, CoreSet, TypeParts
    <3>6. status' \in [Role -> Status]
      BY <1>0, <3>4, StatusMoves
    <3> QED BY <2>1, <2>2, <3>5, <3>6, TypesRest DEF RestTyped
  <2>4. CASE ~Heard(r, "resync")
    <3>1. UNCHANGED <<core, status>>
      BY <1>4, <2>4 DEF AwaitResync
    <3> QED BY <2>1, <2>2, <3>1, TypesRest DEF RestTyped
  <2> QED BY <2>3, <2>4
<1> QED BY <1>1, <1>2, <1>3, <1>4

(* The commit that follows a batch has something to commit. *)
Sampled == \A r \in Role : status[r] = "push" => core[r].next_sample > 0

(* An executed batch is part of the history, which stays typed. *)
LEMMA PlayedTyped ==
  ASSUME TypeInv, NEW r \in Role, NEW c, AdvanceReady(r, c)
  PROVE  c \in Core /\ Buffered(c) /\ played' \subseteq Executed
<1>1. c = Advance(r, core[r]) /\ played' = played \cup c.ran
  BY DEF AdvanceReady
<1>2. core[r] \in Core /\ Buffered(core[r]) /\ played \subseteq Executed
  BY DEF TypeInv, TypeOK
<1>3. c \in Core /\ Buffered(c)
  BY <1>1, <1>2, AdvanceTyped
<1>4. c.ran \subseteq Executed
  BY <1>3 DEF Core
<1> QED BY <1>1, <1>2, <1>3, <1>4

(* Sampling, pushing, and the end of a frame. *)
LEMMA TypeFrame ==
  ASSUME TypeInv, Sampled, NEW r \in Role,
         \/ PumpOutgoing(r) \/ PushCommand(r) \/ PushCommit(r)
         \/ NextFrame(r) \/ LostBySilence(r) \/ Quit(r)
  PROVE  TypeInv'
<1> SUFFICES CoresTyped' /\ MailTyped' /\ RestTyped'
  <2>1. (TypeInv <=> CoresTyped /\ MailTyped /\ RestTyped)'
    BY TypeParts, PTL
  <2> QED BY <2>1
<1>0. /\ core[r] \in Core /\ Buffered(core[r]) /\ CoresTyped
      /\ outbox \in [Role -> SUBSET Scheduled]
      /\ \A c : Loop(c) \in Status
      /\ "drain" \in Status /\ "push" \in Status /\ "silent" \in Status /\ "quit" \in Status
  BY TypeParts, StatusFacts DEF CoresTyped, RestTyped
<1>1. CASE PumpOutgoing(r)
  <2>1. PICK answers \in [SampleWindow(r, core[r]) -> Feed] :
          /\ core' = [core EXCEPT ![r] = Pump(r, core[r], answers)]
          /\ outbox' = [outbox EXCEPT ![r] = Schedule(answers)]
    BY <1>1 DEF PumpOutgoing
  <2>2. CoresTyped'
    BY <1>0, <2>1, PumpTyped, CoreSet
  <2>3. Schedule(answers) \in SUBSET Scheduled
    BY <1>0, ScheduleFacts
  <2>4. outbox' \in [Role -> SUBSET Scheduled]
    BY <1>0, <2>1, <2>3
  <2>5. status' \in [Role -> Status]
    BY <1>0, <1>1, StatusMoves DEF PumpOutgoing
  <2> QED BY <1>1, <2>2, <2>4, <2>5, TypesRest DEF PumpOutgoing, RestTyped
<1>2. CASE PushCommand(r)
  <2>1. PICK m \in outbox[r] : /\ outbox' = [outbox EXCEPT ![r] = @ \ {m}]
                               /\ Push(r, <<[type |-> "command", m |-> m]>>)
    BY <1>2 DEF PushCommand
  <2>2. m \in Scheduled
    BY <1>0
  <2>3. MailTyped'
    BY <2>1, <2>2, PostedFacts, MailMoves
  <2>4. outbox[r] \ {m} \in SUBSET Scheduled
    BY <1>0
  <2>5. outbox' \in [Role -> SUBSET Scheduled]
    BY <1>0, <2>1, <2>4
  <2> QED BY <1>2, <2>3, <2>5, TypesRest DEF PushCommand, RestTyped
<1>3. CASE PushCommit(r)
  <2>1. core[r].next_sample - 1 \in Nat
    BY <1>0, <1>3 DEF PushCommit, Sampled, Core
  <2>2. MailTyped'
    BY <1>3, <2>1, PostedFacts, MailMoves DEF PushCommit
  <2> QED BY <1>0, <1>3, <2>2, TypesRest, StatusMoves DEF PushCommit, RestTyped
<1>4. CASE NextFrame(r)
  <2> DEFINE c == Advance(r, core[r])
  <2>1. AdvanceReady(r, c) /\ core' = [core EXCEPT ![r] = c] /\ Become(r, Loop(c))
        /\ UNCHANGED <<inbox, outbox, digest, lives, left>>
    BY <1>4 DEF NextFrame
  <2> HIDE DEF c
  <2>2. c \in Core /\ Buffered(c) /\ played' \subseteq Executed
    BY <2>1, PlayedTyped
  <2>3. CoresTyped'
    BY <1>0, <2>1, <2>2, CoreSet
  <2>4. status' \in [Role -> Status]
    BY <1>0, <2>1, StatusMoves
  <2> QED BY <2>1, <2>2, <2>3, <2>4, TypesRest DEF RestTyped
<1>5. CASE LostBySilence(r)
  <2> DEFINE c == Advance(r, core[r])
  <2>1. AdvanceReady(r, c) /\ core' = [core EXCEPT ![r] = OnPeerLost(c)] /\ Become(r, "silent")
        /\ UNCHANGED <<inbox, outbox, digest, lives, left>>
    BY <1>5 DEF LostBySilence
  <2> HIDE DEF c
  <2>2. c \in Core /\ Buffered(c) /\ played' \subseteq Executed
    BY <2>1, PlayedTyped
  <2>3. CoresTyped'
    BY <1>0, <2>1, <2>2, LostTyped, CoreSet
  <2>4. status' \in [Role -> Status]
    BY <1>0, <2>1, StatusMoves
  <2> QED BY <2>1, <2>2, <2>3, <2>4, TypesRest DEF RestTyped
<1>6. CASE Quit(r)
  <2> DEFINE c == Advance(r, core[r])
  <2>1. AdvanceReady(r, c) /\ core' = [core EXCEPT ![r] = c] /\ Exit(r, "quit")
        /\ inbox' = [inbox EXCEPT ![r] = <<>>] /\ UNCHANGED <<outbox, digest, lives>>
    BY <1>6 DEF Quit
  <2> HIDE DEF c
  <2>2. c \in Core /\ Buffered(c) /\ played' \subseteq Executed
    BY <2>1, PlayedTyped
  <2>3. CoresTyped' /\ MailTyped'
    BY <1>0, <2>1, <2>2, CoreSet, MailMoves
  <2>4. status' \in [Role -> Status] /\ left' \in [Role -> Nat]
    BY <1>0, <2>1, StatusMoves
  <2> QED BY <2>1, <2>2, <2>3, <2>4, TypesRest DEF RestTyped
<1> QED BY <1>1, <1>2, <1>3, <1>4, <1>5, <1>6

(* A refused broadcast ends the process; an accepted one changes its core.  *)
LEMMA TypeTaken ==
  ASSUME TypeInv, NEW r \in Role, NEW c \in Core, Buffered(c), inbox[r] # <<>>,
         ProtocolError(r) \/ Accept(r, c), UNCHANGED <<outbox, digest, lives, played>>
  PROVE  CoresTyped' /\ MailTyped' /\ RestTyped'
<1>0. CoresTyped /\ "error" \in Status
  BY TypeParts, StatusFacts
<1>1. CASE ProtocolError(r)
  <2>1. MailTyped' /\ CoresTyped'
    BY <1>1, MailMoves, TypesRest DEF ProtocolError
  <2>2. status' \in [Role -> Status] /\ left' \in [Role -> Nat]
    BY <1>0, <1>1, StatusMoves DEF ProtocolError
  <2> QED BY <2>1, <2>2, TypesRest DEF RestTyped
<1>2. CASE Accept(r, c)
  <2>1. MailTyped' /\ CoresTyped'
    BY <1>0, <1>2, MailMoves, CoreSet DEF Accept
  <2> QED BY <1>2, <2>1, TypesRest DEF Accept, RestTyped
<1> QED BY <1>1, <1>2

(* The seven ways to drain a broadcast keep the types. *)
LEMMA TypeDrain ==
  ASSUME TypeInv, NEW r \in Role, Drain(r)
  PROVE  TypeInv'
<1> SUFFICES CoresTyped' /\ MailTyped' /\ RestTyped'
  <2>1. (TypeInv <=> CoresTyped /\ MailTyped /\ RestTyped)'
    BY TypeParts, PTL
  <2> QED BY <2>1
<1>0. /\ core[r] \in Core /\ Buffered(core[r]) /\ CoresTyped
      /\ OnPeerLost(core[r]) \in Core /\ Buffered(OnPeerLost(core[r]))
      /\ "hold" \in Status /\ Hello(r) \in Mail
      /\ digest \in [Role -> SUBSET SUBSET Executed]
  BY TypeParts, StatusFacts, LostTyped, HelloMail DEF CoresTyped, RestTyped
<1>1. inbox[r] # <<>> => Head(inbox[r]) \in Message
  BY InboxFacts DEF Mail
<1>2. CASE DrainCommand(r)
  <2> DEFINE m == Head(inbox[r]).m
             c == OnPeerCommand(core[r], m)
  <2>1. /\ inbox[r] # <<>> /\ Head(inbox[r]).type = "command"
        /\ ProtocolError(r) \/ Accept(r, c)
        /\ UNCHANGED <<outbox, digest, lives, played>>
    BY <1>2 DEF DrainCommand, Heard
  <2>2. m \in Scheduled
    BY <1>1, <2>1, MessageFacts
  <2>3. c \in Core /\ Buffered(c)
    BY <1>0, <2>2, CommandTyped
  <2> HIDE DEF c
  <2> QED BY <2>1, <2>3, TypeTaken
<1>3. CASE DrainCommit(r)
  <2> DEFINE n == Head(inbox[r]).through
             c == OnPeerCommit(core[r], n)
  <2>1. /\ inbox[r] # <<>> /\ Head(inbox[r]).type = "commit"
        /\ ProtocolError(r) \/ Accept(r, c)
        /\ UNCHANGED <<outbox, digest, lives, played>>
    BY <1>3 DEF DrainCommit, Heard
  <2>2. n \in Nat
    BY <1>1, <2>1, MessageFacts
  <2>3. c \in Core /\ Buffered(c)
    BY <1>0, <2>2, CommitFacts DEF Buffered
  <2> HIDE DEF c
  <2> QED BY <2>1, <2>3, TypeTaken
<1>4. CASE DrainDigest(r)
  <2> DEFINE L == Head(inbox[r]).log
  <2>1. /\ inbox[r] # <<>> /\ Head(inbox[r]).type = "digest"
        /\ digest' = [digest EXCEPT ![r] = {L}] /\ Answer(r, <<>>)
        /\ UNCHANGED <<core, status, outbox, lives, left, played>>
    BY <1>4 DEF DrainDigest, Heard
  <2>2. L \in SUBSET Executed
    BY <1>1, <2>1, MessageFacts
  <2> HIDE DEF L
  <2>3. {L} \in SUBSET SUBSET Executed
    BY <2>2
  <2>4. digest' \in [Role -> SUBSET SUBSET Executed]
    BY <1>0, <2>1, <2>3
  <2> QED BY <2>1, <2>4, MailMoves, TypesRest DEF RestTyped
<1>5. CASE DrainHello(r)
  <2>1. inbox[r] # <<>> /\ UNCHANGED <<status, outbox, digest, lives, left, played>>
        /\ (SendResync(r) \/ (Answer(r, <<>>) /\ UNCHANGED core))
    BY <1>5 DEF DrainHello, Heard
  <2>2. CoresTyped' /\ MailTyped'
    BY <2>1, SnapshotSent, MailMoves, TypesRest
  <2> QED BY <2>1, <2>2, TypesRest DEF RestTyped
<1>6. CASE DrainJoined(r)
  <2>1. MailTyped'
    BY <1>0, <1>6, MailMoves DEF DrainJoined, Heard
  <2> QED BY <1>6, <2>1, TypesRest DEF DrainJoined, RestTyped
<1>7. CASE DrainLeft(r)
  <2>1. /\ inbox[r] # <<>> /\ core' = [core EXCEPT ![r] = OnPeerLost(core[r])]
        /\ Become(r, "hold") /\ Answer(r, <<>>)
        /\ UNCHANGED <<outbox, digest, lives, left, played>>
    BY <1>7 DEF DrainLeft, Heard
  <2>2. CoresTyped' /\ MailTyped'
    BY <1>0, <2>1, CoreSet, MailMoves
  <2>3. status' \in [Role -> Status]
    BY <1>0, <2>1, StatusMoves
  <2> QED BY <2>1, <2>2, <2>3, TypesRest DEF RestTyped
<1>8. CASE DrainIgnored(r)
  BY <1>8, MailMoves, TypesRest DEF DrainIgnored, Heard, RestTyped
<1> QED BY <1>2, <1>3, <1>4, <1>5, <1>6, <1>7, <1>8 DEF Drain

(* The hold, and every way to be done with the session. *)
LEMMA TypeEnds ==
  ASSUME TypeInv, NEW r \in Role,
         Hold(r) \/ GiveUp(r) \/ PushDigest(r) \/ AwaitDigest(r) \/ NoDigest(r)
  PROVE  TypeInv'
<1> SUFFICES CoresTyped' /\ MailTyped' /\ RestTyped'
  <2>1. (TypeInv <=> CoresTyped /\ MailTyped /\ RestTyped)'
    BY TypeParts, PTL
  <2> QED BY <2>1
<1>0. /\ core[r] \in Core /\ CoresTyped /\ MailTyped
      /\ digest \in [Role -> SUBSET SUBSET Executed]
      /\ Hello(r) \in Mail /\ [type |-> "digest", log |-> core[r].ran] \in Mail
      /\ {"drain", "pump", "no_peer", "peer_gone", "completed", "digest"} \subseteq Status
  BY TypeParts, StatusFacts, HelloMail, PostedFacts DEF CoresTyped, RestTyped, Core
<1>1. CASE Hold(r)
  <2> DEFINE b == Head(inbox[r])
             s == IF status[r] = "hold" THEN "drain" ELSE "pump"
  <2>1. inbox[r] # <<>> /\ UNCHANGED <<outbox, digest, lives, left, played>>
    BY <1>1 DEF Hold
  <2>2. b \in Message
    BY <2>1, InboxFacts DEF Mail
  <2>3. \/ Answer(r, <<Hello(r)>>) /\ UNCHANGED <<core, status>>
        \/ SendResync(r) /\ Become(r, s)
        \/ Answer(r, <<>>) /\ UNCHANGED <<core, status>>
    <3>1. b.type = "hello" => b.rejoin \in BOOLEAN
      BY <2>2, MessageFacts
    <3>2. CASE b.type = "peer_joined"
      BY <1>1, <3>2 DEF Hold
    <3>3. CASE b.type = "hello" /\ b.rejoin
      BY <1>1, <3>3 DEF Hold
    <3>4. CASE b.type # "peer_joined" /\ ~(b.type = "hello" /\ b.rejoin)
      BY <1>1, <3>4 DEF Hold
    <3> QED BY <3>1, <3>2, <3>3, <3>4
  <2>4. CoresTyped' /\ MailTyped'
    BY <1>0, <2>1, <2>3, SnapshotSent, MailMoves, TypesRest
  <2>5. status' \in [Role -> Status]
    BY <1>0, <2>3, StatusMoves, TypesRest
  <2> QED BY <2>1, <2>4, <2>5, TypesRest DEF RestTyped
<1>2. CASE GiveUp(r)
  <2>1. /\ Exit(r, "no_peer") \/ Exit(r, "peer_gone")
        /\ inbox' = [inbox EXCEPT ![r] = <<>>] /\ UNCHANGED <<core, outbox, digest, lives, played>>
    BY <1>2 DEF GiveUp
  <2>2. status' \in [Role -> Status] /\ left' \in [Role -> Nat]
    BY <1>0, <2>1, StatusMoves
  <2>3. MailTyped'
    BY <2>1, MailMoves
  <2> QED BY <2>1, <2>2, <2>3, TypesRest DEF RestTyped
<1>3. CASE PushDigest(r)
  <2> DEFINE b == [type |-> "digest", log |-> core[r].ran]
  <2>4. b \in Mail
    BY <1>0
  <2>0. UNCHANGED <<core, outbox, digest, lives, played>>
    BY <1>3 DEF PushDigest
  <2>1. CASE digest[r] # {}
    <3>1. Exit(r, "completed")
          /\ inbox' = [inbox EXCEPT ![r] = <<>>, ![Peer(r)] = Posted(r, <<b>>)]
      BY <1>3, <2>1 DEF PushDigest
    <3> HIDE DEF b
    <3>2. Posted(r, <<b>>) \in Seq(Mail) /\ <<>> \in Seq(Mail)
      BY <2>4, InboxFacts
    <3>3. MailTyped'
      BY <1>0, <3>1, <3>2, InboxSet
    <3>4. status' \in [Role -> Status] /\ left' \in [Role -> Nat]
      BY <1>0, <3>1, StatusMoves
    <3> QED BY <2>0, <3>3, <3>4, TypesRest DEF RestTyped
  <2>2. CASE digest[r] = {}
    <3>1. Become(r, "digest") /\ Push(r, <<b>>) /\ UNCHANGED left
      BY <1>3, <2>2 DEF PushDigest
    <3> HIDE DEF b
    <3>2. MailTyped' /\ status' \in [Role -> Status]
      BY <1>0, <2>4, <3>1, MailMoves, StatusMoves
    <3> QED BY <2>0, <3>1, <3>2, TypesRest DEF RestTyped
  <2> QED BY <2>1, <2>2
<1>4. CASE AwaitDigest(r)
  <2>1. inbox[r] # <<>> /\ UNCHANGED <<core, outbox, lives, played>>
    BY <1>4 DEF AwaitDigest
  <2>2. CASE Heard(r, "digest")
    <3> DEFINE L == Head(inbox[r]).log
    <3>1. digest' = [digest EXCEPT ![r] = {L}] /\ Exit(r, "completed")
          /\ inbox' = [inbox EXCEPT ![r] = <<>>]
      BY <1>4, <2>2 DEF AwaitDigest
    <3>2. L \in SUBSET Executed
      BY <2>1, <2>2, InboxFacts, MessageFacts DEF Mail, Heard
    <3> HIDE DEF L
    <3>3. {L} \in SUBSET SUBSET Executed
      BY <3>2
    <3>4. digest' \in [Role -> SUBSET SUBSET Executed]
      BY <1>0, <3>1, <3>3
    <3>5. MailTyped' /\ status' \in [Role -> Status] /\ left' \in [Role -> Nat]
      BY <1>0, <3>1, MailMoves, StatusMoves
    <3> QED BY <2>1, <3>4, <3>5, TypesRest DEF RestTyped
  <2>3. CASE ~Heard(r, "digest")
    <3>1. Answer(r, <<>>) /\ UNCHANGED <<digest, status, left>>
      BY <1>4, <2>3 DEF AwaitDigest
    <3> QED BY <2>1, <3>1, MailMoves, TypesRest DEF RestTyped
  <2> QED BY <2>2, <2>3
<1>5. CASE NoDigest(r)
  <2>1. /\ Exit(r, "completed") /\ inbox' = [inbox EXCEPT ![r] = <<>>]
        /\ UNCHANGED <<core, outbox, digest, lives, played>>
    BY <1>5 DEF NoDigest
  <2>2. status' \in [Role -> Status] /\ left' \in [Role -> Nat]
    BY <1>0, <2>1, StatusMoves
  <2> QED BY <2>1, <2>2, MailMoves, TypesRest DEF RestTyped
<1> QED BY <1>1, <1>2, <1>3, <1>4, <1>5

(* Outside the program. *)
LEMMA TypeOutside ==
  ASSUME SessionAssumption, TypeInv, NEW r \in Role, Die(r) \/ ReportLeft(r)
  PROVE  TypeInv'
<1> SUFFICES CoresTyped' /\ MailTyped' /\ RestTyped'
  <2>1. (TypeInv <=> CoresTyped /\ MailTyped /\ RestTyped)'
    BY TypeParts, PTL
  <2> QED BY <2>1
<1>0. CoresTyped /\ MailTyped /\ RestTyped
  BY TypeParts
<1>1. CASE Die(r)
  <2>1. NewCore \in Core /\ Buffered(NewCore)
    BY FS_EmptySet DEF NewCore, Core, Buffered
  <2>2. CoresTyped' /\ MailTyped'
    BY <1>0, <1>1, <2>1, CoreSet, MailMoves DEF Die
  <2>3. status' \in [Role -> Status] /\ left' \in [Role -> Nat]
    BY <1>1, StatusMoves, StatusFacts DEF Die
  <2>4. outbox' \in [Role -> SUBSET Scheduled] /\ digest' \in [Role -> SUBSET SUBSET Executed]
    BY <1>0, <1>1 DEF Die, RestTyped
  <2>5. lives[r] \in Nat /\ lives[Peer(r)] \in Nat /\ MaxDeaths \in Nat
    BY <1>0, PeerFacts DEF RestTyped, SessionAssumption
  <2>6. lives[r] + 1 \in 0 .. MaxDeaths
    BY <1>1, <2>5 DEF Die
  <2>7. lives' \in [Role -> 0 .. MaxDeaths]
    BY <1>0, <1>1, <2>6 DEF Die, RestTyped
  <2> QED BY <1>1, <2>2, <2>3, <2>4, <2>7, TypesRest DEF Die, RestTyped
<1>2. CASE ReportLeft(r)
  <2>1. MailTyped'
    BY <1>2, MailMoves, PostedFacts, TypesRest DEF ReportLeft
  <2>2. left[r] \in Nat /\ left[r] > 0
    BY <1>0, <1>2 DEF RestTyped, ReportLeft
  <2>3. left[r] - 1 \in Nat
    BY <2>2
  <2>4. left' \in [Role -> Nat]
    BY <1>0, <1>2, <2>3 DEF RestTyped, ReportLeft
  <2> QED BY <1>2, <2>1, <2>4, TypesRest DEF ReportLeft, RestTyped
<1> QED BY <1>1, <1>2

(* Only a pump that sampled ends in a push. *)
LEMMA SampledStep ==
  ASSUME TypeInv, Sampled, [Next]_vars
  PROVE  Sampled'
<1> SUFFICES ASSUME NEW x \in Role, status'[x] = "push"
             PROVE  core'[x].next_sample > 0
  BY DEF Sampled
<1>0. status \in [Role -> Status] /\ core \in [Role -> Core]
  BY DEF TypeInv, TypeOK
<1>1. ASSUME status[x] = "push", core'[x] = core[x]
      PROVE  core'[x].next_sample > 0
  BY <1>1 DEF Sampled
<1>2. CASE UNCHANGED vars
  BY <1>1, <1>2 DEF vars
<1>3. ASSUME NEW r \in Role, Step(r) \/ Die(r) \/ ReportLeft(r)
      PROVE  core'[x].next_sample > 0
  <2>1. CASE PumpOutgoing(r)
    <3>1. PICK answers \in [SampleWindow(r, core[r]) -> Feed] :
            /\ core' = [core EXCEPT ![r] = Pump(r, core[r], answers)]
      BY <2>1 DEF PumpOutgoing
    <3>2. CASE x # r
      BY <1>0, <1>1, <2>1, <3>1, <3>2 DEF PumpOutgoing, Become
    <3>3. CASE x = r
      <4> DEFINE next2 == Lesser(core[r].step + InputDelay[r], MaxSteps - 1) + 1
      <4>1. SampleWindow(r, core[r]) # {}
        BY <1>0, <2>1, <3>3 DEF PumpOutgoing, Become
      <4>2. next2 > 0
        BY <1>0, <4>1, ConfigAssumption DEF SampleWindow, Lesser, Core
      <4>3. core'[x] = [core[r] EXCEPT !.own = Insert(core[r].own, answers), !.next_sample = next2]
        BY <1>0, <3>1, <3>3, <4>1 DEF Pump
      <4> HIDE DEF next2
      <4>4. core'[x].next_sample = next2
        BY <1>0, <4>3 DEF Core
      <4> QED BY <4>2, <4>4
    <3> QED BY <3>2, <3>3
  <2>2. CASE x # r
    <3>1. CASE Join(r) \/ SayHello(r) \/ AtBarrier(r) \/ AwaitResync(r)
      BY <1>0, <1>1, <2>2, <3>1 DEF Join, SayHello, AtBarrier, AwaitResync, Become, Exit
    <3>2. CASE PushCommand(r) \/ PushCommit(r) \/ NextFrame(r) \/ LostBySilence(r) \/ Quit(r)
      BY <1>0, <1>1, <2>2, <3>2 DEF PushCommand, PushCommit, NextFrame, LostBySilence, Quit, Become, Exit
    <3>3. CASE Drain(r)
      <4>1. CASE DrainCommand(r) \/ DrainCommit(r)
        BY <1>0, <1>1, <2>2, <4>1 DEF DrainCommand, DrainCommit, ProtocolError, Accept, Become, Exit
      <4>2. CASE DrainDigest(r) \/ DrainHello(r) \/ DrainJoined(r) \/ DrainLeft(r) \/ DrainIgnored(r)
        BY <1>0, <1>1, <2>2, <4>2
           DEF DrainDigest, DrainHello, DrainJoined, DrainLeft, DrainIgnored, SendResync, Become
      <4> QED BY <3>3, <4>1, <4>2 DEF Drain
    <3>4. CASE Hold(r)
      <4>1. /\ core'[x] = core[x]
            /\ status'[x] = status[x]
        BY <1>0, <2>2, <3>4 DEF Hold, SendResync, Become
      <4> QED BY <1>1, <4>1
    <3>5. CASE GiveUp(r) \/ PushDigest(r) \/ AwaitDigest(r) \/ NoDigest(r)
      BY <1>0, <1>1, <2>2, <3>5 DEF GiveUp, PushDigest, AwaitDigest, NoDigest, Become, Exit
    <3>6. CASE Die(r) \/ ReportLeft(r)
      BY <1>0, <1>1, <2>2, <3>6 DEF Die, ReportLeft, Become, Exit
    <3> QED BY <1>3, <2>1, <3>1, <3>2, <3>3, <3>4, <3>5, <3>6 DEF Step
  <2>3. CASE x = r /\ (PushCommand(r) \/ ReportLeft(r))
    BY <1>0, <1>1, <2>3 DEF PushCommand, ReportLeft
  <2>4. CASE x = r /\ ~(PushCommand(r) \/ ReportLeft(r) \/ PumpOutgoing(r))
    <3>1. CASE Join(r) \/ SayHello(r) \/ AtBarrier(r) \/ AwaitResync(r)
      BY <1>0, <2>4, <3>1 DEF Join, SayHello, AtBarrier, AwaitResync, Become, Exit, Loop
    <3>2. CASE PushCommit(r) \/ NextFrame(r) \/ LostBySilence(r) \/ Quit(r)
      BY <1>0, <2>4, <3>2 DEF PushCommit, NextFrame, LostBySilence, Quit, Become, Exit, Loop
    <3>3. CASE Drain(r)
      <4>1. CASE DrainCommand(r) \/ DrainCommit(r)
        BY <1>0, <2>4, <4>1 DEF DrainCommand, DrainCommit, ProtocolError, Accept, Become, Exit
      <4>2. CASE DrainDigest(r) \/ DrainHello(r) \/ DrainJoined(r) \/ DrainLeft(r) \/ DrainIgnored(r)
        BY <1>0, <2>4, <4>2
           DEF DrainDigest, DrainHello, DrainJoined, DrainLeft, DrainIgnored, Become
      <4> QED BY <3>3, <4>1, <4>2 DEF Drain
    <3>4. CASE Hold(r)
      BY <1>0, <2>4, <3>4 DEF Hold, Become, Holding
    <3>5. CASE GiveUp(r) \/ PushDigest(r) \/ AwaitDigest(r) \/ NoDigest(r)
      BY <1>0, <2>4, <3>5 DEF GiveUp, PushDigest, AwaitDigest, NoDigest, Become, Exit
    <3>6. CASE Die(r)
      BY <1>0, <2>4, <3>6 DEF Die, Become, Exit
    <3> QED BY <1>3, <2>4, <3>1, <3>2, <3>3, <3>4, <3>5, <3>6 DEF Step
  <2> QED BY <2>1, <2>2, <2>3, <2>4
<1> QED BY <1>2, <1>3 DEF Next, Over, vars

(* Every step keeps the types: no handler and no timeout leaves the state space. *)
LEMMA TypeStep ==
  ASSUME SessionAssumption, TypeInv, Sampled, [Next]_vars
  PROVE  TypeInv'
<1>1. CASE UNCHANGED vars
  <2>1. CoresTyped' /\ MailTyped' /\ RestTyped'
    BY <1>1, TypesRest DEF vars, RestTyped
  <2>2. (TypeInv <=> CoresTyped /\ MailTyped /\ RestTyped)'
    BY TypeParts, PTL
  <2> QED BY <2>1, <2>2
<1>2. ASSUME NEW r \in Role, Step(r) PROVE TypeInv'
  BY <1>2, TypeBringUp, TypeFrame, TypeDrain, TypeEnds DEF Step
<1>3. ASSUME NEW r \in Role, Die(r) \/ ReportLeft(r) PROVE TypeInv'
  BY <1>3, TypeOutside
<1> QED BY <1>1, <1>2, <1>3 DEF Next, Over

(* Types hold in every reachable state, whatever dies and whatever times out. *)
THEOREM TypeInvariant == Spec => [](TypeInv /\ Sampled)
<1>1. Init => TypeInv /\ Sampled
  BY TypeInit, SessionAssumption DEF Init, Sampled
<1>2. TypeInv /\ Sampled /\ [Next]_vars => (TypeInv /\ Sampled)'
  BY TypeStep, SampledStep, SessionAssumption
<1> QED BY <1>1, <1>2, PTL DEF Spec

(* Type correctness, for any number of deaths and any timeouts: cores, inboxes, *)
(* snapshots and digests keep their shapes through every hand-off.              *)
THEOREM TypeCorrect == Spec => []TypeOK
<1>1. TypeInv => TypeOK
  BY DEF TypeInv
<1> QED BY <1>1, TypeInvariant, PTL

-------------------------------------------------------------------------------
(* The steps, as what they do to a seat, to its inbox and to the peer's. *)

Kind(b) == IF b.type = "hello" /\ b.rejoin THEN "rejoin" ELSE b.type

(* Seat r's core, status, outbox, digest and inbox, and the inbox of its peer. *)
Does(r, c, s, o, d, w, v) ==
  LET q == Peer(r) IN
  /\ core'[r] = c /\ core'[q] = core[q]
  /\ status'[r] = s /\ status'[q] = status[q]
  /\ outbox'[r] = o /\ outbox'[q] = outbox[q]
  /\ digest'[r] = d /\ digest'[q] = digest[q]
  /\ inbox'[r] = w /\ inbox'[q] = v

(* A step that leaves the core, what is to push, and the digest alone. *)
Moves(r, s, w, v) == Does(r, core[r], s, outbox[r], digest[r], w, v)

Sent(r, b) ==
  IF status[Peer(r)] \in Joined THEN Append(inbox[Peer(r)], b) ELSE inbox[Peer(r)]

Kept == UNCHANGED <<lives, left, played>>
Gone(r) == lives' = lives /\ left'[r] = left[r] + 1 /\ left'[Peer(r)] = left[Peer(r)]
Next1(r, K) == inbox[r] # <<>> /\ Kind(Head(inbox[r])) \in K
Rest(r) == Tail(inbox[r])

Joins(r) ==
  /\ status[r] = "offline" /\ (LateNotice \/ left[r] = 0)
  /\ Moves(r, "joining", inbox[r], Sent(r, [type |-> "peer_joined"])) /\ Kept
Speaks(r) ==
  /\ status[r] = "joining"
  /\ Moves(r, IF lives[r] > 0 THEN "resync" ELSE "barrier", inbox[r], Sent(r, Hello(r))) /\ Kept
Greets(r) ==
  /\ status[r] \in {"barrier", "drain"} \cup Holding /\ Next1(r, {"peer_joined"})
  /\ Moves(r, status[r], Rest(r), Sent(r, Hello(r))) /\ Kept
FindsNoRun(r) ==
  /\ status[r] = "barrier" /\ Next1(r, {"rejoin"})
  /\ Moves(r, "no_run", <<>>, inbox[Peer(r)]) /\ Gone(r) /\ played' = played
Starts(r) ==
  /\ status[r] = "barrier" /\ Next1(r, {"hello"})
  /\ Moves(r, Loop(core[r]), Rest(r), inbox[Peer(r)]) /\ Kept
Drops(r) ==
  /\ inbox[r] # <<>>
  /\ LET K == Kind(Head(inbox[r])) IN
       \/ status[r] = "barrier" /\ K \notin {"peer_joined", "hello", "rejoin"}
       \/ status[r] = "resync" /\ K # "resync"
       \/ status[r] = "drain" /\ K \in {"hello", "resync"}
       \/ status[r] \in Holding /\ K \notin {"peer_joined", "rejoin"}
       \/ status[r] = "digest" /\ K # "digest"
  /\ Moves(r, status[r], Rest(r), inbox[Peer(r)]) /\ Kept
Resumes(r) ==
  LET c == AdoptResync(Head(inbox[r]).state) IN
  /\ status[r] = "resync" /\ Next1(r, {"resync"})
  /\ Does(r, c, Loop(c), outbox[r], digest[r], Rest(r), inbox[Peer(r)]) /\ Kept
Pumps(r) ==
  /\ status[r] = "pump"
  /\ \E answers \in [SampleWindow(r, core[r]) -> Feed] :
       Does(r, Pump(r, core[r], answers), IF SampleWindow(r, core[r]) = {} THEN "drain" ELSE "push",
            Schedule(answers), digest[r], inbox[r], inbox[Peer(r)])
  /\ Kept
PushesCommand(r) ==
  /\ status[r] = "push"
  /\ \E m \in outbox[r] :
       /\ \A x \in outbox[r] : m.at < x.at \/ (m.at = x.at /\ m.n <= x.n)
       /\ Does(r, core[r], "push", outbox[r] \ {m}, digest[r], inbox[r],
               Sent(r, [type |-> "command", m |-> m]))
  /\ Kept
PushesCommit(r) ==
  /\ status[r] = "push" /\ outbox[r] = {}
  /\ Moves(r, "drain", inbox[r], Sent(r, [type |-> "commit", through |-> core[r].next_sample - 1]))
  /\ Kept
TakesCommand(r) ==
  LET m == Head(inbox[r]).m IN
  /\ status[r] = "drain" /\ Next1(r, {"command"}) /\ ~CommandRefused(core[r], m)
  /\ Does(r, OnPeerCommand(core[r], m), "drain", outbox[r], digest[r], Rest(r), inbox[Peer(r)])
  /\ Kept
TakesCommit(r) ==
  LET through == Head(inbox[r]).through IN
  /\ status[r] = "drain" /\ Next1(r, {"commit"}) /\ ~CommitRefused(through)
  /\ Does(r, OnPeerCommit(core[r], through), "drain", outbox[r], digest[r], Rest(r), inbox[Peer(r)])
  /\ Kept
Fails(r) ==
  /\ status[r] = "drain"
  /\ \/ Next1(r, {"command"}) /\ CommandRefused(core[r], Head(inbox[r]).m)
     \/ Next1(r, {"commit"}) /\ CommitRefused(Head(inbox[r]).through)
  /\ Moves(r, "error", <<>>, inbox[Peer(r)]) /\ Gone(r) /\ played' = played
TakesDigest(r) ==
  /\ status[r] = "drain" /\ Next1(r, {"digest"})
  /\ Does(r, core[r], "drain", outbox[r], {Head(inbox[r]).log}, Rest(r), inbox[Peer(r)]) /\ Kept
HandsOver(r) ==
  LET c == OnPeerLost(core[r]) IN
  /\ status[r] \in {"drain"} \cup Holding /\ Next1(r, {"rejoin"})
  /\ Does(r, c, IF status[r] = "silent" THEN "pump" ELSE "drain", outbox[r], digest[r], Rest(r),
          Sent(r, [type |-> "resync", state |-> MakeResync(c)]))
  /\ Kept
Holds(r) ==
  /\ status[r] = "drain" /\ Next1(r, {"peer_left"})
  /\ Does(r, OnPeerLost(core[r]), "hold", outbox[r], digest[r], Rest(r), inbox[Peer(r)]) /\ Kept
EndsFrame(r) ==
  LET c == Advance(r, core[r]) IN
  /\ status[r] = "drain"
  /\ Does(r, c, Loop(c), outbox[r], digest[r], inbox[r], inbox[Peer(r)])
  /\ lives' = lives /\ left' = left /\ played' = played \cup c.ran
FallsSilent(r) ==
  LET c == Advance(r, core[r]) IN
  /\ status[r] = "drain" /\ BlockedOnPeer(c) /\ Expires(r, "grace")
  /\ Does(r, OnPeerLost(c), "silent", outbox[r], digest[r], inbox[r], inbox[Peer(r)])
  /\ lives' = lives /\ left' = left /\ played' = played \cup c.ran
Quits(r) ==
  LET c == Advance(r, core[r]) IN
  /\ status[r] = "drain"
  /\ Does(r, c, "quit", outbox[r], digest[r], <<>>, inbox[Peer(r)])
  /\ Gone(r) /\ played' = played \cup c.ran
Abandons(r) ==
  /\ \/ status[r] \in {"barrier", "resync"} /\ status'[r] = "no_peer"
     \/ status[r] \in Holding /\ status'[r] = "peer_gone"
  /\ Moves(r, status'[r], <<>>, inbox[Peer(r)]) /\ Gone(r) /\ played' = played
TellsDigest(r) ==
  LET v == Sent(r, [type |-> "digest", log |-> core[r].ran]) IN
  /\ status[r] = "closing" /\ played' = played
  /\ \/ digest[r] # {} /\ Moves(r, "completed", <<>>, v) /\ Gone(r)
     \/ digest[r] = {} /\ Moves(r, "digest", inbox[r], v) /\ lives' = lives /\ left' = left
Completes(r) ==
  /\ status[r] = "digest"
  /\ \E d \in SUBSET SUBSET Executed :
       /\ d = digest[r] \/ (Next1(r, {"digest"}) /\ d = {Head(inbox[r]).log})
       /\ Does(r, core[r], "completed", outbox[r], d, <<>>, inbox[Peer(r)])
  /\ Gone(r) /\ played' = played
Dies(r) ==
  /\ status[r] \in Joined /\ lives[r] + lives[Peer(r)] < MaxDeaths
  /\ Does(r, NewCore, "offline", {}, {}, <<>>, inbox[Peer(r)])
  /\ lives'[r] = lives[r] + 1 /\ lives'[Peer(r)] = lives[Peer(r)]
  /\ left'[r] = left[r] + 1 /\ left'[Peer(r)] = left[Peer(r)] /\ played' = played
Reports(r) ==
  /\ left[r] > 0
  /\ \/ Moves(r, status[r], inbox[r], Sent(r, [type |-> "peer_left"]))
     \/ Moves(r, status[r], inbox[r], inbox[Peer(r)])
  /\ lives' = lives /\ played' = played
  /\ left'[r] = left[r] - 1 /\ left'[Peer(r)] = left[Peer(r)]

(* The pieces of an action, seat by seat. *)
LEMMA Points ==
  ASSUME TypeInv, NEW r \in Role
  PROVE  /\ \A c : core' = [core EXCEPT ![r] = c] => core'[r] = c /\ core'[Peer(r)] = core[Peer(r)]
         /\ \A s : Become(r, s) => status'[r] = s /\ status'[Peer(r)] = status[Peer(r)]
         /\ \A o : outbox' = [outbox EXCEPT ![r] = o] =>
              outbox'[r] = o /\ outbox'[Peer(r)] = outbox[Peer(r)]
         /\ \A d : digest' = [digest EXCEPT ![r] = d] =>
              digest'[r] = d /\ digest'[Peer(r)] = digest[Peer(r)]
         /\ \A s : Exit(r, s) =>
              /\ status'[r] = s /\ status'[Peer(r)] = status[Peer(r)]
              /\ left'[r] = left[r] + 1 /\ left'[Peer(r)] = left[Peer(r)]
<1>1. Peer(r) \in Role /\ Peer(r) # r
  BY PeerFacts
<1>2. /\ core \in [Role -> Core] /\ status \in [Role -> Status] /\ outbox \in [Role -> SUBSET Scheduled]
      /\ digest \in [Role -> SUBSET SUBSET Executed] /\ left \in [Role -> Nat]
  BY DEF TypeInv, TypeOK
<1> QED BY <1>1, <1>2 DEF Become, Exit

(* Posted, Push and Answer, inbox by inbox. *)
LEMMA MailPoints ==
  ASSUME TypeInv, NEW r \in Role
  PROVE  /\ \A b : Posted(r, <<b>>) = Sent(r, b)
         /\ Posted(r, <<>>) = inbox[Peer(r)]
         /\ \A b : Push(r, <<b>>) => inbox'[r] = inbox[r] /\ inbox'[Peer(r)] = Sent(r, b)
         /\ \A b : Answer(r, <<b>>) => inbox'[r] = Rest(r) /\ inbox'[Peer(r)] = Sent(r, b)
         /\ Answer(r, <<>>) => inbox'[r] = Rest(r) /\ inbox'[Peer(r)] = inbox[Peer(r)]
         /\ inbox' = [inbox EXCEPT ![r] = <<>>] => inbox'[r] = <<>> /\ inbox'[Peer(r)] = inbox[Peer(r)]
         /\ \A w, v : inbox' = [inbox EXCEPT ![r] = w, ![Peer(r)] = v] =>
              inbox'[r] = w /\ inbox'[Peer(r)] = v
<1>1. Peer(r) \in Role /\ Peer(r) # r
  BY PeerFacts
<1>2. inbox \in [Role -> Seq(Message)]
  BY DEF TypeInv, TypeOK
<1>3. inbox[Peer(r)] \in Seq(Message)
  BY <1>1, <1>2
<1>4. \A b : inbox[Peer(r)] \o <<b>> = Append(inbox[Peer(r)], b)
  BY <1>3
<1>5. inbox[Peer(r)] \o <<>> = inbox[Peer(r)]
  BY <1>3
<1>6. \A b : Posted(r, <<b>>) = Sent(r, b)
  BY <1>4 DEF Posted, Sent
<1>7. Posted(r, <<>>) = inbox[Peer(r)]
  BY <1>5 DEF Posted
<1>8. inbox' = [inbox EXCEPT ![r] = <<>>] => inbox'[r] = <<>> /\ inbox'[Peer(r)] = inbox[Peer(r)]
  BY <1>1, <1>2
<1>9. \A w, v : inbox' = [inbox EXCEPT ![r] = w, ![Peer(r)] = v] =>
        inbox'[r] = w /\ inbox'[Peer(r)] = v
  BY <1>1, <1>2
<1>10. \A b : Push(r, <<b>>) => inbox'[r] = inbox[r] /\ inbox'[Peer(r)] = Sent(r, b)
  BY <1>1, <1>2, <1>6 DEF Push
<1>11. \A b : Answer(r, <<b>>) => inbox'[r] = Rest(r) /\ inbox'[Peer(r)] = Sent(r, b)
  BY <1>1, <1>2, <1>6 DEF Answer, Rest
<1>12. Answer(r, <<>>) => inbox'[r] = Rest(r) /\ inbox'[Peer(r)] = inbox[Peer(r)]
  BY <1>1, <1>2, <1>7 DEF Answer, Rest
<1> QED BY <1>6, <1>7, <1>8, <1>9, <1>10, <1>11, <1>12

(* A seat leaves, and its inbox with it. *)
LEMMA Leaves ==
  ASSUME TypeInv, NEW r \in Role, NEW s, Exit(r, s), inbox' = [inbox EXCEPT ![r] = <<>>]
  PROVE  /\ status'[r] = s /\ status'[Peer(r)] = status[Peer(r)]
         /\ left'[r] = left[r] + 1 /\ left'[Peer(r)] = left[Peer(r)]
         /\ inbox'[r] = <<>> /\ inbox'[Peer(r)] = inbox[Peer(r)]
<1>1. inbox'[r] = <<>> /\ inbox'[Peer(r)] = inbox[Peer(r)]
  BY MailPoints
<1>2. /\ status'[r] = s /\ status'[Peer(r)] = status[Peer(r)]
      /\ left'[r] = left[r] + 1 /\ left'[Peer(r)] = left[Peer(r)]
  BY Points
<1> QED BY <1>1, <1>2

(* The kind of a broadcast, by its type. *)
LEMMA KindFacts ==
  ASSUME NEW b \in Message
  PROVE  /\ b.type # "hello" => Kind(b) = b.type
         /\ b.type = "hello" /\ b.rejoin => Kind(b) = "rejoin"
         /\ b.type = "hello" /\ ~b.rejoin => Kind(b) = "hello"
         /\ Kind(b) \in {"command", "commit", "hello", "rejoin", "resync", "digest", "peer_joined", "peer_left"}
         /\ Kind(b) = "rejoin" => b.type = "hello"
         /\ Kind(b) # "rejoin" => b.type = Kind(b)
<1>1. b.type = "hello" => b.rejoin \in BOOLEAN
  BY MessageFacts
<1>2. b.type \in {"command", "commit", "hello", "resync", "digest", "peer_joined", "peer_left"}
  BY MessageFacts
<1> QED BY <1>1, <1>2 DEF Kind

(* Join, hello, the barrier and the wait for a snapshot, as moves. *)
LEMMA MovesBringUp ==
  ASSUME TypeInv, NEW r \in Role
  PROVE  /\ Join(r) => Joins(r)
         /\ SayHello(r) => Speaks(r)
         /\ AtBarrier(r) => Greets(r) \/ FindsNoRun(r) \/ Starts(r) \/ Drops(r)
         /\ AwaitResync(r) => Resumes(r) \/ Drops(r)
<1>0. inbox[r] # <<>> => Head(inbox[r]) \in Message
  BY InboxFacts DEF Mail
<1>1. Join(r) => Joins(r)
  BY Points, MailPoints DEF Join, Joins, Moves, Does, Kept
<1>2. SayHello(r) => Speaks(r)
  BY Points, MailPoints DEF SayHello, Speaks, Moves, Does, Kept
<1>3. ASSUME AtBarrier(r) PROVE Greets(r) \/ FindsNoRun(r) \/ Starts(r) \/ Drops(r)
  <2> DEFINE b == Head(inbox[r])
  <2>1. inbox[r] # <<>> /\ status[r] = "barrier" /\ UNCHANGED <<core, outbox, digest, lives, played>>
    BY <1>3 DEF AtBarrier
  <2>2. b \in Message
    BY <1>0, <2>1
  <2>3. CASE b.type = "peer_joined"
    <3>1. Answer(r, <<Hello(r)>>) /\ UNCHANGED <<status, left>>
      BY <1>3, <2>3 DEF AtBarrier
    <3>2. Next1(r, {"peer_joined"})
      BY <2>1, <2>2, <2>3, KindFacts DEF Next1
    <3> QED BY <2>1, <3>1, <3>2, MailPoints DEF Greets, Moves, Does, Kept
  <2>4. CASE b.type = "hello" /\ b.rejoin
    <3>1. Exit(r, "no_run") /\ inbox' = [inbox EXCEPT ![r] = <<>>]
      BY <1>3, <2>4 DEF AtBarrier
    <3>2. Next1(r, {"rejoin"})
      BY <2>1, <2>2, <2>4, KindFacts DEF Next1
    <3> QED BY <2>1, <3>1, <3>2, Points, MailPoints DEF FindsNoRun, Moves, Does, Gone
  <2>5. CASE b.type = "hello" /\ ~b.rejoin
    <3>1. Answer(r, <<>>) /\ Become(r, Loop(core[r])) /\ UNCHANGED left
      BY <1>3, <2>5 DEF AtBarrier
    <3>2. Next1(r, {"hello"})
      BY <2>1, <2>2, <2>5, KindFacts DEF Next1
    <3> QED BY <2>1, <3>1, <3>2, Points, MailPoints DEF Starts, Moves, Does, Kept
  <2>6. CASE b.type # "peer_joined" /\ b.type # "hello"
    <3>1. Answer(r, <<>>) /\ UNCHANGED <<status, left>>
      BY <1>3, <2>6 DEF AtBarrier
    <3>2. Kind(Head(inbox[r])) \notin {"peer_joined", "hello", "rejoin"}
      BY <2>2, <2>6, KindFacts
    <3> QED BY <2>1, <3>1, <3>2, MailPoints DEF Drops, Moves, Does, Kept
  <2>7. b.type = "hello" => b.rejoin \in BOOLEAN
    BY <2>2, MessageFacts
  <2> QED BY <2>3, <2>4, <2>5, <2>6, <2>7
<1>4. ASSUME AwaitResync(r) PROVE Resumes(r) \/ Drops(r)
  <2>1. inbox[r] # <<>> /\ status[r] = "resync" /\ Answer(r, <<>>)
        /\ UNCHANGED <<outbox, digest, lives, left, played>>
    BY <1>4 DEF AwaitResync
  <2>2. Head(inbox[r]) \in Message
    BY <1>0, <2>1
  <2>3. CASE Heard(r, "resync")
    <3> DEFINE c == AdoptResync(Head(inbox[r]).state)
    <3>1. core' = [core EXCEPT ![r] = c] /\ Become(r, Loop(core'[r]))
      BY <1>4, <2>3 DEF AwaitResync
    <3>2. Next1(r, {"resync"})
      BY <2>1, <2>2, <2>3, KindFacts DEF Next1, Heard
    <3> HIDE DEF c
    <3>3. core'[r] = c /\ core'[Peer(r)] = core[Peer(r)]
      BY <3>1, Points
    <3>4. status'[r] = Loop(c) /\ status'[Peer(r)] = status[Peer(r)]
      BY <3>1, <3>3, Points
    <3> QED BY <2>1, <3>2, <3>3, <3>4, MailPoints DEF Resumes, Does, Kept, c
  <2>4. CASE ~Heard(r, "resync")
    <3>1. UNCHANGED <<core, status>>
      BY <1>4, <2>4 DEF AwaitResync
    <3>2. Kind(Head(inbox[r])) # "resync"
      BY <2>1, <2>2, <2>4, KindFacts DEF Heard
    <3> QED BY <2>1, <3>1, <3>2, MailPoints DEF Drops, Moves, Does, Kept
  <2> QED BY <2>3, <2>4
<1> QED BY <1>1, <1>2, <1>3, <1>4

(* The frame loop's pump and pushes, as moves. *)
LEMMA MovesFrame ==
  ASSUME TypeInv, NEW r \in Role
  PROVE  /\ PumpOutgoing(r) => Pumps(r)
         /\ PushCommand(r) => PushesCommand(r)
         /\ PushCommit(r) => PushesCommit(r)
         /\ NextFrame(r) => EndsFrame(r)
         /\ LostBySilence(r) => FallsSilent(r)
         /\ Quit(r) => Quits(r)
<1>1. ASSUME PumpOutgoing(r) PROVE Pumps(r)
  <2>1. PICK answers \in [SampleWindow(r, core[r]) -> Feed] :
          /\ core' = [core EXCEPT ![r] = Pump(r, core[r], answers)]
          /\ outbox' = [outbox EXCEPT ![r] = Schedule(answers)]
    BY <1>1 DEF PumpOutgoing
  <2>2. status[r] = "pump" /\ UNCHANGED <<inbox, digest, lives, left, played>>
        /\ Become(r, IF SampleWindow(r, core[r]) = {} THEN "drain" ELSE "push")
    BY <1>1 DEF PumpOutgoing
  <2>3. Does(r, Pump(r, core[r], answers), IF SampleWindow(r, core[r]) = {} THEN "drain" ELSE "push",
             Schedule(answers), digest[r], inbox[r], inbox[Peer(r)])
    BY <2>1, <2>2, Points DEF Does
  <2> QED BY <2>2, <2>3 DEF Pumps, Kept
<1>2. ASSUME PushCommand(r) PROVE PushesCommand(r)
  <2>1. PICK m \in outbox[r] :
       /\ \A x \in outbox[r] : m.at < x.at \/ (m.at = x.at /\ m.n <= x.n)
       /\ outbox' = [outbox EXCEPT ![r] = outbox[r] \ {m}]
       /\ Push(r, <<[type |-> "command", m |-> m]>>)
    BY <1>2 DEF PushCommand
  <2>2. status[r] = "push" /\ UNCHANGED <<core, status, digest, lives, left, played>>
    BY <1>2 DEF PushCommand
  <2>3. Does(r, core[r], "push", outbox[r] \ {m}, digest[r], inbox[r],
             Sent(r, [type |-> "command", m |-> m]))
    BY <2>1, <2>2, Points, MailPoints DEF Does
  <2> QED BY <2>1, <2>2, <2>3 DEF PushesCommand, Kept
<1>3. ASSUME PushCommit(r) PROVE PushesCommit(r)
  BY <1>3, Points, MailPoints DEF PushCommit, PushesCommit, Moves, Does, Kept
<1>4. ASSUME NextFrame(r) PROVE EndsFrame(r)
  BY <1>4, Points DEF NextFrame, AdvanceReady, EndsFrame, Does
<1>5. ASSUME LostBySilence(r) PROVE FallsSilent(r)
  BY <1>5, Points DEF LostBySilence, AdvanceReady, FallsSilent, Does
<1>6. ASSUME Quit(r) PROVE Quits(r)
  <2> DEFINE c == Advance(r, core[r])
  <2>1. /\ status[r] = "drain" /\ core' = [core EXCEPT ![r] = c] /\ Exit(r, "quit")
        /\ inbox' = [inbox EXCEPT ![r] = <<>>] /\ UNCHANGED <<outbox, digest, lives>>
        /\ played' = played \cup c.ran
    BY <1>6 DEF Quit, AdvanceReady
  <2> HIDE DEF c
  <2>2. Does(r, c, "quit", outbox[r], digest[r], <<>>, inbox[Peer(r)])
    BY <2>1, Points, Leaves DEF Does
  <2>3. left'[r] = left[r] + 1 /\ left'[Peer(r)] = left[Peer(r)]
    BY <2>1, Leaves
  <2> QED BY <2>1, <2>2, <2>3 DEF Quits, Gone, c
<1> QED BY <1>1, <1>2, <1>3, <1>4, <1>5, <1>6

(* The drain's handlers, as moves. *)
LEMMA MovesDrain ==
  ASSUME TypeInv, NEW r \in Role, Drain(r)
  PROVE  \/ TakesCommand(r) \/ TakesCommit(r) \/ Fails(r) \/ TakesDigest(r) \/ HandsOver(r)
         \/ Holds(r) \/ Greets(r) \/ Drops(r)
<1> DEFINE b == Head(inbox[r])
<1>0. status[r] = "drain" /\ inbox[r] # <<>>
  BY DEF Drain, DrainCommand, DrainCommit, DrainDigest, DrainHello, DrainJoined, DrainLeft,
         DrainIgnored, Heard
<1>a. b \in Message
  BY <1>0, InboxFacts DEF Mail
<1>1. CASE DrainCommand(r)
  <2>1. b.type = "command" /\ UNCHANGED <<outbox, digest, lives, played>>
    BY <1>1 DEF DrainCommand, Heard
  <2>2. Next1(r, {"command"})
    BY <1>0, <1>a, <2>1, KindFacts DEF Next1
  <2>3. CASE CommandRefused(core[r], b.m)
    <3>1. Exit(r, "error") /\ inbox' = [inbox EXCEPT ![r] = <<>>] /\ UNCHANGED core
      BY <1>1, <2>3 DEF DrainCommand, ProtocolError
    <3>2. Moves(r, "error", <<>>, inbox[Peer(r)]) /\ Gone(r)
      BY <2>1, <3>1, Leaves DEF Moves, Does, Gone
    <3> QED BY <1>0, <2>1, <2>2, <2>3, <3>2 DEF Fails
  <2>4. CASE ~CommandRefused(core[r], b.m)
    <3> DEFINE c == OnPeerCommand(core[r], b.m)
    <3>1. core' = [core EXCEPT ![r] = c] /\ Answer(r, <<>>) /\ UNCHANGED <<status, left>>
      BY <1>1, <2>4 DEF DrainCommand, Accept
    <3> HIDE DEF c
    <3>2. Does(r, c, "drain", outbox[r], digest[r], Rest(r), inbox[Peer(r)]) /\ Kept
      BY <1>0, <2>1, <3>1, Points, MailPoints DEF Does, Kept
    <3> QED BY <1>0, <2>2, <2>4, <3>2 DEF TakesCommand, c
  <2> QED BY <2>3, <2>4
<1>2. CASE DrainCommit(r)
  <2>1. b.type = "commit" /\ UNCHANGED <<outbox, digest, lives, played>>
    BY <1>2 DEF DrainCommit, Heard
  <2>2. Next1(r, {"commit"})
    BY <1>0, <1>a, <2>1, KindFacts DEF Next1
  <2>3. CASE CommitRefused(b.through)
    <3>1. Exit(r, "error") /\ inbox' = [inbox EXCEPT ![r] = <<>>] /\ UNCHANGED core
      BY <1>2, <2>3 DEF DrainCommit, ProtocolError
    <3>2. Moves(r, "error", <<>>, inbox[Peer(r)]) /\ Gone(r)
      BY <2>1, <3>1, Leaves DEF Moves, Does, Gone
    <3> QED BY <1>0, <2>1, <2>2, <2>3, <3>2 DEF Fails
  <2>4. CASE ~CommitRefused(b.through)
    <3> DEFINE c == OnPeerCommit(core[r], b.through)
    <3>1. core' = [core EXCEPT ![r] = c] /\ Answer(r, <<>>) /\ UNCHANGED <<status, left>>
      BY <1>2, <2>4 DEF DrainCommit, Accept
    <3> HIDE DEF c
    <3>2. Does(r, c, "drain", outbox[r], digest[r], Rest(r), inbox[Peer(r)]) /\ Kept
      BY <1>0, <2>1, <3>1, Points, MailPoints DEF Does, Kept
    <3> QED BY <1>0, <2>2, <2>4, <3>2 DEF TakesCommit, c
  <2> QED BY <2>3, <2>4
<1>3. CASE DrainDigest(r)
  <2> DEFINE d == {b.log}
  <2>1. b.type = "digest" /\ digest' = [digest EXCEPT ![r] = d] /\ Answer(r, <<>>)
        /\ UNCHANGED <<core, status, outbox, lives, left, played>>
    BY <1>3 DEF DrainDigest, Heard
  <2>2. Next1(r, {"digest"})
    BY <1>0, <1>a, <2>1, KindFacts DEF Next1
  <2> HIDE DEF d
  <2>3. Does(r, core[r], "drain", outbox[r], d, Rest(r), inbox[Peer(r)]) /\ Kept
    BY <1>0, <2>1, Points, MailPoints DEF Does, Kept
  <2> QED BY <1>0, <2>2, <2>3 DEF TakesDigest, d
<1>4. CASE DrainHello(r)
  <2>1. b.type = "hello" /\ UNCHANGED <<status, outbox, digest, lives, left, played>>
    BY <1>4 DEF DrainHello, Heard
  <2>2. CASE b.rejoin
    <3> DEFINE c == OnPeerLost(core[r])
    <3>1. core' = [core EXCEPT ![r] = c] /\ Answer(r, <<[type |-> "resync", state |-> MakeResync(c)]>>)
      BY <1>4, <2>2 DEF DrainHello, SendResync
    <3>2. Next1(r, {"rejoin"})
      BY <1>0, <1>a, <2>1, <2>2, KindFacts DEF Next1
    <3> HIDE DEF c
    <3>3. Does(r, c, IF status[r] = "silent" THEN "pump" ELSE "drain", outbox[r], digest[r], Rest(r),
               Sent(r, [type |-> "resync", state |-> MakeResync(c)])) /\ Kept
      BY <1>0, <2>1, <3>1, Points, MailPoints DEF Does, Kept
    <3> QED BY <1>0, <3>2, <3>3 DEF HandsOver, c
  <2>3. CASE ~b.rejoin
    <3>1. Answer(r, <<>>) /\ UNCHANGED core
      BY <1>4, <2>3 DEF DrainHello
    <3>2. Kind(Head(inbox[r])) \in {"hello", "resync"}
      BY <1>a, <2>1, <2>3, KindFacts
    <3> QED BY <1>0, <2>1, <3>1, <3>2, MailPoints DEF Drops, Moves, Does, Kept
  <2>4. b.rejoin \in BOOLEAN
    BY <1>a, <2>1, MessageFacts
  <2> QED BY <2>2, <2>3, <2>4
<1>5. CASE DrainJoined(r)
  <2>1. b.type = "peer_joined" /\ Answer(r, <<Hello(r)>>)
        /\ UNCHANGED <<core, status, outbox, digest, lives, left, played>>
    BY <1>5 DEF DrainJoined, Heard
  <2>2. Next1(r, {"peer_joined"})
    BY <1>0, <1>a, <2>1, KindFacts DEF Next1
  <2> QED BY <1>0, <2>1, <2>2, MailPoints DEF Greets, Moves, Does, Kept
<1>6. CASE DrainLeft(r)
  <2> DEFINE c == OnPeerLost(core[r])
  <2>1. b.type = "peer_left" /\ core' = [core EXCEPT ![r] = c] /\ Become(r, "hold") /\ Answer(r, <<>>)
        /\ UNCHANGED <<outbox, digest, lives, left, played>>
    BY <1>6 DEF DrainLeft, Heard
  <2>2. Next1(r, {"peer_left"})
    BY <1>0, <1>a, <2>1, KindFacts DEF Next1
  <2> HIDE DEF c
  <2>3. Does(r, c, "hold", outbox[r], digest[r], Rest(r), inbox[Peer(r)]) /\ Kept
    BY <2>1, Points, MailPoints DEF Does, Kept
  <2> QED BY <1>0, <2>2, <2>3 DEF Holds, c
<1>7. CASE DrainIgnored(r)
  <2>1. b.type = "resync" /\ Answer(r, <<>>)
        /\ UNCHANGED <<core, status, outbox, digest, lives, left, played>>
    BY <1>7 DEF DrainIgnored, Heard
  <2>2. Kind(Head(inbox[r])) \in {"hello", "resync"}
    BY <1>a, <2>1, KindFacts
  <2> QED BY <1>0, <2>1, <2>2, MailPoints DEF Drops, Moves, Does, Kept
<1> QED BY <1>1, <1>2, <1>3, <1>4, <1>5, <1>6, <1>7 DEF Drain

(* A frame's end, the hold, the give-ups and the digest exchange, as moves. *)
LEMMA MovesEnds ==
  ASSUME TypeInv, NEW r \in Role
  PROVE  /\ Hold(r) => Greets(r) \/ HandsOver(r) \/ Drops(r)
         /\ GiveUp(r) => Abandons(r)
         /\ PushDigest(r) => TellsDigest(r)
         /\ AwaitDigest(r) => Completes(r) \/ Drops(r)
         /\ NoDigest(r) => Completes(r)
<1>0. inbox[r] # <<>> => Head(inbox[r]) \in Message
  BY InboxFacts DEF Mail
<1>a. digest[r] \in SUBSET SUBSET Executed
  BY DEF TypeInv, TypeOK
<1>1. ASSUME Hold(r) PROVE Greets(r) \/ HandsOver(r) \/ Drops(r)
  <2> DEFINE b == Head(inbox[r])
  <2>1. inbox[r] # <<>> /\ status[r] \in Holding /\ UNCHANGED <<outbox, digest, lives, left, played>>
    BY <1>1 DEF Hold
  <2>2. b \in Message
    BY <1>0, <2>1
  <2>3. CASE b.type = "peer_joined"
    <3>1. Answer(r, <<Hello(r)>>) /\ UNCHANGED <<core, status>>
      BY <1>1, <2>3 DEF Hold
    <3>2. Next1(r, {"peer_joined"})
      BY <2>1, <2>2, <2>3, KindFacts DEF Next1
    <3> QED BY <2>1, <3>1, <3>2, MailPoints DEF Greets, Moves, Does, Kept
  <2>4. CASE b.type = "hello" /\ b.rejoin
    <3> DEFINE c == OnPeerLost(core[r])
               s == IF status[r] = "silent" THEN "pump" ELSE "drain"
    <3>1. /\ core' = [core EXCEPT ![r] = c]
          /\ Answer(r, <<[type |-> "resync", state |-> MakeResync(c)]>>)
          /\ Become(r, IF status[r] = "hold" THEN "drain" ELSE "pump")
      BY <1>1, <2>4 DEF Hold, SendResync
    <3>2. Next1(r, {"rejoin"})
      BY <2>1, <2>2, <2>4, KindFacts DEF Next1
    <3>3. (IF status[r] = "hold" THEN "drain" ELSE "pump") = s
      BY <2>1 DEF Holding
    <3> HIDE DEF c, s
    <3>5. core'[r] = c /\ core'[Peer(r)] = core[Peer(r)] /\ status'[r] = s /\ status'[Peer(r)] = status[Peer(r)]
      BY <3>1, <3>3, Points
    <3>6. inbox'[r] = Rest(r) /\ inbox'[Peer(r)] = Sent(r, [type |-> "resync", state |-> MakeResync(c)])
      BY <3>1, MailPoints
    <3>4. Does(r, c, s, outbox[r], digest[r], Rest(r),
               Sent(r, [type |-> "resync", state |-> MakeResync(c)])) /\ Kept
      BY <2>1, <3>5, <3>6 DEF Does, Kept
    <3> QED BY <2>1, <3>2, <3>4 DEF HandsOver, c, s
  <2>5. CASE b.type # "peer_joined" /\ ~(b.type = "hello" /\ b.rejoin)
    <3>1. Answer(r, <<>>) /\ UNCHANGED <<core, status>>
      BY <1>1, <2>5 DEF Hold
    <3>2. b.type = "hello" => b.rejoin \in BOOLEAN
      BY <2>2, MessageFacts
    <3>3. Kind(Head(inbox[r])) \notin {"peer_joined", "rejoin"}
      BY <2>2, <2>5, <3>2, KindFacts
    <3> QED BY <2>1, <3>1, <3>3, MailPoints DEF Drops, Moves, Does, Kept
  <2>6. b.type = "hello" => b.rejoin \in BOOLEAN
    BY <2>2, MessageFacts
  <2> QED BY <2>3, <2>4, <2>5, <2>6
<1>2. ASSUME GiveUp(r) PROVE Abandons(r)
  <2>1. inbox' = [inbox EXCEPT ![r] = <<>>] /\ UNCHANGED <<core, outbox, digest, lives, played>>
    BY <1>2 DEF GiveUp
  <2>2. CASE status[r] \in {"barrier", "resync"} /\ Exit(r, "no_peer")
    BY <2>1, <2>2, Points, MailPoints DEF Abandons, Moves, Does, Gone
  <2>3. CASE status[r] \in Holding /\ Exit(r, "peer_gone")
    BY <2>1, <2>3, Points, MailPoints DEF Abandons, Moves, Does, Gone
  <2> QED BY <1>2, <2>2, <2>3 DEF GiveUp
<1>3. ASSUME PushDigest(r) PROVE TellsDigest(r)
  <2> DEFINE b == [type |-> "digest", log |-> core[r].ran]
  <2>1. status[r] = "closing" /\ UNCHANGED <<core, outbox, digest, lives, played>>
    BY <1>3 DEF PushDigest
  <2>2. CASE digest[r] # {}
    <3>1. Exit(r, "completed")
          /\ inbox' = [inbox EXCEPT ![r] = <<>>, ![Peer(r)] = Posted(r, <<b>>)]
      BY <1>3, <2>2 DEF PushDigest
    <3> HIDE DEF b
    <3>3. inbox'[r] = <<>> /\ inbox'[Peer(r)] = Sent(r, b)
      BY <3>1, MailPoints
    <3>2. Moves(r, "completed", <<>>, Sent(r, b)) /\ Gone(r)
      BY <2>1, <3>1, <3>3, Points DEF Moves, Does, Gone
    <3> QED BY <2>1, <2>2, <3>2 DEF TellsDigest, b
  <2>3. CASE digest[r] = {}
    <3>1. Become(r, "digest") /\ Push(r, <<b>>) /\ UNCHANGED left
      BY <1>3, <2>3 DEF PushDigest
    <3> HIDE DEF b
    <3>2. Moves(r, "digest", inbox[r], Sent(r, b)) /\ left' = left
      BY <2>1, <3>1, Points, MailPoints DEF Moves, Does
    <3> QED BY <2>1, <2>3, <3>2 DEF TellsDigest, b
  <2> QED BY <2>2, <2>3
<1>4. ASSUME AwaitDigest(r) PROVE Completes(r) \/ Drops(r)
  <2>1. status[r] = "digest" /\ inbox[r] # <<>> /\ UNCHANGED <<core, outbox, lives, played>>
    BY <1>4 DEF AwaitDigest
  <2>2. CASE Heard(r, "digest")
    <3> DEFINE d == {Head(inbox[r]).log}
    <3>1. digest' = [digest EXCEPT ![r] = d] /\ Exit(r, "completed")
          /\ inbox' = [inbox EXCEPT ![r] = <<>>]
      BY <1>4, <2>2 DEF AwaitDigest
    <3>2. Next1(r, {"digest"})
      BY <1>0, <2>1, <2>2, KindFacts DEF Next1, Heard
    <3>3. Head(inbox[r]).log \in SUBSET Executed
      BY <1>0, <2>1, <2>2, MessageFacts DEF Heard
    <3>4. d \in SUBSET SUBSET Executed /\ d = {Head(inbox[r]).log}
      BY <3>3
    <3> HIDE DEF d
    <3>5. Does(r, core[r], "completed", outbox[r], d, <<>>, inbox[Peer(r)]) /\ Gone(r)
      BY <2>1, <3>1, Points, MailPoints DEF Does, Gone
    <3> QED BY <2>1, <3>2, <3>4, <3>5 DEF Completes
  <2>3. CASE ~Heard(r, "digest")
    <3>1. Answer(r, <<>>) /\ UNCHANGED <<digest, status, left>>
      BY <1>4, <2>3 DEF AwaitDigest
    <3>2. Kind(Head(inbox[r])) # "digest"
      BY <1>0, <2>1, <2>3, KindFacts DEF Heard
    <3> QED BY <2>1, <3>1, <3>2, MailPoints DEF Drops, Moves, Does, Kept
  <2> QED BY <2>2, <2>3
<1>5. ASSUME NoDigest(r) PROVE Completes(r)
  <2>1. status[r] = "digest" /\ Exit(r, "completed") /\ inbox' = [inbox EXCEPT ![r] = <<>>]
        /\ UNCHANGED <<core, outbox, digest, lives, played>>
    BY <1>5 DEF NoDigest
  <2>2. Does(r, core[r], "completed", outbox[r], digest[r], <<>>, inbox[Peer(r)]) /\ Gone(r)
    BY <2>1, Leaves DEF Does, Gone
  <2> QED BY <1>a, <2>1, <2>2 DEF Completes
<1> QED BY <1>1, <1>2, <1>3, <1>4, <1>5

(* A death and the relay's report, as moves. *)
LEMMA MovesOutside ==
  ASSUME TypeInv, NEW r \in Role
  PROVE  /\ Die(r) => Dies(r)
         /\ ReportLeft(r) => Reports(r)
<1>0. lives \in [Role -> 0 .. MaxDeaths] /\ left \in [Role -> Nat] /\ Peer(r) \in Role /\ Peer(r) # r
  BY PeerFacts DEF TypeInv, TypeOK
<1>1. ASSUME Die(r) PROVE Dies(r)
  <2>1. /\ status[r] \in Joined /\ lives[r] + lives[Peer(r)] < MaxDeaths
        /\ core' = [core EXCEPT ![r] = NewCore] /\ outbox' = [outbox EXCEPT ![r] = {}]
        /\ digest' = [digest EXCEPT ![r] = {}] /\ inbox' = [inbox EXCEPT ![r] = <<>>]
        /\ Exit(r, "offline") /\ played' = played
    BY <1>1 DEF Die
  <2>2. lives'[r] = lives[r] + 1 /\ lives'[Peer(r)] = lives[Peer(r)]
    BY <1>0, <1>1 DEF Die
  <2>3. Does(r, NewCore, "offline", {}, {}, <<>>, inbox[Peer(r)])
    BY <2>1, Points, Leaves DEF Does
  <2>4. left'[r] = left[r] + 1 /\ left'[Peer(r)] = left[Peer(r)]
    BY <2>1, Leaves
  <2> QED BY <2>1, <2>2, <2>3, <2>4 DEF Dies
<1>2. ASSUME ReportLeft(r) PROVE Reports(r)
  <2>1. left'[r] = left[r] - 1 /\ left'[Peer(r)] = left[Peer(r)]
    BY <1>0, <1>2 DEF ReportLeft
  <2>2. UNCHANGED <<core, status, outbox, digest, lives, played>> /\ left[r] > 0
    BY <1>2 DEF ReportLeft
  <2>3. CASE Push(r, <<[type |-> "peer_left"]>>)
    BY <2>1, <2>2, <2>3, MailPoints DEF Reports, Moves, Does
  <2>4. CASE UNCHANGED inbox
    BY <2>1, <2>2, <2>4 DEF Reports, Moves, Does
  <2> QED BY <1>2, <2>3, <2>4 DEF ReportLeft
<1> QED BY <1>1, <1>2

(* Every step is one of these. *)
Bringing(r) == Joins(r) \/ Speaks(r) \/ FindsNoRun(r) \/ Starts(r) \/ Resumes(r)
Framing(r) == Pumps(r) \/ PushesCommand(r) \/ PushesCommit(r) \/ EndsFrame(r) \/ FallsSilent(r) \/ Quits(r)
Draining(r) == TakesCommand(r) \/ TakesCommit(r) \/ Fails(r) \/ TakesDigest(r) \/ Holds(r)
Parting(r) == Abandons(r) \/ TellsDigest(r) \/ Completes(r)

(* Every step of the specification is one of the moves. *)
LEMMA StepMoves ==
  ASSUME TypeInv, [Next]_vars
  PROVE  \/ UNCHANGED vars
         \/ \E r \in Role : \/ Bringing(r) \/ Framing(r) \/ Draining(r) \/ Parting(r)
                            \/ Greets(r) \/ HandsOver(r) \/ Drops(r) \/ Dies(r) \/ Reports(r)
<1>1. ASSUME NEW r \in Role, Step(r)
      PROVE  \/ Bringing(r) \/ Framing(r) \/ Draining(r) \/ Parting(r)
             \/ Greets(r) \/ HandsOver(r) \/ Drops(r)
  BY <1>1, MovesBringUp, MovesFrame, MovesDrain, MovesEnds DEF Step, Bringing, Framing, Draining, Parting
<1> QED BY <1>1, MovesOutside DEF Next, Over

-------------------------------------------------------------------------------
(* Which kinds of broadcasts an inbox holds, and in which order. *)

Has(w, K) == \E i \in DOMAIN w : Kind(w[i]) \in K
NoneBehind(w, A, B) ==
  \A i, j \in DOMAIN w : i < j /\ Kind(w[i]) \in A => Kind(w[j]) \notin B
Led(w, A, B) ==
  \A j \in DOMAIN w : Kind(w[j]) \in B => \E i \in DOMAIN w : i < j /\ Kind(w[i]) \in A

(* What an inbox holds, the empty one first. *)
LEMMA HasFacts ==
  ASSUME NEW w \in Seq(Message)
  PROVE  /\ \A A, B : A \subseteq B /\ Has(w, A) => Has(w, B)
         /\ \A A, B : ~Has(w, B) => Led(w, A, B)
         /\ w = <<>> => \A A : ~Has(w, A)
         /\ w = <<>> => \A A, B : NoneBehind(w, A, B) /\ Led(w, A, B)
<1>1. w = <<>> => DOMAIN w = {}
  OBVIOUS
<1>2. \A A, B : A \subseteq B /\ Has(w, A) => Has(w, B)
  BY DEF Has
<1>3. \A A, B : ~Has(w, B) => Led(w, A, B)
  BY DEF Has, Led
<1> QED BY <1>1, <1>2, <1>3 DEF Has, NoneBehind, Led

(* What it holds once a broadcast is pushed behind. *)
LEMMA AppendFacts ==
  ASSUME NEW w \in Seq(Message), NEW b \in Message
  PROVE  /\ \A K : Has(Append(w, b), K) <=> Has(w, K) \/ Kind(b) \in K
         /\ \A A, B : NoneBehind(Append(w, b), A, B) <=>
              NoneBehind(w, A, B) /\ (Has(w, A) => Kind(b) \notin B)
         /\ \A A, B : Led(Append(w, b), A, B) <=> Led(w, A, B) /\ (Kind(b) \in B => Has(w, A))
<1> DEFINE v == Append(w, b)
           n == Len(w)
<1>1. /\ n \in Nat /\ DOMAIN w = 1 .. n /\ DOMAIN v = 1 .. n + 1
      /\ v[n + 1] = b /\ \A i \in 1 .. n : v[i] = w[i]
  OBVIOUS
<1> HIDE DEF v, n
<1>2. \A K : Has(v, K) <=> Has(w, K) \/ Kind(b) \in K
  <2>1. \A i \in 1 .. n + 1 : i \in 1 .. n \/ i = n + 1
    BY <1>1
  <2> QED BY <1>1, <2>1 DEF Has
<1>3. \A A, B : NoneBehind(v, A, B) <=> NoneBehind(w, A, B) /\ (Has(w, A) => Kind(b) \notin B)
  BY <1>1 DEF Has, NoneBehind
<1>4. \A A, B : Led(v, A, B) <=> Led(w, A, B) /\ (Kind(b) \in B => Has(w, A))
  BY <1>1 DEF Has, Led
<1> QED BY <1>2, <1>3, <1>4 DEF v

(* What it holds once its head is consumed. *)
LEMMA TailFacts ==
  ASSUME NEW w \in Seq(Message), w # <<>>
  PROVE  /\ \A K : Has(w, K) <=> Kind(Head(w)) \in K \/ Has(Tail(w), K)
         /\ \A A, B : NoneBehind(w, A, B) <=>
              NoneBehind(Tail(w), A, B) /\ (Kind(Head(w)) \in A => ~Has(Tail(w), B))
         /\ \A A, B : Led(w, A, B) <=>
              Kind(Head(w)) \notin B /\ (Kind(Head(w)) \in A \/ Led(Tail(w), A, B))
<1> DEFINE v == Tail(w)
           n == Len(w)
<1>1. /\ n \in Nat /\ n > 0 /\ DOMAIN w = 1 .. n /\ DOMAIN v = 1 .. n - 1
      /\ \A i \in 1 .. n - 1 : v[i] = w[i + 1]
      /\ Head(w) = w[1]
  OBVIOUS
<1> HIDE DEF v, n
<1>2. \A K : Has(w, K) <=> Kind(w[1]) \in K \/ Has(v, K)
  <2>1. \A i \in 1 .. n : i = 1 \/ (i - 1 \in 1 .. n - 1 /\ i = (i - 1) + 1)
    BY <1>1
  <2>2. ASSUME NEW K, Has(w, K), Kind(w[1]) \notin K PROVE Has(v, K)
    BY <1>1, <2>1, <2>2 DEF Has
  <2>3. ASSUME NEW K, Kind(w[1]) \in K \/ Has(v, K) PROVE Has(w, K)
    <3>1. \A i \in 1 .. n - 1 : i + 1 \in 1 .. n
      BY <1>1
    <3> QED BY <1>1, <2>3, <3>1 DEF Has
  <2> QED BY <2>2, <2>3
<1>5. \A i \in 1 .. n : i = 1 \/ (i - 1 \in 1 .. n - 1 /\ w[i] = v[i - 1])
  <2> SUFFICES ASSUME NEW i \in 1 .. n, i # 1 PROVE i - 1 \in 1 .. n - 1 /\ w[i] = v[i - 1]
    OBVIOUS
  <2>1. i - 1 \in 1 .. n - 1 /\ (i - 1) + 1 = i
    BY <1>1
  <2> QED BY <1>1, <2>1
<1>6. \A i \in 1 .. n - 1 : i + 1 \in 1 .. n /\ 1 \in 1 .. n /\ i + 1 > 1
  BY <1>1
<1>3. ASSUME NEW A, NEW B
      PROVE  NoneBehind(w, A, B) <=> NoneBehind(v, A, B) /\ (Kind(w[1]) \in A => ~Has(v, B))
  <2>1. ASSUME NoneBehind(w, A, B), NEW i \in 1 .. n - 1, NEW j \in 1 .. n - 1, i < j, Kind(v[i]) \in A
        PROVE  Kind(v[j]) \notin B
    <3>1. i + 1 < j + 1 /\ i + 1 \in 1 .. n /\ j + 1 \in 1 .. n
      BY <1>6, <2>1
    <3> QED BY <1>1, <2>1, <3>1 DEF NoneBehind
  <2>2. ASSUME NoneBehind(w, A, B), Kind(w[1]) \in A, NEW j \in 1 .. n - 1
        PROVE  Kind(v[j]) \notin B
    <3>1. 1 < j + 1 /\ 1 \in 1 .. n /\ j + 1 \in 1 .. n
      BY <1>6, <2>2
    <3> QED BY <1>1, <2>2, <3>1 DEF NoneBehind
  <2>3. ASSUME NoneBehind(v, A, B), Kind(w[1]) \in A => ~Has(v, B),
               NEW i \in 1 .. n, NEW j \in 1 .. n, i < j, Kind(w[i]) \in A
        PROVE  Kind(w[j]) \notin B
    <3>1. j - 1 \in 1 .. n - 1 /\ w[j] = v[j - 1]
      BY <1>5, <2>3
    <3>2. CASE i = 1
      BY <1>1, <2>3, <3>1, <3>2 DEF Has
    <3>3. CASE i # 1
      <4>1. i - 1 \in 1 .. n - 1 /\ w[i] = v[i - 1] /\ i - 1 < j - 1
        BY <1>5, <2>3, <3>3
      <4> QED BY <1>1, <2>3, <3>1, <4>1 DEF NoneBehind
    <3> QED BY <3>2, <3>3
  <2>4. NoneBehind(w, A, B) => NoneBehind(v, A, B)
    BY <1>1, <2>1 DEF NoneBehind
  <2>5. NoneBehind(w, A, B) => (Kind(w[1]) \in A => ~Has(v, B))
    BY <1>1, <2>2 DEF Has
  <2>6. NoneBehind(v, A, B) /\ (Kind(w[1]) \in A => ~Has(v, B)) => NoneBehind(w, A, B)
    BY <1>1, <2>3 DEF NoneBehind
  <2> QED BY <2>4, <2>5, <2>6
<1>4. ASSUME NEW A, NEW B
      PROVE  Led(w, A, B) <=> Kind(w[1]) \notin B /\ (Kind(w[1]) \in A \/ Led(v, A, B))
  <2>1. ASSUME Led(w, A, B) PROVE Kind(w[1]) \notin B
    BY <1>1, <2>1 DEF Led
  <2>2. ASSUME Led(w, A, B), Kind(w[1]) \notin A PROVE Led(v, A, B)
    <3> SUFFICES ASSUME NEW j \in 1 .. n - 1, Kind(v[j]) \in B
                 PROVE  \E i \in 1 .. n - 1 : i < j /\ Kind(v[i]) \in A
      BY <1>1 DEF Led
    <3>1. j + 1 \in 1 .. n /\ w[j + 1] = v[j]
      BY <1>1, <1>6
    <3>2. PICK i \in 1 .. n : i < j + 1 /\ Kind(w[i]) \in A
      BY <1>1, <2>2, <3>1 DEF Led
    <3>3. i # 1
      BY <2>2, <3>2
    <3>4. i - 1 \in 1 .. n - 1 /\ w[i] = v[i - 1] /\ i - 1 < j
      BY <1>5, <3>2, <3>3
    <3> QED BY <3>2, <3>4
  <2>3. ASSUME Kind(w[1]) \notin B, Kind(w[1]) \in A \/ Led(v, A, B), NEW j \in 1 .. n, Kind(w[j]) \in B
        PROVE  \E i \in 1 .. n : i < j /\ Kind(w[i]) \in A
    <3>1. j # 1
      BY <2>3
    <3>2. j - 1 \in 1 .. n - 1 /\ w[j] = v[j - 1] /\ 1 < j /\ 1 \in 1 .. n
      BY <1>5, <1>6, <3>1
    <3>3. CASE Kind(w[1]) \in A
      BY <3>2, <3>3
    <3>4. CASE Led(v, A, B)
      <4>1. PICK i \in 1 .. n - 1 : i < j - 1 /\ Kind(v[i]) \in A
        BY <1>1, <2>3, <3>2, <3>4 DEF Led
      <4>2. i + 1 \in 1 .. n /\ i + 1 < j /\ w[i + 1] = v[i]
        BY <1>1, <1>6, <4>1
      <4> QED BY <4>1, <4>2
    <3> QED BY <2>3, <3>3, <3>4
  <2>4. Kind(w[1]) \notin B /\ (Kind(w[1]) \in A \/ Led(v, A, B)) => Led(w, A, B)
    BY <1>1, <2>3 DEF Led
  <2> QED BY <2>1, <2>2, <2>4
<1> QED BY <1>1, <1>2, <1>3, <1>4 DEF v

(* One kind at a time. *)
Traffic == {"command", "commit", "digest", "resync"}

(* The kinds taken together, kind by kind. *)
LEMMA HasParts ==
  ASSUME NEW w \in Seq(Message)
  PROVE  /\ Has(w, Traffic) <=> \/ Has(w, {"command"}) \/ Has(w, {"commit"})
                                \/ Has(w, {"digest"}) \/ Has(w, {"resync"})
         /\ Has(w, {"hello", "rejoin"}) <=> Has(w, {"hello"}) \/ Has(w, {"rejoin"})
         /\ Has(w, {"resync", "peer_joined"}) <=> Has(w, {"resync"}) \/ Has(w, {"peer_joined"})
         /\ Has(w, {"hello", "rejoin"} \cup Traffic) <=> Has(w, {"hello"}) \/ Has(w, {"rejoin"}) \/ Has(w, Traffic)
         /\ Has(w, {"rejoin", "hello"} \cup Traffic) <=> Has(w, {"hello"}) \/ Has(w, {"rejoin"}) \/ Has(w, Traffic)
BY DEF Has, Traffic

(* The same of a peer's inbox that was pushed to, and of one consumed from. *)
LEMMA SentHas ==
  ASSUME TypeInv, NEW r \in Role, NEW b \in Message
  PROVE  LET v == inbox[Peer(r)] IN
         /\ \A K : Has(Sent(r, b), K) => Has(v, K) \/ Kind(b) \in K
         /\ \A K : Has(v, K) => Has(Sent(r, b), K)
         /\ \A K : status[Peer(r)] \in Joined /\ Kind(b) \in K => Has(Sent(r, b), K)
         /\ \A A, B : NoneBehind(v, A, B) /\ (Has(v, A) => Kind(b) \notin B) => NoneBehind(Sent(r, b), A, B)
         /\ \A A, B : Led(v, A, B) /\ (Kind(b) \in B => Has(v, A)) => Led(Sent(r, b), A, B)
         /\ status[Peer(r)] \notin Joined => Sent(r, b) = v
<1>1. inbox[Peer(r)] \in Seq(Message)
  BY PeerFacts DEF TypeInv, TypeOK
<1>2. Sent(r, b) = inbox[Peer(r)] \/ Sent(r, b) = Append(inbox[Peer(r)], b)
  BY DEF Sent
<1>3. status[Peer(r)] \in Joined => Sent(r, b) = Append(inbox[Peer(r)], b)
  BY DEF Sent
<1>4. status[Peer(r)] \notin Joined => Sent(r, b) = inbox[Peer(r)]
  BY DEF Sent
<1> DEFINE v == inbox[Peer(r)]
<1>5. CASE status[Peer(r)] \in Joined
  <2>1. Sent(r, b) = Append(v, b)
    BY <1>3, <1>5
  <2> HIDE DEF v
  <2> QED BY <1>1, <1>5, <2>1, AppendFacts DEF v
<1>6. CASE status[Peer(r)] \notin Joined
  BY <1>4, <1>6
<1> QED BY <1>5, <1>6

(* What r's inbox holds once r consumed its head. *)
LEMMA RestHas ==
  ASSUME TypeInv, NEW r \in Role, inbox[r] # <<>>
  PROVE  LET w == inbox[r]
             k == Kind(Head(inbox[r]))
         IN
         /\ \A K : Has(Rest(r), K) => Has(w, K)
         /\ \A K : k \in K => Has(w, K)
         /\ \A K : Has(w, K) /\ k \notin K => Has(Rest(r), K)
         /\ \A A, B : NoneBehind(w, A, B) => NoneBehind(Rest(r), A, B)
         /\ \A A, B : NoneBehind(w, A, B) /\ k \in A => ~Has(Rest(r), B)
         /\ \A A, B : Led(w, A, B) => k \notin B /\ (k \notin A => Led(Rest(r), A, B))
<1>1. inbox[r] \in Seq(Message)
  BY DEF TypeInv, TypeOK
<1> DEFINE w == inbox[r]
           k == Kind(Head(w))
<1> HIDE DEF w
<1>2. w \in Seq(Message) /\ w # <<>> /\ Rest(r) = Tail(w)
  BY <1>1 DEF w, Rest
<1>3. /\ \A K : Has(w, K) <=> k \in K \/ Has(Tail(w), K)
      /\ \A A, B : NoneBehind(w, A, B) <=>
           NoneBehind(Tail(w), A, B) /\ (k \in A => ~Has(Tail(w), B))
      /\ \A A, B : Led(w, A, B) <=> k \notin B /\ (k \in A \/ Led(Tail(w), A, B))
  BY <1>2, TailFacts
<1> HIDE DEF k
<1>4. /\ \A K : Has(Rest(r), K) => Has(w, K)
      /\ \A K : k \in K => Has(w, K)
      /\ \A K : Has(w, K) /\ k \notin K => Has(Rest(r), K)
  BY <1>2, <1>3
<1>5. /\ \A A, B : NoneBehind(w, A, B) => NoneBehind(Rest(r), A, B)
      /\ \A A, B : NoneBehind(w, A, B) /\ k \in A => ~Has(Rest(r), B)
      /\ \A A, B : Led(w, A, B) => k \notin B /\ (k \notin A => Led(Rest(r), A, B))
  BY <1>2, <1>3
<1> QED BY <1>4, <1>5 DEF k, w

-------------------------------------------------------------------------------
(* Where the two processes can be, and what can be under way, with one death. *)

Past == Frame \cup Holding \cup {"closing", "digest"}
Begun(r) == status[r] \in Past \cup {"completed", "peer_gone", "quit", "error"}
OneDeath(r) == lives[r] + lives[Peer(r)] <= 1
Deaf(r) == status[r] \notin Joined => inbox[r] = <<>>
Roles(r) ==
  /\ status[r] = "resync" => lives[r] = 1
  /\ status[r] \in {"barrier", "no_run"} => lives[r] = 0
  /\ status[r] \in {"offline", "joining", "barrier", "resync", "no_peer", "no_run"} => core[r] = NewCore
  /\ status[r] # "push" => outbox[r] = {}

(* Only one process says a rejoin hello, to a seat that has not answered.    *)
RejoinOnce(r) ==
  /\ Has(inbox[r], {"rejoin"}) =>
       /\ lives[Peer(r)] = 1 /\ status[Peer(r)] \in {"resync", "no_peer"}
       /\ ~Has(inbox[Peer(r)], {"resync"})
  /\ NoneBehind(inbox[r], {"rejoin"}, {"rejoin", "hello"} \cup Traffic)

(* It waits for the answer, and the answer comes once.                       *)
ResyncOnce(r) ==
  /\ Has(inbox[r], {"resync"}) => status[r] = "resync" /\ Begun(Peer(r))
  /\ NoneBehind(inbox[r], {"resync"}, {"resync", "peer_joined"})
Resumed(r) ==
  lives[r] = 1 /\ Begun(r) => Begun(Peer(r)) /\ ~Has(inbox[r], {"resync", "peer_joined"})

(* Before a first process has said hello nobody has answered it or begun.    *)
Early(r) ==
  lives[r] = 0 /\ status[r] \in {"offline", "joining"} =>
    /\ status[Peer(r)] \in {"offline", "joining", "barrier", "resync", "no_peer"}
    /\ ~Has(inbox[Peer(r)], {"hello", "rejoin"} \cup Traffic)
    /\ ~Has(inbox[r], Traffic)

(* At the barrier a hello is there, or on its way, ahead of anything else.   *)
Greeted(r) ==
  status[r] = "barrier" =>
    /\ lives[Peer(r)] = 0 /\ Begun(Peer(r)) => Has(inbox[r], {"hello"})
    /\ status[Peer(r)] = "barrier" =>
         \/ Has(inbox[r], {"hello"})
         \/ Has(inbox[Peer(r)], {"peer_joined"}) /\ Led(inbox[Peer(r)], {"peer_joined"}, {"hello"})
    /\ lives[Peer(r)] = 0 /\ status[Peer(r)] = "joining" =>
         Has(inbox[Peer(r)], {"hello"}) \/ Has(inbox[r], {"peer_joined"})
    /\ Led(inbox[r], {"hello", "rejoin"}, Traffic)

ControlAt(r) ==
  /\ OneDeath(r) /\ Deaf(r) /\ Roles(r) /\ RejoinOnce(r) /\ ResyncOnce(r)
  /\ Resumed(r) /\ Early(r) /\ Greeted(r)

Control == \A r \in Role : ControlAt(r)

(* A seat past its barrier: what it does there differs little for Control.   *)
Plays(r) ==
  /\ status[r] \in Past
  /\ status'[r] \in Past \cup {"completed", "peer_gone", "quit", "error"}
  /\ status'[Peer(r)] = status[Peer(r)] /\ core'[Peer(r)] = core[Peer(r)]
  /\ outbox'[Peer(r)] = outbox[Peer(r)] /\ (status'[r] # "push" => outbox'[r] = {})
  /\ lives' = lives
  /\ \/ inbox'[r] = <<>>
     \/ status'[r] \in Joined /\ inbox'[r] = inbox[r]
     \/ status'[r] \in Joined /\ inbox[r] # <<>> /\ inbox'[r] = Rest(r)
  /\ \/ inbox'[Peer(r)] = inbox[Peer(r)]
     \/ \E b \in Message : /\ Kind(b) \in {"command", "commit", "digest"}
                           /\ inbox'[Peer(r)] = Sent(r, b)

(* A replacement's hello is a rejoin, a first process's is not. *)
LEMMA HelloKind ==
  ASSUME NEW r \in Role
  PROVE  Hello(r) \in Message /\ Kind(Hello(r)) = (IF lives[r] > 0 THEN "rejoin" ELSE "hello")
BY HelloMail DEF Mail, Hello, Kind

(* The moves of a seat past its barrier are plays. *)
LEMMA PlaysMoves ==
  ASSUME TypeInv, Sampled, NEW r \in Role, Roles(r)
  PROVE  /\ Framing(r) \/ Draining(r) \/ TellsDigest(r) \/ Completes(r) => Plays(r)
         /\ status[r] \notin {"barrier", "resync"} /\ (Abandons(r) \/ Drops(r)) => Plays(r)
<1> USE DEF Roles, Plays, Past, Frame, Holding, Joined, Does, Moves, Kept, Gone, Next1
<1>1. \A c : Loop(c) \in {"closing", "pump"}
  BY DEF Loop
<1>a. core[r] \in Core /\ outbox[r] \in SUBSET Scheduled
  BY DEF TypeInv, TypeOK
<1>2. Pumps(r) => Plays(r)
  <2> SUFFICES ASSUME status[r] = "pump", Kept,
                      NEW answers \in [SampleWindow(r, core[r]) -> Feed],
                      Does(r, Pump(r, core[r], answers), IF SampleWindow(r, core[r]) = {} THEN "drain" ELSE "push",
                           Schedule(answers), digest[r], inbox[r], inbox[Peer(r)])
               PROVE  Plays(r)
    BY DEF Pumps
  <2>1. SampleWindow(r, core[r]) = {} => Schedule(answers) = {}
    BY DEF Schedule
  <2> QED BY <2>1
<1>3. PushesCommand(r) => Plays(r)
  <2> SUFFICES ASSUME PushesCommand(r) PROVE Plays(r)
    OBVIOUS
  <2>1. PICK m \in outbox[r] : inbox'[Peer(r)] = Sent(r, [type |-> "command", m |-> m])
    BY DEF PushesCommand
  <2>2. m \in Scheduled
    BY <1>a
  <2> DEFINE b == [type |-> "command", m |-> m]
  <2>3. b \in Message /\ Kind(b) \in {"command", "commit", "digest"}
    BY <2>2, PostedFacts DEF Mail, Kind
  <2> HIDE DEF b
  <2>4. inbox'[Peer(r)] = Sent(r, b)
    BY <2>1 DEF b
  <2> QED BY <2>3, <2>4 DEF PushesCommand
<1>4. PushesCommit(r) => Plays(r)
  <2> SUFFICES ASSUME PushesCommit(r) PROVE Plays(r)
    OBVIOUS
  <2> DEFINE b == [type |-> "commit", through |-> core[r].next_sample - 1]
  <2>1. core[r].next_sample - 1 \in Nat
    BY <1>a DEF PushesCommit, Sampled, Core
  <2>2. b \in Message /\ Kind(b) \in {"command", "commit", "digest"}
    BY <2>1, PostedFacts DEF Mail, Kind
  <2>3. inbox'[Peer(r)] = Sent(r, b)
    BY DEF PushesCommit
  <2> HIDE DEF b
  <2> QED BY <2>2, <2>3 DEF PushesCommit
<1>5. EndsFrame(r) \/ FallsSilent(r) \/ Quits(r) => Plays(r)
  BY <1>1 DEF EndsFrame, FallsSilent, Quits
<1>6. TakesCommand(r) \/ TakesCommit(r) \/ Fails(r) \/ TakesDigest(r) \/ Holds(r) => Plays(r)
  BY DEF TakesCommand, TakesCommit, Fails, TakesDigest, Holds
<1>7. TellsDigest(r) => Plays(r)
  <2> SUFFICES ASSUME TellsDigest(r) PROVE Plays(r)
    OBVIOUS
  <2> DEFINE b == [type |-> "digest", log |-> core[r].ran]
  <2>1. core[r].ran \in SUBSET Executed
    BY <1>a DEF Core
  <2>2. b \in Message /\ Kind(b) \in {"command", "commit", "digest"}
    BY <2>1, PostedFacts DEF Mail, Kind
  <2>3. inbox'[Peer(r)] = Sent(r, b)
    BY DEF TellsDigest
  <2> HIDE DEF b
  <2> QED BY <2>2, <2>3 DEF TellsDigest
<1>8. Completes(r) => Plays(r)
  BY DEF Completes
<1>9. status[r] \notin {"barrier", "resync"} /\ Abandons(r) => Plays(r)
  BY DEF Abandons
<1>10. status[r] \notin {"barrier", "resync"} /\ Drops(r) => Plays(r)
  BY DEF Drops
<1> QED BY <1>2, <1>3, <1>4, <1>5, <1>6, <1>7, <1>8, <1>9, <1>10 DEF Framing, Draining

(* A process joins. *)
LEMMA ControlJoins ==
  ASSUME TypeInv, TypeInv', Control, NEW r \in Role, Joins(r)
  PROVE  ControlAt(r)' /\ ControlAt(Peer(r))'
<1> DEFINE q == Peer(r)
<1> USE DEF Frame, Holding, Joined, Ended, Traffic
<1>1. q \in Role /\ q # r /\ Peer(q) = r
  BY PeerFacts
<1>2. ControlAt(r) /\ ControlAt(q)
  BY <1>1 DEF Control
<1>3. /\ lives[r] \in Nat /\ lives[q] \in Nat /\ lives'[r] \in Nat /\ lives'[q] \in Nat
      /\ status[r] \in Status /\ status[q] \in Status /\ status'[r] \in Status /\ status'[q] \in Status
      /\ inbox[r] \in Seq(Message) /\ inbox[q] \in Seq(Message)
      /\ inbox'[r] \in Seq(Message) /\ inbox'[q] \in Seq(Message)
  BY <1>1 DEF TypeInv, TypeOK
<1>4. /\ status[r] = "offline" /\ status'[r] = "joining" /\ status'[q] = status[q] /\ lives' = lives
      /\ core'[r] = core[r] /\ core'[q] = core[q] /\ outbox'[r] = outbox[r] /\ outbox'[q] = outbox[q]
      /\ inbox'[r] = inbox[r] /\ inbox'[q] = Sent(r, [type |-> "peer_joined"])
  BY DEF Joins, Moves, Does, Kept
<1>5. [type |-> "peer_joined"] \in Message /\ Kind([type |-> "peer_joined"]) = "peer_joined"
  BY PostedFacts DEF Mail, Kind
<1>20. ControlAt(r)'
  BY <1>1, <1>2, <1>3, HasParts, <1>4, <1>5, SentHas, HasFacts
     DEF ControlAt, OneDeath, Deaf, Roles, RejoinOnce, ResyncOnce, Resumed, Early, Greeted, Begun, Past
<1>21. ControlAt(q)'
  BY <1>1, <1>2, <1>3, HasParts, <1>4, <1>5, SentHas, HasFacts
     DEF ControlAt, OneDeath, Deaf, Roles, RejoinOnce, ResyncOnce, Resumed, Early, Greeted, Begun, Past
<1> QED BY <1>20, <1>21 DEF ControlAt

(* It says its hello. *)
LEMMA ControlSpeaks ==
  ASSUME TypeInv, TypeInv', Control, NEW r \in Role, Speaks(r)
  PROVE  ControlAt(r)' /\ ControlAt(Peer(r))'
<1> DEFINE q == Peer(r)
<1> USE DEF Frame, Holding, Joined, Ended, Traffic
<1>1. q \in Role /\ q # r /\ Peer(q) = r
  BY PeerFacts
<1>2. ControlAt(r) /\ ControlAt(q)
  BY <1>1 DEF Control
<1>3. /\ lives[r] \in Nat /\ lives[q] \in Nat /\ lives'[r] \in Nat /\ lives'[q] \in Nat
      /\ status[r] \in Status /\ status[q] \in Status /\ status'[r] \in Status /\ status'[q] \in Status
      /\ inbox[r] \in Seq(Message) /\ inbox[q] \in Seq(Message)
      /\ inbox'[r] \in Seq(Message) /\ inbox'[q] \in Seq(Message)
  BY <1>1 DEF TypeInv, TypeOK
<1>4. /\ status[r] = "joining" /\ status'[r] = (IF lives[r] > 0 THEN "resync" ELSE "barrier")
      /\ status'[q] = status[q] /\ lives' = lives
      /\ core'[r] = core[r] /\ core'[q] = core[q] /\ outbox'[r] = outbox[r] /\ outbox'[q] = outbox[q]
      /\ inbox'[r] = inbox[r] /\ inbox'[q] = Sent(r, Hello(r))
  BY DEF Speaks, Moves, Does, Kept
<1>5. Hello(r) \in Message /\ Kind(Hello(r)) = (IF lives[r] > 0 THEN "rejoin" ELSE "hello")
  BY HelloKind
<1>6. status[q] \in Joined /\ lives[r] = 0 => Has(inbox'[q], {"hello"})
  BY <1>4, <1>5, SentHas
<1>20. ControlAt(r)'
  BY <1>1, <1>2, <1>3, HasParts, <1>4, <1>5, <1>6, SentHas, HasFacts
     DEF ControlAt, OneDeath, Deaf, Roles, RejoinOnce, ResyncOnce, Resumed, Early, Greeted, Begun, Past
<1>21. ControlAt(q)'
  BY <1>1, <1>2, <1>3, HasParts, <1>4, <1>5, <1>6, SentHas, HasFacts
     DEF ControlAt, OneDeath, Deaf, Roles, RejoinOnce, ResyncOnce, Resumed, Early, Greeted, Begun, Past
<1> QED BY <1>20, <1>21 DEF ControlAt

(* It answers a joiner. *)
LEMMA ControlGreets ==
  ASSUME TypeInv, TypeInv', Control, NEW r \in Role, Greets(r)
  PROVE  ControlAt(r)' /\ ControlAt(Peer(r))'
<1> DEFINE q == Peer(r)
<1> USE DEF Frame, Holding, Joined, Ended, Traffic
<1>1. q \in Role /\ q # r /\ Peer(q) = r
  BY PeerFacts
<1>2. ControlAt(r) /\ ControlAt(q)
  BY <1>1 DEF Control
<1>3. /\ lives[r] \in Nat /\ lives[q] \in Nat /\ lives'[r] \in Nat /\ lives'[q] \in Nat
      /\ status[r] \in Status /\ status[q] \in Status /\ status'[r] \in Status /\ status'[q] \in Status
      /\ inbox[r] \in Seq(Message) /\ inbox[q] \in Seq(Message)
      /\ inbox'[r] \in Seq(Message) /\ inbox'[q] \in Seq(Message)
  BY <1>1 DEF TypeInv, TypeOK
<1>4. /\ status[r] \in {"barrier", "drain"} \cup Holding /\ status'[r] = status[r]
      /\ status'[q] = status[q] /\ lives' = lives
      /\ core'[r] = core[r] /\ core'[q] = core[q] /\ outbox'[r] = outbox[r] /\ outbox'[q] = outbox[q]
      /\ inbox[r] # <<>> /\ Kind(Head(inbox[r])) = "peer_joined"
      /\ inbox'[r] = Rest(r) /\ inbox'[q] = Sent(r, Hello(r))
  BY DEF Greets, Moves, Does, Kept, Next1
<1>7. Has(inbox[r], {"peer_joined"})
  BY <1>4, RestHas
<1>6. lives[r] = 0
  BY <1>2, <1>3, <1>4, <1>7, HasParts DEF ControlAt, OneDeath, Roles, Resumed, Begun, Past
<1>5. Hello(r) \in Message /\ Kind(Hello(r)) = "hello"
  BY <1>3, <1>6, HelloKind
<1>8. /\ status[q] \in Joined => Has(inbox'[q], {"hello"})
      /\ \A K : Has(inbox'[r], K) => Has(inbox[r], K)
      /\ Has(inbox[r], {"hello"}) => Has(inbox'[r], {"hello"})
      /\ ~Has(inbox[q], Traffic) => ~Has(inbox'[q], Traffic)
      /\ \A A : Led(inbox[q], A, Traffic) => Led(inbox'[q], A, Traffic)
  BY <1>4, <1>5, SentHas, RestHas
<1>20. OneDeath(r)' /\ Deaf(r)' /\ Roles(r)' /\ Resumed(r)'
  BY <1>1, <1>2, <1>3, HasParts, <1>4, <1>5, <1>6, <1>8, SentHas, RestHas
     DEF ControlAt, OneDeath, Deaf, Roles, RejoinOnce, ResyncOnce, Resumed, Early, Greeted, Begun, Past
<1>21. Early(r)'
  BY <1>1, <1>2, <1>3, HasParts, <1>4, <1>5, <1>6, <1>8, SentHas, RestHas
     DEF ControlAt, OneDeath, Deaf, Roles, RejoinOnce, ResyncOnce, Resumed, Early, Greeted, Begun, Past
<1>22. RejoinOnce(r)'
  BY <1>1, <1>2, <1>3, HasParts, <1>4, <1>5, <1>6, <1>8, SentHas, RestHas
     DEF ControlAt, OneDeath, Deaf, Roles, RejoinOnce, ResyncOnce, Resumed, Early, Greeted, Begun, Past
<1>23. ResyncOnce(r)'
  BY <1>1, <1>2, <1>3, HasParts, <1>4, <1>5, <1>6, <1>8, SentHas, RestHas
     DEF ControlAt, OneDeath, Deaf, Roles, RejoinOnce, ResyncOnce, Resumed, Early, Greeted, Begun, Past
<1>24. Greeted(r)'
  <2> SUFFICES ASSUME status'[r] = "barrier"
               PROVE  /\ lives'[q] = 0 /\ Begun(q)' => Has(inbox'[r], {"hello"})
                      /\ status'[q] = "barrier" =>
                           \/ Has(inbox'[r], {"hello"})
                           \/ /\ Has(inbox'[q], {"peer_joined"})
                              /\ Led(inbox'[q], {"peer_joined"}, {"hello"})
                      /\ lives'[q] = 0 /\ status'[q] = "joining" =>
                           Has(inbox'[q], {"hello"}) \/ Has(inbox'[r], {"peer_joined"})
                      /\ Led(inbox'[r], {"hello", "rejoin"}, Traffic)
    BY <1>1 DEF Greeted
  <2>0. status'[r] = "barrier"
    OBVIOUS
  <2>1. lives'[q] = 0 /\ Begun(q)' => Has(inbox'[r], {"hello"})
    BY <1>1, <1>2, <1>3, <2>0, HasParts, <1>4, <1>5, <1>6, <1>8, SentHas, RestHas
       DEF ControlAt, Roles, Greeted, Begun, Past
  <2>2. status'[q] = "barrier" =>
          \/ Has(inbox'[r], {"hello"})
          \/ /\ Has(inbox'[q], {"peer_joined"})
             /\ Led(inbox'[q], {"peer_joined"}, {"hello"})
    BY <1>1, <1>2, <1>3, <2>0, HasParts, <1>4, <1>5, <1>6, <1>8, SentHas, RestHas
       DEF ControlAt, Roles, Greeted, Begun, Past
  <2>3. lives'[q] = 0 /\ status'[q] = "joining" =>
          Has(inbox'[q], {"hello"}) \/ Has(inbox'[r], {"peer_joined"})
    BY <1>1, <1>2, <1>3, <2>0, HasParts, <1>4, <1>5, <1>6, <1>8, SentHas, RestHas
       DEF ControlAt, Roles, Greeted, Begun, Past
  <2>4. Led(inbox'[r], {"hello", "rejoin"}, Traffic)
    BY <1>1, <1>2, <1>3, <2>0, HasParts, <1>4, <1>5, <1>6, <1>8, SentHas, RestHas
       DEF ControlAt, Roles, Greeted, Begun, Past
  <2> QED BY <2>1, <2>2, <2>3, <2>4
<1>25. OneDeath(q)' /\ Deaf(q)' /\ Roles(q)' /\ Resumed(q)'
  BY <1>1, <1>2, <1>3, HasParts, <1>4, <1>5, <1>6, <1>8, SentHas, RestHas
     DEF ControlAt, OneDeath, Deaf, Roles, RejoinOnce, ResyncOnce, Resumed, Early, Greeted, Begun, Past
<1>26. Early(q)'
  BY <1>1, <1>2, <1>3, HasParts, <1>4, <1>5, <1>6, <1>8, SentHas, RestHas
     DEF ControlAt, OneDeath, Deaf, Roles, RejoinOnce, ResyncOnce, Resumed, Early, Greeted, Begun, Past
<1>27. RejoinOnce(q)'
  BY <1>1, <1>2, <1>3, HasParts, <1>4, <1>5, <1>6, <1>8, SentHas, RestHas
     DEF ControlAt, OneDeath, Deaf, Roles, RejoinOnce, ResyncOnce, Resumed, Early, Greeted, Begun, Past
<1>28. ResyncOnce(q)'
  BY <1>1, <1>2, <1>3, HasParts, <1>4, <1>5, <1>6, <1>8, SentHas, RestHas
     DEF ControlAt, OneDeath, Deaf, Roles, RejoinOnce, ResyncOnce, Resumed, Early, Greeted, Begun, Past
<1>29. Greeted(q)'
  <2> SUFFICES ASSUME status'[q] = "barrier"
               PROVE  /\ lives'[r] = 0 /\ Begun(r)' => Has(inbox'[q], {"hello"})
                      /\ status'[r] = "barrier" =>
                           \/ Has(inbox'[q], {"hello"})
                           \/ /\ Has(inbox'[r], {"peer_joined"})
                              /\ Led(inbox'[r], {"peer_joined"}, {"hello"})
                      /\ lives'[r] = 0 /\ status'[r] = "joining" =>
                           Has(inbox'[r], {"hello"}) \/ Has(inbox'[q], {"peer_joined"})
                      /\ Led(inbox'[q], {"hello", "rejoin"}, Traffic)
    BY <1>1 DEF Greeted
  <2>0. status'[q] = "barrier"
    OBVIOUS
  <2>1. lives'[r] = 0 /\ Begun(r)' => Has(inbox'[q], {"hello"})
    BY <1>1, <1>2, <1>3, <2>0, HasParts, <1>4, <1>5, <1>6, <1>8, SentHas, RestHas
       DEF ControlAt, Roles, Greeted, Begun, Past
  <2>2. status'[r] = "barrier" =>
          \/ Has(inbox'[q], {"hello"})
          \/ /\ Has(inbox'[r], {"peer_joined"})
             /\ Led(inbox'[r], {"peer_joined"}, {"hello"})
    BY <1>1, <1>2, <1>3, <2>0, HasParts, <1>4, <1>5, <1>6, <1>8, SentHas, RestHas
       DEF ControlAt, Roles, Greeted, Begun, Past
  <2>3. lives'[r] = 0 /\ status'[r] = "joining" =>
          Has(inbox'[r], {"hello"}) \/ Has(inbox'[q], {"peer_joined"})
    BY <1>1, <1>2, <1>3, <2>0, HasParts, <1>4, <1>5, <1>6, <1>8, SentHas, RestHas
       DEF ControlAt, Roles, Greeted, Begun, Past
  <2>4. Led(inbox'[q], {"hello", "rejoin"}, Traffic)
    BY <1>1, <1>2, <1>3, <2>0, HasParts, <1>4, <1>5, <1>6, <1>8, SentHas, RestHas
       DEF ControlAt, Roles, Greeted, Begun, Past
  <2> QED BY <2>1, <2>2, <2>3, <2>4
<1> QED BY <1>20, <1>21, <1>22, <1>23, <1>24, <1>25, <1>26, <1>27, <1>28, <1>29 DEF ControlAt

(* It finds that it is not its run. *)
LEMMA ControlNoRun ==
  ASSUME TypeInv, TypeInv', Control, NEW r \in Role, FindsNoRun(r)
  PROVE  ControlAt(r)' /\ ControlAt(Peer(r))'
<1> DEFINE q == Peer(r)
<1> USE DEF Frame, Holding, Joined, Ended, Traffic
<1>1. q \in Role /\ q # r /\ Peer(q) = r
  BY PeerFacts
<1>2. ControlAt(r) /\ ControlAt(q)
  BY <1>1 DEF Control
<1>3. /\ lives[r] \in Nat /\ lives[q] \in Nat /\ lives'[r] \in Nat /\ lives'[q] \in Nat
      /\ status[r] \in Status /\ status[q] \in Status /\ status'[r] \in Status /\ status'[q] \in Status
      /\ inbox[r] \in Seq(Message) /\ inbox[q] \in Seq(Message)
      /\ inbox'[r] \in Seq(Message) /\ inbox'[q] \in Seq(Message)
  BY <1>1 DEF TypeInv, TypeOK
<1>4. /\ status[r] = "barrier" /\ status'[r] = "no_run"
      /\ status'[q] = status[q] /\ lives' = lives
      /\ core'[r] = core[r] /\ core'[q] = core[q] /\ outbox'[r] = outbox[r] /\ outbox'[q] = outbox[q]
      /\ inbox[r] # <<>> /\ Kind(Head(inbox[r])) = "rejoin"
      /\ inbox'[r] = <<>> /\ inbox'[q] = inbox[q]
  BY DEF FindsNoRun, Moves, Does, Gone, Next1
<1>5. Has(inbox[r], {"rejoin"})
  BY <1>4, RestHas
<1>6. lives[q] = 1
  BY <1>1, <1>2, <1>5 DEF ControlAt, RejoinOnce
<1>20. ControlAt(r)'
  BY <1>1, <1>2, <1>3, HasParts, <1>4, <1>5, <1>6, HasFacts, RestHas
     DEF ControlAt, OneDeath, Deaf, Roles, RejoinOnce, ResyncOnce, Resumed, Early, Greeted, Begun, Past
<1>21. ControlAt(q)'
  BY <1>1, <1>2, <1>3, HasParts, <1>4, <1>5, <1>6, HasFacts, RestHas
     DEF ControlAt, OneDeath, Deaf, Roles, RejoinOnce, ResyncOnce, Resumed, Early, Greeted, Begun, Past
<1> QED BY <1>20, <1>21 DEF ControlAt

(* It starts the run. *)
LEMMA ControlStarts ==
  ASSUME TypeInv, TypeInv', Control, NEW r \in Role, Starts(r)
  PROVE  ControlAt(r)' /\ ControlAt(Peer(r))'
<1> DEFINE q == Peer(r)
<1> USE DEF Frame, Holding, Joined, Ended, Traffic
<1>1. q \in Role /\ q # r /\ Peer(q) = r
  BY PeerFacts
<1>2. ControlAt(r) /\ ControlAt(q)
  BY <1>1 DEF Control
<1>3. /\ lives[r] \in Nat /\ lives[q] \in Nat /\ lives'[r] \in Nat /\ lives'[q] \in Nat
      /\ status[r] \in Status /\ status[q] \in Status /\ status'[r] \in Status /\ status'[q] \in Status
      /\ inbox[r] \in Seq(Message) /\ inbox[q] \in Seq(Message)
      /\ inbox'[r] \in Seq(Message) /\ inbox'[q] \in Seq(Message)
  BY <1>1 DEF TypeInv, TypeOK
<1>4. /\ status[r] = "barrier" /\ status'[r] = Loop(core[r]) /\ status'[r] \in {"pump", "closing"}
      /\ status'[q] = status[q] /\ lives' = lives
      /\ core'[r] = core[r] /\ core'[q] = core[q] /\ outbox'[r] = outbox[r] /\ outbox'[q] = outbox[q]
      /\ inbox[r] # <<>> /\ Kind(Head(inbox[r])) = "hello"
      /\ inbox'[r] = Rest(r) /\ inbox'[q] = inbox[q]
  BY DEF Starts, Moves, Does, Kept, Next1, Loop
<1>5. Has(inbox[r], {"hello"}) /\ ~Led(inbox[r], {"peer_joined"}, {"hello"})
  BY <1>4, RestHas
<1>20. ControlAt(r)'
  BY <1>1, <1>2, <1>3, HasParts, <1>4, <1>5, HasFacts, RestHas
     DEF ControlAt, OneDeath, Deaf, Roles, RejoinOnce, ResyncOnce, Resumed, Early, Greeted, Begun, Past
<1>21. ControlAt(q)'
  BY <1>1, <1>2, <1>3, HasParts, <1>4, <1>5, HasFacts, RestHas
     DEF ControlAt, OneDeath, Deaf, Roles, RejoinOnce, ResyncOnce, Resumed, Early, Greeted, Begun, Past
<1> QED BY <1>20, <1>21 DEF ControlAt

(* A waiting process drops what it does not wait for. *)
LEMMA ControlWaits ==
  ASSUME TypeInv, TypeInv', Control, NEW r \in Role, Drops(r), status[r] \in {"barrier", "resync"}
  PROVE  ControlAt(r)' /\ ControlAt(Peer(r))'
<1> DEFINE q == Peer(r)
<1> USE DEF Frame, Holding, Joined, Ended, Traffic
<1>1. q \in Role /\ q # r /\ Peer(q) = r
  BY PeerFacts
<1>2. ControlAt(r) /\ ControlAt(q)
  BY <1>1 DEF Control
<1>3. /\ lives[r] \in Nat /\ lives[q] \in Nat /\ lives'[r] \in Nat /\ lives'[q] \in Nat
      /\ status[r] \in Status /\ status[q] \in Status /\ status'[r] \in Status /\ status'[q] \in Status
      /\ inbox[r] \in Seq(Message) /\ inbox[q] \in Seq(Message)
      /\ inbox'[r] \in Seq(Message) /\ inbox'[q] \in Seq(Message)
  BY <1>1 DEF TypeInv, TypeOK
<1>4. /\ status'[r] = status[r]
      /\ status'[q] = status[q] /\ lives' = lives
      /\ core'[r] = core[r] /\ core'[q] = core[q] /\ outbox'[r] = outbox[r] /\ outbox'[q] = outbox[q]
      /\ inbox[r] # <<>>
      /\ status[r] = "barrier" => Kind(Head(inbox[r])) \notin {"peer_joined", "hello", "rejoin"}
      /\ inbox'[r] = Rest(r) /\ inbox'[q] = inbox[q]
  BY DEF Drops, Moves, Does, Kept
<1>20. ControlAt(r)'
  BY <1>1, <1>2, <1>3, HasParts, <1>4, HasFacts, RestHas
     DEF ControlAt, OneDeath, Deaf, Roles, RejoinOnce, ResyncOnce, Resumed, Early, Greeted, Begun, Past
<1>21. ControlAt(q)'
  BY <1>1, <1>2, <1>3, HasParts, <1>4, HasFacts, RestHas
     DEF ControlAt, OneDeath, Deaf, Roles, RejoinOnce, ResyncOnce, Resumed, Early, Greeted, Begun, Past
<1> QED BY <1>20, <1>21 DEF ControlAt

(* A fresh process is rebuilt from the snapshot. *)
LEMMA ControlResumes ==
  ASSUME TypeInv, TypeInv', Control, NEW r \in Role, Resumes(r)
  PROVE  ControlAt(r)' /\ ControlAt(Peer(r))'
<1> DEFINE q == Peer(r)
<1> USE DEF Frame, Holding, Joined, Ended, Traffic
<1>1. q \in Role /\ q # r /\ Peer(q) = r
  BY PeerFacts
<1>2. ControlAt(r) /\ ControlAt(q)
  BY <1>1 DEF Control
<1>3. /\ lives[r] \in Nat /\ lives[q] \in Nat /\ lives'[r] \in Nat /\ lives'[q] \in Nat
      /\ status[r] \in Status /\ status[q] \in Status /\ status'[r] \in Status /\ status'[q] \in Status
      /\ inbox[r] \in Seq(Message) /\ inbox[q] \in Seq(Message)
      /\ inbox'[r] \in Seq(Message) /\ inbox'[q] \in Seq(Message)
  BY <1>1 DEF TypeInv, TypeOK
<1>4. /\ status[r] = "resync" /\ status'[r] \in {"pump", "closing"}
      /\ status'[q] = status[q] /\ lives' = lives
      /\ core'[q] = core[q] /\ outbox'[r] = outbox[r] /\ outbox'[q] = outbox[q]
      /\ inbox[r] # <<>> /\ Kind(Head(inbox[r])) = "resync"
      /\ inbox'[r] = Rest(r) /\ inbox'[q] = inbox[q]
  BY DEF Resumes, Does, Kept, Next1, Loop
<1>5. Has(inbox[r], {"resync"}) /\ (Has(inbox'[r], {"rejoin"}) => Has(inbox[r], {"rejoin"}))
  BY <1>4, RestHas
<1>6. Begun(q) /\ ~Has(inbox'[r], {"resync", "peer_joined"})
  BY <1>1, <1>2, <1>3, <1>4, <1>5, RestHas DEF ControlAt, ResyncOnce
<1>7. ~Has(inbox[q], {"rejoin"}) /\ ~Has(inbox[r], {"rejoin"})
  BY <1>1, <1>2, <1>3, <1>4, <1>5 DEF ControlAt, RejoinOnce, Roles, OneDeath
<1>20. ControlAt(r)'
  BY <1>1, <1>2, <1>3, HasParts, <1>4, <1>5, <1>6, <1>7, HasFacts, RestHas
     DEF ControlAt, OneDeath, Deaf, Roles, RejoinOnce, ResyncOnce, Resumed, Early, Greeted, Begun, Past
<1>21. ControlAt(q)'
  BY <1>1, <1>2, <1>3, HasParts, <1>4, <1>5, <1>6, <1>7, HasFacts, RestHas
     DEF ControlAt, OneDeath, Deaf, Roles, RejoinOnce, ResyncOnce, Resumed, Early, Greeted, Begun, Past
<1> QED BY <1>20, <1>21 DEF ControlAt

(* The survivor answers the fresh process. *)
LEMMA ControlHandsOver ==
  ASSUME TypeInv, TypeInv', Control, NEW r \in Role, HandsOver(r)
  PROVE  ControlAt(r)' /\ ControlAt(Peer(r))'
<1> DEFINE q == Peer(r)
<1> USE DEF Frame, Holding, Joined, Ended, Traffic
<1>1. q \in Role /\ q # r /\ Peer(q) = r
  BY PeerFacts
<1>2. ControlAt(r) /\ ControlAt(q)
  BY <1>1 DEF Control
<1>3. /\ lives[r] \in Nat /\ lives[q] \in Nat /\ lives'[r] \in Nat /\ lives'[q] \in Nat
      /\ status[r] \in Status /\ status[q] \in Status /\ status'[r] \in Status /\ status'[q] \in Status
      /\ inbox[r] \in Seq(Message) /\ inbox[q] \in Seq(Message)
      /\ inbox'[r] \in Seq(Message) /\ inbox'[q] \in Seq(Message)
  BY <1>1 DEF TypeInv, TypeOK
<1> DEFINE b == [type |-> "resync", state |-> MakeResync(OnPeerLost(core[r]))]
<1>4. /\ status[r] \in {"drain"} \cup Holding /\ status'[r] \in {"pump", "drain"}
      /\ status'[q] = status[q] /\ lives' = lives
      /\ core'[q] = core[q] /\ outbox'[r] = outbox[r] /\ outbox'[q] = outbox[q]
      /\ inbox[r] # <<>> /\ Kind(Head(inbox[r])) = "rejoin"
      /\ inbox'[r] = Rest(r) /\ inbox'[q] = Sent(r, b)
  BY DEF HandsOver, Does, Kept, Next1
<1>5. b \in Message /\ Kind(b) = "resync"
  <2>1. OnPeerLost(core[r]) \in Core
    BY LostTyped DEF TypeInv, TypeOK
  <2> QED BY <2>1, ResyncTyped DEF Message, Kind
<1> HIDE DEF b
<1>6. Has(inbox[r], {"rejoin"})
  BY <1>4, RestHas
<1>7. lives[q] = 1 /\ lives[r] = 0 /\ status[q] \in {"resync", "no_peer"} /\ ~Has(inbox[q], {"resync"})
  BY <1>1, <1>2, <1>3, <1>6 DEF ControlAt, RejoinOnce, OneDeath
<1>8. ~Has(inbox'[r], {"rejoin", "hello"} \cup Traffic) /\ ~Has(inbox[q], {"rejoin"})
  BY <1>1, <1>2, <1>4, <1>7, RestHas DEF ControlAt, RejoinOnce
<1>9. Has(inbox'[q], {"resync"}) => status[q] = "resync"
  <2>1. CASE status[q] \in Joined
    BY <1>7, <2>1
  <2>2. CASE status[q] \notin Joined
    BY <1>4, <1>5, <1>7, <2>2, SentHas
  <2> QED BY <2>1, <2>2
<1>20. ControlAt(r)'
  BY <1>1, <1>2, <1>3, HasParts, <1>4, <1>5, <1>7, <1>8, <1>9, HasFacts, SentHas, RestHas
     DEF ControlAt, OneDeath, Deaf, Roles, RejoinOnce, ResyncOnce, Resumed, Early, Greeted, Begun, Past
<1>21. ControlAt(q)'
  BY <1>1, <1>2, <1>3, HasParts, <1>4, <1>5, <1>7, <1>8, <1>9, HasFacts, SentHas, RestHas
     DEF ControlAt, OneDeath, Deaf, Roles, RejoinOnce, ResyncOnce, Resumed, Early, Greeted, Begun, Past
<1> QED BY <1>20, <1>21 DEF ControlAt

(* Nobody came in time. *)
LEMMA ControlGivesUp ==
  ASSUME TypeInv, TypeInv', Control, NEW r \in Role, Abandons(r), status[r] \in {"barrier", "resync"}
  PROVE  ControlAt(r)' /\ ControlAt(Peer(r))'
<1> DEFINE q == Peer(r)
<1> USE DEF Frame, Holding, Joined, Ended, Traffic
<1>1. q \in Role /\ q # r /\ Peer(q) = r
  BY PeerFacts
<1>2. ControlAt(r) /\ ControlAt(q)
  BY <1>1 DEF Control
<1>3. /\ lives[r] \in Nat /\ lives[q] \in Nat /\ lives'[r] \in Nat /\ lives'[q] \in Nat
      /\ status[r] \in Status /\ status[q] \in Status /\ status'[r] \in Status /\ status'[q] \in Status
      /\ inbox[r] \in Seq(Message) /\ inbox[q] \in Seq(Message)
      /\ inbox'[r] \in Seq(Message) /\ inbox'[q] \in Seq(Message)
  BY <1>1 DEF TypeInv, TypeOK
<1>4. /\ status'[r] = "no_peer"
      /\ status'[q] = status[q] /\ lives' = lives
      /\ core'[r] = core[r] /\ core'[q] = core[q] /\ outbox'[r] = outbox[r] /\ outbox'[q] = outbox[q]
      /\ inbox'[r] = <<>> /\ inbox'[q] = inbox[q]
  BY DEF Abandons, Moves, Does, Gone
<1>20. ControlAt(r)'
  BY <1>1, <1>2, <1>3, HasParts, <1>4, HasFacts
     DEF ControlAt, OneDeath, Deaf, Roles, RejoinOnce, ResyncOnce, Resumed, Early, Greeted, Begun, Past
<1>21. ControlAt(q)'
  BY <1>1, <1>2, <1>3, HasParts, <1>4, HasFacts
     DEF ControlAt, OneDeath, Deaf, Roles, RejoinOnce, ResyncOnce, Resumed, Early, Greeted, Begun, Past
<1> QED BY <1>20, <1>21 DEF ControlAt

(* A process dies. *)
LEMMA ControlDies ==
  ASSUME TypeInv, TypeInv', Control, NEW r \in Role, MaxDeaths <= 1, SessionAssumption, Dies(r)
  PROVE  ControlAt(r)' /\ ControlAt(Peer(r))'
<1> DEFINE q == Peer(r)
<1> USE DEF Frame, Holding, Joined, Ended, Traffic
<1>1. q \in Role /\ q # r /\ Peer(q) = r
  BY PeerFacts
<1>2. ControlAt(r) /\ ControlAt(q)
  BY <1>1 DEF Control
<1>3. /\ lives[r] \in Nat /\ lives[q] \in Nat /\ lives'[r] \in Nat /\ lives'[q] \in Nat
      /\ status[r] \in Status /\ status[q] \in Status /\ status'[r] \in Status /\ status'[q] \in Status
      /\ inbox[r] \in Seq(Message) /\ inbox[q] \in Seq(Message)
      /\ inbox'[r] \in Seq(Message) /\ inbox'[q] \in Seq(Message)
  BY <1>1 DEF TypeInv, TypeOK
<1>4. /\ status[r] \in Joined /\ status'[r] = "offline" /\ status'[q] = status[q]
      /\ lives[r] = 0 /\ lives[q] = 0 /\ lives'[r] = 1 /\ lives'[q] = 0
      /\ core'[r] = NewCore /\ core'[q] = core[q] /\ outbox'[r] = {} /\ outbox'[q] = outbox[q]
      /\ inbox'[r] = <<>> /\ inbox'[q] = inbox[q]
  BY <1>3 DEF Dies, Does, SessionAssumption
<1>20. OneDeath(r)' /\ Deaf(r)' /\ Roles(r)' /\ Resumed(r)' /\ Early(r)'
  BY <1>1, <1>2, <1>3, HasParts, <1>4, HasFacts
     DEF ControlAt, OneDeath, Deaf, Roles, RejoinOnce, ResyncOnce, Resumed, Early, Greeted, Begun, Past
<1>21. RejoinOnce(r)' /\ ResyncOnce(r)'
  BY <1>1, <1>2, <1>3, HasParts, <1>4, HasFacts
     DEF ControlAt, OneDeath, Deaf, Roles, RejoinOnce, ResyncOnce, Resumed, Early, Greeted, Begun, Past
<1>22. Greeted(r)'
  BY <1>1, <1>2, <1>3, HasParts, <1>4, HasFacts
     DEF ControlAt, OneDeath, Deaf, Roles, RejoinOnce, ResyncOnce, Resumed, Early, Greeted, Begun, Past
<1>23. OneDeath(q)' /\ Deaf(q)' /\ Roles(q)' /\ Resumed(q)'
  BY <1>1, <1>2, <1>3, HasParts, <1>4, HasFacts
     DEF ControlAt, OneDeath, Deaf, Roles, RejoinOnce, ResyncOnce, Resumed, Early, Greeted, Begun, Past
<1>24. Early(q)'
  BY <1>1, <1>2, <1>3, HasParts, <1>4, HasFacts
     DEF ControlAt, OneDeath, Deaf, Roles, RejoinOnce, ResyncOnce, Resumed, Early, Greeted, Begun, Past
<1>25. RejoinOnce(q)' /\ ResyncOnce(q)'
  BY <1>1, <1>2, <1>3, HasParts, <1>4, HasFacts
     DEF ControlAt, OneDeath, Deaf, Roles, RejoinOnce, ResyncOnce, Resumed, Early, Greeted, Begun, Past
<1>26. Greeted(q)'
  BY <1>1, <1>2, <1>3, HasParts, <1>4, HasFacts
     DEF ControlAt, OneDeath, Deaf, Roles, RejoinOnce, ResyncOnce, Resumed, Early, Greeted, Begun, Past
<1> QED BY <1>20, <1>21, <1>22, <1>23, <1>24, <1>25, <1>26 DEF ControlAt

(* The relay reports a departure. *)
LEMMA ControlReports ==
  ASSUME TypeInv, TypeInv', Control, NEW r \in Role, Reports(r)
  PROVE  ControlAt(r)' /\ ControlAt(Peer(r))'
<1> DEFINE q == Peer(r)
<1> USE DEF Frame, Holding, Joined, Ended, Traffic
<1>1. q \in Role /\ q # r /\ Peer(q) = r
  BY PeerFacts
<1>2. ControlAt(r) /\ ControlAt(q)
  BY <1>1 DEF Control
<1>3. /\ lives[r] \in Nat /\ lives[q] \in Nat /\ lives'[r] \in Nat /\ lives'[q] \in Nat
      /\ status[r] \in Status /\ status[q] \in Status /\ status'[r] \in Status /\ status'[q] \in Status
      /\ inbox[r] \in Seq(Message) /\ inbox[q] \in Seq(Message)
      /\ inbox'[r] \in Seq(Message) /\ inbox'[q] \in Seq(Message)
  BY <1>1 DEF TypeInv, TypeOK
<1>4. /\ status'[r] = status[r] /\ status'[q] = status[q] /\ lives' = lives
      /\ core'[r] = core[r] /\ core'[q] = core[q] /\ outbox'[r] = outbox[r] /\ outbox'[q] = outbox[q]
      /\ inbox'[r] = inbox[r]
      /\ inbox'[q] = inbox[q] \/ inbox'[q] = Sent(r, [type |-> "peer_left"])
  BY DEF Reports, Moves, Does
<1>5. [type |-> "peer_left"] \in Message /\ Kind([type |-> "peer_left"]) = "peer_left"
  BY PostedFacts DEF Mail, Kind
<1>6. \A A : Led(inbox[q], A, Traffic) => Led(inbox'[q], A, Traffic)
  BY <1>4, <1>5, SentHas
<1>20. ControlAt(r)'
  BY <1>1, <1>2, <1>3, HasParts, <1>4, <1>5, <1>6, SentHas
     DEF ControlAt, OneDeath, Deaf, Roles, RejoinOnce, ResyncOnce, Resumed, Early, Greeted, Begun, Past
<1>21. OneDeath(q)' /\ Deaf(q)' /\ Roles(q)' /\ Resumed(q)'
  BY <1>1, <1>2, <1>3, HasParts, <1>4, <1>5, <1>6, SentHas
     DEF ControlAt, OneDeath, Deaf, Roles, RejoinOnce, ResyncOnce, Resumed, Early, Greeted, Begun, Past
<1>22. Early(q)'
  BY <1>1, <1>2, <1>3, HasParts, <1>4, <1>5, <1>6, SentHas
     DEF ControlAt, OneDeath, Deaf, Roles, RejoinOnce, ResyncOnce, Resumed, Early, Greeted, Begun, Past
<1>23. RejoinOnce(q)' /\ ResyncOnce(q)'
  BY <1>1, <1>2, <1>3, HasParts, <1>4, <1>5, <1>6, SentHas
     DEF ControlAt, OneDeath, Deaf, Roles, RejoinOnce, ResyncOnce, Resumed, Early, Greeted, Begun, Past
<1>24. Greeted(q)'
  BY <1>1, <1>2, <1>3, HasParts, <1>4, <1>5, <1>6, SentHas
     DEF ControlAt, OneDeath, Deaf, Roles, RejoinOnce, ResyncOnce, Resumed, Early, Greeted, Begun, Past
<1> QED BY <1>20, <1>21, <1>22, <1>23, <1>24 DEF ControlAt

(* Anything a process past its barrier does but answer a rejoin hello. *)
LEMMA ControlPlays ==
  ASSUME TypeInv, TypeInv', Control, NEW r \in Role, Plays(r)
  PROVE  ControlAt(r)' /\ ControlAt(Peer(r))'
<1> DEFINE q == Peer(r)
<1> USE DEF Frame, Holding, Joined, Ended, Traffic
<1>1. q \in Role /\ q # r /\ Peer(q) = r
  BY PeerFacts
<1>2. ControlAt(r) /\ ControlAt(q)
  BY <1>1 DEF Control
<1>3. /\ lives[r] \in Nat /\ lives[q] \in Nat /\ lives'[r] \in Nat /\ lives'[q] \in Nat
      /\ status[r] \in Status /\ status[q] \in Status /\ status'[r] \in Status /\ status'[q] \in Status
      /\ inbox[r] \in Seq(Message) /\ inbox[q] \in Seq(Message)
      /\ inbox'[r] \in Seq(Message) /\ inbox'[q] \in Seq(Message)
  BY <1>1 DEF TypeInv, TypeOK
<1>4. /\ status[r] \in Past /\ status'[r] \in Past \cup {"completed", "peer_gone", "quit", "error"}
      /\ status'[q] = status[q] /\ lives' = lives
      /\ core'[q] = core[q] /\ outbox'[q] = outbox[q] /\ (status'[r] # "push" => outbox'[r] = {})
  BY DEF Plays
<1>5. \A K : Has(inbox'[r], K) => Has(inbox[r], K)
  BY <1>3, HasFacts, RestHas DEF Plays
<1>6. \A A, B : NoneBehind(inbox[r], A, B) => NoneBehind(inbox'[r], A, B)
  BY <1>3, HasFacts, RestHas DEF Plays
<1>7. status'[r] \notin Joined => inbox'[r] = <<>>
  BY DEF Plays
<1>8. \/ inbox'[q] = inbox[q]
      \/ \E b \in Message : Kind(b) \in {"command", "commit", "digest"} /\ inbox'[q] = Sent(r, b)
  BY DEF Plays
<1>9. /\ ~Has(inbox[q], {"rejoin"}) /\ (Has(inbox[q], {"resync"}) => status[q] = "resync")
      /\ status[q] = "barrier" => Has(inbox[q], {"hello"}) /\ Has(inbox[q], {"hello", "rejoin"})
  <2>1. ~Has(inbox[q], {"rejoin"})
    BY <1>1, <1>2, <1>4 DEF ControlAt, RejoinOnce, Past
  <2>2. Has(inbox[q], {"resync"}) => status[q] = "resync"
    BY <1>2 DEF ControlAt, ResyncOnce
  <2>3. status[q] = "barrier" => lives[r] = 0
    BY <1>1, <1>2, <1>3, <1>4 DEF ControlAt, OneDeath, Resumed, Begun, Past
  <2>4. status[q] = "barrier" => Has(inbox[q], {"hello"})
    BY <1>1, <1>2, <1>4, <2>3 DEF ControlAt, Greeted, Begun
  <2> QED BY <1>3, <2>1, <2>2, <2>4, HasFacts
<1>20. ControlAt(r)'
  BY <1>1, <1>2, <1>3, HasParts, <1>4, <1>5, <1>6, <1>7, <1>8, <1>9, SentHas
     DEF ControlAt, OneDeath, Deaf, Roles, RejoinOnce, ResyncOnce, Resumed, Early, Greeted, Begun, Past
<1>21. OneDeath(q)' /\ Deaf(q)' /\ Roles(q)' /\ Resumed(q)' /\ Early(q)'
  BY <1>1, <1>2, <1>3, HasParts, <1>4, <1>5, <1>6, <1>7, <1>8, <1>9, SentHas
     DEF ControlAt, OneDeath, Deaf, Roles, RejoinOnce, ResyncOnce, Resumed, Early, Greeted, Begun, Past
<1>22. RejoinOnce(q)' /\ ResyncOnce(q)'
  BY <1>1, <1>2, <1>3, HasParts, <1>4, <1>5, <1>6, <1>7, <1>8, <1>9, SentHas
     DEF ControlAt, OneDeath, Deaf, Roles, RejoinOnce, ResyncOnce, Resumed, Early, Greeted, Begun, Past
<1>23. Greeted(q)'
  BY <1>1, <1>2, <1>3, HasParts, <1>4, <1>5, <1>6, <1>7, <1>8, <1>9, SentHas
     DEF ControlAt, OneDeath, Deaf, Roles, RejoinOnce, ResyncOnce, Resumed, Early, Greeted, Begun, Past
<1> QED BY <1>20, <1>21, <1>22, <1>23 DEF ControlAt

(* Before anything starts, nobody has said a word. *)
LEMMA ControlInit ==
  ASSUME Init
  PROVE  Control
<1> SUFFICES ASSUME NEW r \in Role PROVE ControlAt(r)
  BY DEF Control
<1>1. Peer(r) \in Role
  BY PeerFacts
<1>2. /\ \A K : ~Has(inbox[r], K) /\ ~Has(inbox[Peer(r)], K)
      /\ \A A, B : NoneBehind(inbox[r], A, B)
  <2>1. inbox[r] = <<>> /\ inbox[Peer(r)] = <<>> /\ <<>> \in Seq(Message)
    BY <1>1 DEF Init
  <2> QED BY <2>1, HasFacts
<1> QED BY <1>1, <1>2
        DEF Init, ControlAt, OneDeath, Deaf, Roles, RejoinOnce, ResyncOnce, Resumed, Early, Greeted,
            Begun, Past, Frame, Holding

(* Every step keeps the control invariant. *)
LEMMA ControlStep ==
  ASSUME SessionAssumption, MaxDeaths <= 1, TypeInv, TypeInv', Sampled, Control, [Next]_vars
  PROVE  Control'
<1>1. CASE UNCHANGED vars
  BY <1>1 DEF vars, Control, ControlAt, OneDeath, Deaf, Roles, RejoinOnce, ResyncOnce, Resumed, Early,
              Greeted, Begun
<1>2. ASSUME NEW r \in Role,
             \/ Bringing(r) \/ Framing(r) \/ Draining(r) \/ Parting(r)
             \/ Greets(r) \/ HandsOver(r) \/ Drops(r) \/ Dies(r) \/ Reports(r)
      PROVE  Control'
  <2>1. Peer(r) \in Role /\ \A x \in Role : x = r \/ x = Peer(r)
    BY PeerFacts
  <2> SUFFICES ControlAt(r)' /\ ControlAt(Peer(r))'
    BY <2>1 DEF Control
  <2>2. Roles(r)
    BY DEF Control, ControlAt
  <2>3. CASE Bringing(r)
    BY <2>3, ControlJoins, ControlSpeaks, ControlNoRun, ControlStarts, ControlResumes DEF Bringing
  <2>4. CASE Plays(r)
    BY <2>4, ControlPlays
  <2>5. CASE Abandons(r) \/ Drops(r)
    BY <2>2, <2>4, <2>5, PlaysMoves, ControlWaits, ControlGivesUp
  <2> QED BY <1>2, <2>2, <2>3, <2>4, <2>5, PlaysMoves, ControlGreets, ControlHandsOver, ControlDies,
             ControlReports DEF Parting
<1> QED BY <1>1, <1>2, StepMoves

(* With one death at most, the control of the two seats is as described.     *)
THEOREM ControlInvariant == MaxDeaths <= 1 => (Spec => []Control)
<1> SUFFICES ASSUME MaxDeaths <= 1 PROVE Spec => []Control
  OBVIOUS
<1>1. Init => Control
  BY ControlInit
<1>2. (TypeInv /\ Sampled) /\ (TypeInv /\ Sampled)' /\ Control /\ [Next]_vars => Control'
  BY ControlStep, SessionAssumption
<1> QED BY <1>1, <1>2, TypeInvariant, PTL DEF Spec

-------------------------------------------------------------------------------
(* What an inbox carries of a peer's play: its commands, its commits, and    *)
(* their order.                                                              *)

Cmds(w) == {w[i].m : i \in {j \in DOMAIN w : w[j].type = "command"}}
Throughs(w) == {w[i].through : i \in {j \in DOMAIN w : w[j].type = "commit"}}

(* Commands in the order they were sent, and none behind its tick's commit.  *)
Flow(w) ==
  \A i, j \in DOMAIN w :
    i < j /\ w[j].type = "command" =>
      /\ w[i].type = "command" => Sooner(w[i].m, w[j].m)
      /\ w[i].type = "commit" => w[i].through < w[j].m.at

(* Pushed behind. *)
LEMMA FlowAppend ==
  ASSUME NEW w \in Seq(Message), NEW b \in Message
  PROVE  LET v == Append(w, b) IN
         /\ b.type = "command" =>
              /\ Cmds(v) = Cmds(w) \cup {b.m} /\ Throughs(v) = Throughs(w)
              /\ Flow(w) /\ (\A x \in Cmds(w) : Sooner(x, b.m)) /\ (\A t \in Throughs(w) : t < b.m.at) =>
                   Flow(v)
         /\ b.type = "commit" =>
              Cmds(v) = Cmds(w) /\ Throughs(v) = Throughs(w) \cup {b.through} /\ (Flow(w) => Flow(v))
         /\ b.type \notin {"command", "commit"} =>
              Cmds(v) = Cmds(w) /\ Throughs(v) = Throughs(w) /\ (Flow(w) => Flow(v))
<1> DEFINE v == Append(w, b)
           n == Len(w)
<1>1. /\ n \in Nat /\ DOMAIN w = 1 .. n /\ DOMAIN v = 1 .. n + 1
      /\ v[n + 1] = b /\ \A i \in 1 .. n : v[i] = w[i]
  OBVIOUS
<1> HIDE DEF v, n
<1>2. \A i \in 1 .. n + 1 : i \in 1 .. n \/ i = n + 1
  BY <1>1
<1>3. \A i \in 1 .. n : i \in 1 .. n + 1 /\ i < n + 1
  BY <1>1
<1>4. n + 1 \in 1 .. n + 1 /\ ~(n + 1 < n + 1) /\ \A i \in 1 .. n : ~(n + 1 < i)
  BY <1>1
<1>5. Cmds(v) = Cmds(w) \cup {x \in {b.m} : b.type = "command"}
  BY <1>1, <1>2, <1>3, <1>4 DEF Cmds
<1>6. Throughs(v) = Throughs(w) \cup {x \in {b.through} : b.type = "commit"}
  BY <1>1, <1>2, <1>3, <1>4 DEF Throughs
<1>7. ASSUME Flow(w),
             b.type = "command" => (\A x \in Cmds(w) : Sooner(x, b.m)) /\ (\A t \in Throughs(w) : t < b.m.at)
      PROVE  Flow(v)
  <2> SUFFICES ASSUME NEW i \in 1 .. n + 1, NEW j \in 1 .. n + 1, i < j, v[j].type = "command"
               PROVE  /\ v[i].type = "command" => Sooner(v[i].m, v[j].m)
                      /\ v[i].type = "commit" => v[i].through < v[j].m.at
    BY <1>1 DEF Flow
  <2>1. i \in 1 .. n
    BY <1>1, <1>2, <1>4
  <2>2. CASE j \in 1 .. n
    BY <1>1, <1>7, <2>1, <2>2 DEF Flow
  <2>3. CASE j = n + 1
    BY <1>1, <1>7, <2>1, <2>3 DEF Cmds, Throughs
  <2> QED BY <1>2, <2>2, <2>3
<1> QED BY <1>5, <1>6, <1>7 DEF v

(* Consumed from the head. *)
LEMMA FlowTail ==
  ASSUME NEW w \in Seq(Message), w # <<>>
  PROVE  LET v == Tail(w)
             b == Head(w)
         IN
         /\ Flow(w) => Flow(v)
         /\ b.type = "command" =>
              /\ Cmds(w) = Cmds(v) \cup {b.m} /\ Throughs(w) = Throughs(v)
              /\ Flow(w) => \A x \in Cmds(v) : Sooner(b.m, x)
         /\ b.type = "commit" =>
              /\ Cmds(w) = Cmds(v) /\ Throughs(w) = Throughs(v) \cup {b.through}
              /\ Flow(w) => \A x \in Cmds(v) : b.through < x.at
         /\ b.type \notin {"command", "commit"} => Cmds(w) = Cmds(v) /\ Throughs(w) = Throughs(v)
<1> DEFINE v == Tail(w)
           n == Len(w)
<1>1. /\ n \in Nat /\ n > 0 /\ DOMAIN w = 1 .. n /\ DOMAIN v = 1 .. n - 1
      /\ \A i \in 1 .. n - 1 : v[i] = w[i + 1]
      /\ Head(w) = w[1]
  OBVIOUS
<1> HIDE DEF v, n
<1>2. \A i \in 1 .. n : i = 1 \/ (i - 1 \in 1 .. n - 1 /\ w[i] = v[i - 1])
  <2> SUFFICES ASSUME NEW i \in 1 .. n, i # 1 PROVE i - 1 \in 1 .. n - 1 /\ w[i] = v[i - 1]
    OBVIOUS
  <2>1. i - 1 \in 1 .. n - 1 /\ (i - 1) + 1 = i
    BY <1>1
  <2> QED BY <1>1, <2>1
<1>3. \A i \in 1 .. n - 1 : i + 1 \in 1 .. n /\ 1 < i + 1 /\ 1 \in 1 .. n
  BY <1>1
<1>4. 1 \in 1 .. n
  BY <1>1
<1>5. Cmds(w) = Cmds(v) \cup {x \in {w[1].m} : w[1].type = "command"}
  <2>1. \A x \in Cmds(v) : x \in Cmds(w)
    BY <1>1, <1>3 DEF Cmds
  <2>2. ASSUME NEW x \in Cmds(w) PROVE x \in Cmds(v) \/ (w[1].type = "command" /\ x = w[1].m)
    <3>1. PICK i \in 1 .. n : w[i].type = "command" /\ x = w[i].m
      BY <1>1 DEF Cmds
    <3>2. CASE i = 1
      BY <3>1, <3>2
    <3>3. CASE i - 1 \in 1 .. n - 1 /\ w[i] = v[i - 1]
      BY <1>1, <3>1, <3>3 DEF Cmds
    <3> QED BY <1>2, <3>2, <3>3
  <2>3. w[1].type = "command" => w[1].m \in Cmds(w)
    BY <1>1, <1>4 DEF Cmds
  <2> QED BY <2>1, <2>2, <2>3
<1>6. Throughs(w) = Throughs(v) \cup {x \in {w[1].through} : w[1].type = "commit"}
  <2>1. \A x \in Throughs(v) : x \in Throughs(w)
    BY <1>1, <1>3 DEF Throughs
  <2>2. ASSUME NEW x \in Throughs(w) PROVE x \in Throughs(v) \/ (w[1].type = "commit" /\ x = w[1].through)
    <3>1. PICK i \in 1 .. n : w[i].type = "commit" /\ x = w[i].through
      BY <1>1 DEF Throughs
    <3>2. CASE i = 1
      BY <3>1, <3>2
    <3>3. CASE i - 1 \in 1 .. n - 1 /\ w[i] = v[i - 1]
      BY <1>1, <3>1, <3>3 DEF Throughs
    <3> QED BY <1>2, <3>2, <3>3
  <2>3. w[1].type = "commit" => w[1].through \in Throughs(w)
    BY <1>1, <1>4 DEF Throughs
  <2> QED BY <2>1, <2>2, <2>3
<1>7. ASSUME Flow(w) PROVE Flow(v)
  <2> SUFFICES ASSUME NEW i \in 1 .. n - 1, NEW j \in 1 .. n - 1, i < j, v[j].type = "command"
               PROVE  /\ v[i].type = "command" => Sooner(v[i].m, v[j].m)
                      /\ v[i].type = "commit" => v[i].through < v[j].m.at
    BY <1>1 DEF Flow
  <2>1. i + 1 \in 1 .. n /\ j + 1 \in 1 .. n /\ i + 1 < j + 1
    BY <1>3
  <2> QED BY <1>1, <1>7, <2>1 DEF Flow
<1>8. ASSUME Flow(w), NEW x \in Cmds(v)
      PROVE  /\ w[1].type = "command" => Sooner(w[1].m, x)
             /\ w[1].type = "commit" => w[1].through < x.at
  <2>1. PICK j \in 1 .. n - 1 : v[j].type = "command" /\ x = v[j].m
    BY <1>1 DEF Cmds
  <2>2. j + 1 \in 1 .. n /\ 1 < j + 1 /\ w[j + 1] = v[j]
    BY <1>1, <1>3
  <2> QED BY <1>1, <1>4, <1>8, <2>1, <2>2 DEF Flow
<1>9. /\ w[1].type = "command" => Cmds(w) = Cmds(v) \cup {w[1].m}
      /\ w[1].type # "command" => Cmds(w) = Cmds(v)
      /\ w[1].type = "commit" => Throughs(w) = Throughs(v) \cup {w[1].through}
      /\ w[1].type # "commit" => Throughs(w) = Throughs(v)
  BY <1>5, <1>6
<1> QED BY <1>1, <1>7, <1>8, <1>9 DEF v

(* Typed. *)
LEMMA FlowTyped ==
  ASSUME NEW w \in Seq(Message)
  PROVE  Cmds(w) \subseteq Scheduled /\ Throughs(w) \subseteq Nat
<1>1. \A i \in DOMAIN w : w[i] \in Message
  OBVIOUS
<1>2. \A i \in DOMAIN w : (w[i].type = "command" => w[i].m \in Scheduled) /\ (w[i].type = "commit" => w[i].through \in Nat)
  BY <1>1, MessageFacts
<1> QED BY <1>2 DEF Cmds, Throughs

(* Without commands and commits. *)
LEMMA FlowEmpty ==
  ASSUME NEW w \in Seq(Message), ~Has(w, Traffic)
  PROVE  Cmds(w) = {} /\ Throughs(w) = {} /\ Flow(w)
<1>1. \A i \in DOMAIN w : w[i] \in Message
  OBVIOUS
<1>2. \A i \in DOMAIN w : w[i].type \notin {"command", "commit"}
  BY <1>1, KindFacts DEF Has, Traffic
<1> QED BY <1>2 DEF Cmds, Throughs, Flow

(* A snapshot in an inbox: the core its reader is about to be, and what it   *)
(* will then be told.                                                        *)
At(w) == CHOOSE i \in DOMAIN w : w[i].type = "resync"
HeirOf(c, w) == IF Has(w, {"resync"}) THEN AdoptResync(w[At(w)].state) ELSE c
Stream(w) == IF Has(w, {"resync"}) THEN SubSeq(w, At(w) + 1, Len(w)) ELSE w

(* The snapshot is where it is. *)
LEMMA AtFacts ==
  ASSUME NEW w \in Seq(Message), Has(w, {"resync"}), NoneBehind(w, {"resync"}, {"resync", "peer_joined"})
  PROVE  /\ At(w) \in DOMAIN w /\ w[At(w)].type = "resync"
         /\ \A i \in DOMAIN w : w[i].type = "resync" => i = At(w)
<1>1. \A i \in DOMAIN w : w[i] \in Message /\ (Kind(w[i]) = "resync" <=> w[i].type = "resync")
  <2> SUFFICES ASSUME NEW i \in DOMAIN w PROVE w[i] \in Message /\ (Kind(w[i]) = "resync" <=> w[i].type = "resync")
    OBVIOUS
  <2>1. w[i] \in Message
    OBVIOUS
  <2> HIDE <2>1
  <2> QED BY <2>1, KindFacts
<1>2. \E i \in DOMAIN w : w[i].type = "resync"
  BY <1>1 DEF Has
<1>3. At(w) \in DOMAIN w /\ w[At(w)].type = "resync"
  BY <1>2 DEF At
<1>4. ASSUME NEW i \in DOMAIN w, NEW j \in DOMAIN w, w[i].type = "resync", w[j].type = "resync"
      PROVE  ~(i < j)
  BY <1>1, <1>4 DEF NoneBehind
<1>5. DOMAIN w \subseteq Nat
  OBVIOUS
<1>6. ASSUME NEW i \in DOMAIN w, w[i].type = "resync" PROVE i = At(w)
  <2>1. ~(i < At(w)) /\ ~(At(w) < i)
    BY <1>3, <1>4, <1>6
  <2> QED BY <1>3, <1>5, <2>1
<1> QED BY <1>3, <1>6

(* Pushed behind it. *)
LEMMA StreamAppend ==
  ASSUME NEW w \in Seq(Message), NEW b \in Message, NoneBehind(w, {"resync"}, {"resync", "peer_joined"})
  PROVE  LET v == Append(w, b) IN
         /\ Stream(w) \in Seq(Message)
         /\ b.type # "resync" => (\A c : HeirOf(c, v) = HeirOf(c, w)) /\ Stream(v) = Append(Stream(w), b)
         /\ b.type = "resync" /\ ~Has(w, {"resync"}) =>
              (\A c : HeirOf(c, v) = AdoptResync(b.state)) /\ Stream(v) = <<>>
<1> DEFINE v == Append(w, b)
           n == Len(w)
           a == At(w)
<1>1. /\ n \in Nat /\ DOMAIN w = 1 .. n /\ v \in Seq(Message) /\ Len(v) = n + 1 /\ DOMAIN v = 1 .. n + 1
      /\ v[n + 1] = b /\ \A i \in 1 .. n : v[i] = w[i]
  OBVIOUS
<1>2. Has(v, {"resync"}) <=> Has(w, {"resync"}) \/ b.type = "resync"
  BY AppendFacts, KindFacts
<1>3. ~Has(w, {"resync"}) => \A i \in 1 .. n : w[i].type # "resync"
  <2>1. \A i \in 1 .. n : w[i] \in Message
    BY <1>1
  <2> QED BY <1>1, <2>1, KindFacts DEF Has
<1>4. Has(w, {"resync"}) =>
        /\ a \in 1 .. n /\ w[a].type = "resync"
        /\ \A i \in 1 .. n : w[i].type = "resync" => i = a
  BY <1>1, AtFacts
<1>5. CASE ~Has(w, {"resync"})
  <2>1. Stream(w) = w /\ \A c : HeirOf(c, w) = c
    BY <1>5 DEF Stream, HeirOf
  <2>2. b.type # "resync" => Stream(v) = v /\ \A c : HeirOf(c, v) = c
    BY <1>2, <1>5 DEF Stream, HeirOf
  <2>3. ASSUME b.type = "resync"
        PROVE  Stream(v) = <<>> /\ \A c : HeirOf(c, v) = AdoptResync(b.state)
    <3> HIDE DEF v, n
    <3>1. At(v) \in 1 .. n + 1 /\ v[At(v)].type = "resync"
      BY <1>1, <2>3 DEF At
    <3>2. At(v) = n + 1
      BY <1>1, <1>3, <1>5, <3>1
    <3>3. SubSeq(v, n + 2, n + 1) = <<>>
      BY <1>1
    <3> QED BY <1>1, <1>2, <2>3, <3>2, <3>3 DEF Stream, HeirOf
  <2> QED BY <2>1, <2>2, <2>3
<1>6. CASE Has(w, {"resync"})
  <2>1. a \in 1 .. n /\ w[a].type = "resync" /\ \A i \in 1 .. n : w[i].type = "resync" => i = a
    BY <1>4, <1>6
  <2> DEFINE x == Stream(w)
  <2>2. x = SubSeq(w, a + 1, n)
    BY <1>6 DEF Stream
  <2>3. /\ x \in Seq(Message) /\ Len(x) = n - a /\ \A i \in 1 .. n - a : x[i] = w[a + i]
    <3> HIDE DEF x, n, a
    <3>1. a + 1 \in 1 .. n + 1 /\ n \in Nat /\ n - a \in Nat
      BY <1>1, <2>1
    <3>2. \A i \in a + 1 .. n : w[i] \in Message
      BY <1>1, <2>1
    <3>3. x \in Seq(Message)
      BY <1>1, <2>1, <2>2, <3>1, <3>2, SubSeqProperties
    <3>4. Len(x) = n - a
      BY <1>1, <2>1, <2>2, <3>1, <3>2, SubSeqProperties
    <3>5. \A i \in 1 .. n - a : x[i] = w[a + i]
      BY <1>1, <2>1, <2>2, <3>1, <3>2, SubSeqProperties
    <3> QED BY <3>3, <3>4, <3>5
  <2> SUFFICES ASSUME b.type # "resync"
               PROVE  (\A c : HeirOf(c, v) = HeirOf(c, w)) /\ Stream(v) = Append(x, b)
    BY <1>6, <2>3
  <2>4. At(v) = a
    <3> HIDE DEF v, n, a, x
    <3>1. At(v) \in 1 .. n + 1 /\ v[At(v)].type = "resync"
      BY <1>1, <2>1 DEF At
    <3>2. At(v) # n + 1
      BY <1>1, <3>1
    <3> QED BY <1>1, <2>1, <3>1, <3>2
  <2>5. \A c : HeirOf(c, v) = HeirOf(c, w)
    BY <1>1, <1>2, <1>6, <2>1, <2>4 DEF HeirOf
  <2>6. Stream(v) = SubSeq(v, a + 1, n + 1)
    BY <1>1, <1>2, <1>6, <2>4 DEF Stream
  <2>7. SubSeq(v, a + 1, n + 1) = Append(x, b)
    <3> DEFINE y == SubSeq(v, a + 1, n + 1)
               z == Append(x, b)
    <3>1. z \in Seq(Message) /\ Len(z) = n - a + 1 /\ z[n - a + 1] = b /\ \A i \in 1 .. n - a : z[i] = x[i]
      <4> HIDE DEF x, n, a
      <4> QED BY <2>3
    <3>2. /\ y \in Seq(Message) /\ Len(y) = n - a + 1 /\ \A i \in 1 .. n - a + 1 : y[i] = v[a + i]
      <4> HIDE DEF v, n, a, x
      <4>1. a + 1 \in 1 .. (n + 1) + 1 /\ n + 1 \in Nat /\ (n + 1) - a \in Nat
        BY <1>1, <2>1
      <4>2. \A i \in a + 1 .. n + 1 : v[i] \in Message
        BY <1>1, <2>1
      <4>3. y \in Seq(Message)
        BY <1>1, <2>1, <4>1, <4>2, SubSeqProperties
      <4>4. Len(y) = n - a + 1
        BY <1>1, <2>1, <4>1, <4>2, SubSeqProperties
      <4>5. \A i \in 1 .. n - a + 1 : y[i] = v[a + i]
        BY <1>1, <2>1, <4>1, <4>2, SubSeqProperties
      <4> QED BY <4>3, <4>4, <4>5
    <3> HIDE DEF y, z, v, n, a, x
    <3>3. \A i \in 1 .. n - a + 1 : y[i] = z[i]
      <4> SUFFICES ASSUME NEW i \in 1 .. n - a + 1 PROVE y[i] = z[i]
        OBVIOUS
      <4>1. CASE i = n - a + 1
        BY <1>1, <2>1, <3>1, <3>2, <4>1
      <4>2. CASE i \in 1 .. n - a
        <5>1. a + i \in 1 .. n
          BY <1>1, <2>1, <4>2
        <5> QED BY <1>1, <2>3, <3>1, <3>2, <4>2, <5>1
      <4> QED BY <1>1, <2>1, <4>1, <4>2
    <3>4. y = z
      BY <3>1, <3>2, <3>3, SeqEqual
    <3> QED BY <3>4 DEF y, z
  <2> QED BY <2>5, <2>6, <2>7
<1>7. Stream(w) \in Seq(Message)
  <2>1. CASE Has(w, {"resync"})
    BY <1>1, <1>4, <2>1, SubSeqProperties DEF Stream
  <2>2. CASE ~Has(w, {"resync"})
    BY <2>2 DEF Stream
  <2> QED BY <2>1, <2>2
<1> HIDE DEF v
<1> QED BY <1>5, <1>6, <1>7 DEF v

(* Consumed from ahead of it, and consumed itself. *)
LEMMA StreamTail ==
  ASSUME NEW w \in Seq(Message), w # <<>>, NoneBehind(w, {"resync"}, {"resync", "peer_joined"})
  PROVE  LET v == Tail(w)
             b == Head(w)
         IN
         /\ b.type # "resync" /\ Has(w, {"resync"}) => (\A c : HeirOf(c, v) = HeirOf(c, w)) /\ Stream(v) = Stream(w)
         /\ b.type # "resync" /\ ~Has(w, {"resync"}) =>
              (\A c : HeirOf(c, v) = c /\ HeirOf(c, w) = c) /\ Stream(v) = v /\ Stream(w) = w
         /\ b.type = "resync" =>
              (\A c : HeirOf(c, v) = c /\ HeirOf(c, w) = AdoptResync(b.state)) /\ Stream(v) = v /\ Stream(w) = v
<1> DEFINE v == Tail(w)
           n == Len(w)
           a == At(w)
<1>1. /\ n \in Nat /\ n > 0 /\ DOMAIN w = 1 .. n /\ v \in Seq(Message) /\ Len(v) = n - 1 /\ DOMAIN v = 1 .. n - 1
      /\ \A i \in 1 .. n - 1 : v[i] = w[i + 1]
      /\ Head(w) = w[1] /\ w[1] \in Message
  OBVIOUS
<1>2. /\ Has(w, {"resync"}) <=> w[1].type = "resync" \/ Has(v, {"resync"})
      /\ w[1].type = "resync" => ~Has(v, {"resync"})
  <2>1. Has(w, {"resync"}) <=> Kind(Head(w)) \in {"resync"} \/ Has(v, {"resync"})
    BY TailFacts
  <2>2. Kind(Head(w)) \in {"resync"} => ~Has(v, {"resync", "peer_joined"})
    BY TailFacts
  <2>3. Has(v, {"resync", "peer_joined"}) <=> Has(v, {"resync"}) \/ Has(v, {"peer_joined"})
    BY <1>1, HasParts
  <2>4. Kind(Head(w)) \in {"resync"} <=> Head(w).type = "resync"
    <3> HIDE DEF v, n
    <3> QED BY <1>1, KindFacts
  <2> QED BY <1>1, <2>1, <2>2, <2>3, <2>4
<1>3. Has(w, {"resync"}) =>
        /\ a \in 1 .. n /\ w[a].type = "resync"
        /\ \A i \in 1 .. n : w[i].type = "resync" => i = a
  BY <1>1, AtFacts
<1>4. CASE ~Has(w, {"resync"})
  BY <1>1, <1>2, <1>4 DEF Stream, HeirOf
<1>5. CASE w[1].type = "resync"
  <2>1. Has(w, {"resync"}) /\ ~Has(v, {"resync"})
    BY <1>2, <1>5
  <2>2. a = 1
    <3> HIDE DEF a, n
    <3> QED BY <1>1, <1>3, <1>5, <2>1
  <2>3. Stream(w) = SubSeq(w, 2, n)
    BY <2>1, <2>2 DEF Stream
  <2>4. SubSeq(w, 2, n) = v
    BY <1>1
  <2>5. Stream(v) = v /\ \A c : HeirOf(c, v) = c
    BY <2>1 DEF Stream, HeirOf
  <2>6. \A c : HeirOf(c, w) = AdoptResync(w[1].state)
    BY <2>1, <2>2 DEF HeirOf
  <2> HIDE DEF v, n, a
  <2> QED BY <1>1, <1>5, <2>3, <2>4, <2>5, <2>6 DEF v
<1>6. CASE w[1].type # "resync" /\ Has(w, {"resync"})
  <2>1. Has(v, {"resync"})
    BY <1>2, <1>6
  <2>2. a \in 1 .. n /\ w[a].type = "resync" /\ \A i \in 1 .. n : w[i].type = "resync" => i = a
    BY <1>3, <1>6
  <2>3. At(v) = a - 1
    <3> HIDE DEF v, n, a
    <3>1. a # 1 /\ a - 1 \in 1 .. n - 1 /\ v[a - 1] = w[a]
      BY <1>1, <1>6, <2>2
    <3>2. At(v) \in 1 .. n - 1 /\ v[At(v)].type = "resync"
      BY <1>1, <2>2, <3>1 DEF At
    <3>3. At(v) + 1 \in 1 .. n /\ w[At(v) + 1].type = "resync"
      BY <1>1, <3>2
    <3> QED BY <1>1, <2>2, <3>2, <3>3
  <2>4. Stream(w) = SubSeq(w, a + 1, n) /\ Stream(v) = SubSeq(v, a, n - 1)
    <3>1. Stream(w) = SubSeq(w, a + 1, n)
      BY <1>6 DEF Stream
    <3>2. Stream(v) = SubSeq(v, (a - 1) + 1, n - 1)
      <4> HIDE DEF v, n, a
      <4> QED BY <1>1, <2>1, <2>3 DEF Stream
    <3>3. (a - 1) + 1 = a
      BY <1>1, <2>2
    <3> QED BY <3>1, <3>2, <3>3
  <2> DEFINE x == SubSeq(w, a + 1, n)
             y == SubSeq(v, a, n - 1)
  <2>5. /\ x \in Seq(Message) /\ Len(x) = n - a /\ \A i \in 1 .. n - a : x[i] = w[a + i]
    <3> HIDE DEF n, a
    <3>2. \A i \in a + 1 .. n : w[i] \in Message
      BY <1>1, <2>2
    <3>3. x \in Seq(Message)
      BY <1>1, <2>2, <3>2, SubSeqProperties
    <3>4. Len(x) = n - a
      BY <1>1, <2>2, <3>2, SubSeqProperties
    <3>5. \A i \in 1 .. n - a : x[i] = w[a + i]
      BY <1>1, <2>2, <3>2, SubSeqProperties
    <3> HIDE DEF x
    <3> QED BY <3>3, <3>4, <3>5
  <2>6. /\ y \in Seq(Message) /\ Len(y) = n - a /\ \A i \in 1 .. n - a : y[i] = v[a + i - 1]
    <3> HIDE DEF v, n, a
    <3>2. \A i \in a .. n - 1 : v[i] \in Message
      BY <1>1, <2>2
    <3>3. y \in Seq(Message)
      BY <1>1, <2>2, <3>2, SubSeqProperties
    <3>4. Len(y) = n - a
      BY <1>1, <2>2, <3>2, SubSeqProperties
    <3>5. \A i \in 1 .. n - a : y[i] = v[a + i - 1]
      BY <1>1, <2>2, <3>2, SubSeqProperties
    <3> HIDE DEF y
    <3> QED BY <3>3, <3>4, <3>5
  <2> HIDE DEF v, n, a, x, y
  <2>7. \A i \in 1 .. n - a : y[i] = x[i]
    <3> SUFFICES ASSUME NEW i \in 1 .. n - a PROVE y[i] = x[i]
      OBVIOUS
    <3>1. a + i - 1 \in 1 .. n - 1 /\ (a + i - 1) + 1 = a + i
      BY <1>1, <2>2
    <3> QED BY <1>1, <2>5, <2>6, <3>1
  <2>8. x = y
    BY <2>5, <2>6, <2>7, SeqEqual
  <2>9. v[a - 1] = w[a]
    <3>1. a - 1 \in 1 .. n - 1 /\ (a - 1) + 1 = a
      BY <1>1, <1>6, <2>2
    <3> QED BY <1>1, <3>1
  <2>10. \A c : HeirOf(c, v) = HeirOf(c, w)
    <3>1. At(w) = a
      BY DEF a
    <3>2. v[At(v)].state = w[At(w)].state
      BY <2>3, <2>9, <3>1
    <3> QED BY <1>6, <2>1, <3>2 DEF HeirOf
  <2> QED BY <1>1, <1>6, <2>4, <2>8, <2>10 DEF v, x, y
<1> HIDE DEF v
<1> QED BY <1>1, <1>4, <1>5, <1>6 DEF v
-------------------------------------------------------------------------------
(* Each seat's stream of the other's play, through any hand-off.             *)

(* The core a process has or is about to adopt, and what it will then be told. *)
Heir(r) == HeirOf(core[r], inbox[r])
Strm(r) == Stream(inbox[r])

(* A seat that plays or will: a dead one's successor does once it is answered. *)
Alive(r) == lives[r] = 0 \/ Begun(r) \/ Has(inbox[r], {"resync"})

(* A seat that will execute what it is told. *)
Attends(r) == status[r] \in {"barrier"} \cup Frame
Listening(r) == Attends(r) \/ Has(inbox[r], {"resync"})

Expects(c, w, o) == Flow(w) /\ Sound(c, Cmds(w), Throughs(w), o)
Follows(s, o, c, w) == Tied(s, o, c, Cmds(w), Throughs(w))

LinkAt(r) ==
  /\ Whole(core[r]) /\ Whole(Heir(r))
  /\ Listening(r) =>
       /\ Expects(Heir(r), Strm(r), outbox[Peer(r)])
       /\ Alive(Peer(r)) => Follows(Heir(Peer(r)), outbox[Peer(r)], Heir(r), Strm(r))

Links == \A r \in Role : LinkAt(r)

(* Two inboxes that say the same of the peer's play. *)
Same(v, w) ==
  /\ \A c : HeirOf(c, v) = HeirOf(c, w)
  /\ Has(v, {"resync"}) <=> Has(w, {"resync"})
  /\ Cmds(Stream(v)) = Cmds(Stream(w)) /\ Throughs(Stream(v)) = Throughs(Stream(w))
  /\ Flow(Stream(w)) => Flow(Stream(v))

(* The seats' inboxes, one snapshot at most in each, and only while awaited. *)
LEMMA OneSnapshot ==
  ASSUME TypeInv, Control, NEW r \in Role
  PROVE  /\ inbox[r] \in Seq(Message) /\ NoneBehind(inbox[r], {"resync"}, {"resync", "peer_joined"})
         /\ Has(inbox[r], {"resync"}) => status[r] = "resync" /\ Begun(Peer(r))
         /\ status[r] # "resync" => ~Has(inbox[r], {"resync"})
         /\ ~Has(inbox[r], {"resync"}) => Heir(r) = core[r] /\ Strm(r) = inbox[r]
BY DEF TypeInv, TypeOK, Control, ControlAt, ResyncOnce, Heir, HeirOf, Strm, Stream

(* What is adopted is a core, and what travels is typed. *)
LEMMA LinkTyped ==
  ASSUME TypeInv, Control, NEW r \in Role
  PROVE  /\ core[r] \in Core /\ Heir(r) \in Core /\ Strm(r) \in Seq(Message)
         /\ Cmds(Strm(r)) \subseteq Scheduled /\ Throughs(Strm(r)) \subseteq Nat
         /\ outbox[r] \subseteq Scheduled
<1>1. core[r] \in Core /\ outbox[r] \subseteq Scheduled
  BY DEF TypeInv, TypeOK
<1>2. inbox[r] \in Seq(Message) /\ NoneBehind(inbox[r], {"resync"}, {"resync", "peer_joined"})
  BY OneSnapshot
<1>3. Strm(r) \in Seq(Message)
  <2>1. [type |-> "peer_left"] \in Message
    BY PostedFacts DEF Mail
  <2> QED BY <1>2, <2>1, StreamAppend DEF Strm
<1>4. Cmds(Strm(r)) \subseteq Scheduled /\ Throughs(Strm(r)) \subseteq Nat
  BY <1>3, FlowTyped
<1>5. Heir(r) \in Core
  <2>1. CASE Has(inbox[r], {"resync"})
    <3> DEFINE w == inbox[r]
               i == At(w)
    <3> HIDE DEF w
    <3>1. w \in Seq(Message) /\ NoneBehind(w, {"resync"}, {"resync", "peer_joined"}) /\ Has(w, {"resync"})
      BY <1>2, <2>1 DEF w
    <3>2. i \in DOMAIN w /\ w[i].type = "resync"
      BY <3>1, AtFacts
    <3> HIDE DEF i
    <3>3. w[i] \in Message
      BY <3>1, <3>2
    <3>4. AdoptResync(w[i].state) \in Core
      BY <3>2, <3>3, MessageFacts, AdoptTyped
    <3> QED BY <3>1, <3>4 DEF Heir, HeirOf, w, i
  <2>2. CASE ~Has(inbox[r], {"resync"})
    BY <1>1, <2>2 DEF Heir, HeirOf
  <2> QED BY <2>1, <2>2
<1> QED BY <1>1, <1>3, <1>4, <1>5

(* Neither a command, a commit nor a snapshot. *)
Noise(b) == b.type \notin {"command", "commit", "resync"}

(* An inbox says what it says. *)
LEMMA SameItself == \A w : Same(w, w)
BY DEF Same

(* A broadcast that is no play adds nothing to it. *)
LEMMA SameSent ==
  ASSUME TypeInv, Control, NEW r \in Role, NEW b \in Message, Noise(b)
  PROVE  Same(Sent(r, b), inbox[Peer(r)])
<1> DEFINE w == inbox[Peer(r)]
           v == Append(w, b)
<1>1. w \in Seq(Message) /\ NoneBehind(w, {"resync"}, {"resync", "peer_joined"})
  BY OneSnapshot, PeerFacts
<1> HIDE DEF w
<1>2. /\ Stream(w) \in Seq(Message) /\ \A c : HeirOf(c, v) = HeirOf(c, w)
      /\ Stream(v) = Append(Stream(w), b)
  BY <1>1, StreamAppend DEF Noise
<1>3. Has(v, {"resync"}) <=> Has(w, {"resync"})
  BY <1>1, AppendFacts, KindFacts DEF Noise
<1> DEFINE x == Stream(w)
<1> HIDE DEF x
<1>4. /\ Cmds(Append(x, b)) = Cmds(x) /\ Throughs(Append(x, b)) = Throughs(x)
      /\ Flow(x) => Flow(Append(x, b))
  BY <1>2, FlowAppend DEF Noise, x
<1>5. Same(v, w)
  BY <1>2, <1>3, <1>4 DEF Same, x
<1>6. Sent(r, b) = v \/ Sent(r, b) = w
  BY DEF Sent, w
<1> QED BY <1>5, <1>6, SameItself DEF w

(* Nor does consuming one take from it. *)
LEMMA SameRest ==
  ASSUME TypeInv, Control, NEW r \in Role, inbox[r] # <<>>, Head(inbox[r]).type # "resync",
         Noise(Head(inbox[r])) \/ Has(inbox[r], {"resync"})
  PROVE  Same(Rest(r), inbox[r])
<1> DEFINE w == inbox[r]
           v == Tail(w)
<1>1. w \in Seq(Message) /\ NoneBehind(w, {"resync"}, {"resync", "peer_joined"}) /\ w # <<>>
      /\ Head(w).type # "resync" /\ (Noise(Head(w)) \/ Has(w, {"resync"}))
  BY OneSnapshot
<1> HIDE DEF w
<1>2. Has(v, {"resync"}) <=> Has(w, {"resync"})
  <2>1. Head(w) \in Message
    BY <1>1
  <2>2. Has(w, {"resync"}) <=> Kind(Head(w)) \in {"resync"} \/ Has(v, {"resync"})
    BY <1>1, TailFacts
  <2>3. Kind(Head(w)) # "resync"
    BY <1>1, <2>1, KindFacts
  <2> QED BY <2>2, <2>3
<1>3. CASE Has(w, {"resync"})
  <2>1. (\A c : HeirOf(c, v) = HeirOf(c, w)) /\ Stream(v) = Stream(w)
    BY <1>1, <1>3, StreamTail
  <2> QED BY <1>2, <2>1 DEF Same, Rest, w
<1>4. CASE ~Has(w, {"resync"})
  <2>1. (\A c : HeirOf(c, v) = c /\ HeirOf(c, w) = c) /\ Stream(v) = v /\ Stream(w) = w
    BY <1>1, <1>4, StreamTail
  <2>2. Cmds(w) = Cmds(v) /\ Throughs(w) = Throughs(v) /\ (Flow(w) => Flow(v))
    BY <1>1, <1>4, FlowTail DEF Noise
  <2> QED BY <1>2, <2>1, <2>2 DEF Same, Rest, w
<1> QED BY <1>3, <1>4

(* A link whose two ends and whose stream a step leaves as they were. *)
LEMMA LinkStays ==
  ASSUME NEW x \in Role, LinkAt(x), Whole(core'[x]), Whole(Heir(x)'),
         Listening(x)' => /\ Listening(x) /\ Heir(x)' = Heir(x)
                          /\ Same(inbox'[x], inbox[x])
                          /\ outbox'[Peer(x)] = outbox[Peer(x)],
         Alive(Peer(x))' => Alive(Peer(x)) /\ Heir(Peer(x))' = Heir(Peer(x))
  PROVE  LinkAt(x)'
<1>1. Listening(x)' => Expects(Heir(x), Strm(x), outbox[Peer(x)])
  BY DEF LinkAt
<1>2. Listening(x)' => /\ Cmds(Strm(x))' = Cmds(Strm(x)) /\ Throughs(Strm(x))' = Throughs(Strm(x))
                       /\ Flow(Strm(x)) => Flow(Strm(x))'
  BY DEF Same, Strm
<1>3. Listening(x)' => Expects(Heir(x), Strm(x), outbox[Peer(x)])'
  BY <1>1, <1>2 DEF Expects
<1>4. Listening(x)' /\ Alive(Peer(x))' => Follows(Heir(Peer(x)), outbox[Peer(x)], Heir(x), Strm(x))
  BY DEF LinkAt
<1>5. Listening(x)' /\ Alive(Peer(x))' => Follows(Heir(Peer(x)), outbox[Peer(x)], Heir(x), Strm(x))'
  BY <1>2, <1>4 DEF Follows
<1> QED BY <1>3, <1>5 DEF LinkAt

(* A step about nothing the links are made of. *)
Calm(r) ==
  LET q == Peer(r) IN
  /\ core'[r] = core[r] /\ core'[q] = core[q]
  /\ outbox'[r] = outbox[r] /\ outbox'[q] = outbox[q]
  /\ lives' = lives /\ status'[q] = status[q]
  /\ Same(inbox'[q], inbox[q])
  /\ Attends(r)' => Attends(r)
  /\ Begun(r)' => Begun(r) \/ lives[r] = 0
  /\ \/ Same(inbox'[r], inbox[r])
     \/ /\ ~Attends(r)' /\ ~Has(inbox'[r], {"resync"})
        /\ Has(inbox[r], {"resync"}) => ~Begun(r)'

(* What a calm step leaves of the heirs and of what they are told. *)
LEMMA CalmKeeps ==
  ASSUME TypeInv, Control, NEW r \in Role, Calm(r)
  PROVE  LET q == Peer(r) IN
         /\ Heir(q)' = Heir(q) /\ (Listening(q)' => Listening(q)) /\ (Alive(q)' => Alive(q))
         /\ Same(inbox'[q], inbox[q])
         /\ Listening(r)' => Listening(r) /\ Heir(r)' = Heir(r) /\ Same(inbox'[r], inbox[r])
         /\ Alive(r)' => Alive(r) /\ Heir(r)' = Heir(r)
         /\ Heir(r)' = Heir(r) \/ Heir(r)' = NewCore
<1> DEFINE q == Peer(r)
<1>1. q \in Role /\ Peer(q) = r /\ Peer(r) = q
  BY PeerFacts
<1> HIDE DEF q
<1>2. /\ core'[r] = core[r] /\ core'[q] = core[q]
      /\ lives' = lives /\ status'[q] = status[q]
      /\ Same(inbox'[q], inbox[q])
      /\ Attends(r)' => Attends(r)
      /\ Begun(r)' => Begun(r) \/ lives[r] = 0
  BY <1>1 DEF Calm
<1>3. Heir(q)' = Heir(q) /\ (Listening(q)' => Listening(q)) /\ (Alive(q)' => Alive(q))
  <2>1. Has(inbox'[q], {"resync"}) <=> Has(inbox[q], {"resync"})
    BY <1>2 DEF Same
  <2> QED BY <1>2, <2>1 DEF Heir, Same, Listening, Attends, Alive, Begun
<1>4. CASE Same(inbox'[r], inbox[r])
  <2>1. Has(inbox'[r], {"resync"}) <=> Has(inbox[r], {"resync"})
    BY <1>4 DEF Same
  <2>2. Heir(r)' = Heir(r)
    BY <1>2, <1>4 DEF Heir, Same
  <2> QED BY <1>1, <1>2, <1>3, <1>4, <2>1, <2>2 DEF Listening, Alive
<1>5. CASE /\ ~Attends(r)' /\ ~Has(inbox'[r], {"resync"})
           /\ Has(inbox[r], {"resync"}) => ~Begun(r)'
  <2>1. ~Listening(r)'
    BY <1>5 DEF Listening
  <2>2. Heir(r)' = core[r]
    BY <1>2, <1>5 DEF Heir, HeirOf
  <2>3. CASE Has(inbox[r], {"resync"})
    <3>1. status[r] = "resync" /\ lives[r] = 1 /\ core[r] = NewCore
      BY <2>3, OneSnapshot DEF Control, ControlAt, Roles
    <3>2. ~Alive(r)'
      BY <1>2, <1>5, <2>3, <3>1 DEF Alive
    <3> QED BY <1>1, <1>2, <1>3, <2>1, <2>2, <3>1, <3>2
  <2>4. CASE ~Has(inbox[r], {"resync"})
    <3>1. Heir(r) = core[r]
      BY <2>4, OneSnapshot
    <3> QED BY <1>1, <1>2, <1>3, <1>5, <2>1, <2>2, <2>4, <3>1 DEF Alive
  <2> QED BY <2>3, <2>4
<1> QED BY <1>4, <1>5 DEF Calm

(* A step that touches neither cores, pushes nor play leaves both links. *)
LEMMA LinkCalm ==
  ASSUME TypeInv, Control, Links, NEW r \in Role, Calm(r)
  PROVE  Links'
<1> DEFINE q == Peer(r)
<1>1. q \in Role /\ Peer(q) = r /\ Peer(r) = q
  BY PeerFacts
<1> HIDE DEF q
<1>2. /\ core'[r] = core[r] /\ core'[q] = core[q]
      /\ outbox'[r] = outbox[r] /\ outbox'[q] = outbox[q]
      /\ lives' = lives /\ status'[q] = status[q]
      /\ Same(inbox'[q], inbox[q])
      /\ Attends(r)' => Attends(r)
      /\ Begun(r)' => Begun(r) \/ lives[r] = 0
  BY <1>1 DEF Calm
<1>3. Whole(core'[r]) /\ Whole(core'[q]) /\ LinkAt(r) /\ LinkAt(q)
  BY <1>1, <1>2 DEF Links, LinkAt
<1>4. /\ Heir(q)' = Heir(q) /\ (Listening(q)' => Listening(q)) /\ (Alive(q)' => Alive(q))
      /\ Listening(r)' => Listening(r) /\ Heir(r)' = Heir(r) /\ Same(inbox'[r], inbox[r])
      /\ Alive(r)' => Alive(r) /\ Heir(r)' = Heir(r)
      /\ Heir(r)' = Heir(r) \/ Heir(r)' = NewCore
  BY <1>1, CalmKeeps
<1>5. Whole(Heir(r)') /\ Whole(Heir(q)')
  BY <1>3, <1>4, LinkNew DEF LinkAt
<1>6. LinkAt(r)'
  BY <1>1, <1>2, <1>3, <1>4, <1>5, LinkStays
<1>7. LinkAt(q)'
  BY <1>1, <1>2, <1>3, <1>4, <1>5, LinkStays
<1> QED BY <1>1, <1>6, <1>7, PeerFacts DEF Links

(* What the head of an inbox can be told by its kind. *)
LEMMA HeadKinds ==
  ASSUME TypeInv, NEW r \in Role, inbox[r] # <<>>
  PROVE  LET b == Head(inbox[r]) IN
         /\ b \in Message
         /\ Kind(b) = "resync" <=> b.type = "resync"
         /\ Kind(b) = "command" <=> b.type = "command"
         /\ Kind(b) = "commit" <=> b.type = "commit"
         /\ Kind(b) = "digest" <=> b.type = "digest"
<1>1. Head(inbox[r]) \in Message
  BY DEF TypeInv, TypeOK
<1> QED BY <1>1, KindFacts

(* What the calm moves push is no play. *)
LEMMA CalmMail ==
  ASSUME TypeInv, Control, NEW r \in Role
  PROVE  /\ Same(Sent(r, Hello(r)), inbox[Peer(r)])
         /\ Same(Sent(r, [type |-> "peer_joined"]), inbox[Peer(r)])
         /\ Same(Sent(r, [type |-> "peer_left"]), inbox[Peer(r)])
         /\ Same(Sent(r, [type |-> "digest", log |-> core[r].ran]), inbox[Peer(r)])
         /\ Same(inbox[r], inbox[r]) /\ Same(inbox[Peer(r)], inbox[Peer(r)])
<1>1. Same(Sent(r, Hello(r)), inbox[Peer(r)])
  <2>1. Hello(r) \in Message /\ Noise(Hello(r))
    BY HelloKind DEF Hello, Noise
  <2> QED BY <2>1, SameSent
<1>2. Same(Sent(r, [type |-> "peer_joined"]), inbox[Peer(r)])
  <2> DEFINE b == [type |-> "peer_joined"]
  <2>1. b \in Message /\ Noise(b)
    BY PostedFacts DEF Mail, Noise
  <2> HIDE DEF b
  <2>2. Same(Sent(r, b), inbox[Peer(r)])
    BY <2>1, SameSent
  <2> QED BY <2>2 DEF b
<1>3. Same(Sent(r, [type |-> "peer_left"]), inbox[Peer(r)])
  <2> DEFINE b == [type |-> "peer_left"]
  <2>1. b \in Message /\ Noise(b)
    BY PostedFacts DEF Mail, Noise
  <2> HIDE DEF b
  <2>2. Same(Sent(r, b), inbox[Peer(r)])
    BY <2>1, SameSent
  <2> QED BY <2>2 DEF b
<1>4. Same(Sent(r, [type |-> "digest", log |-> core[r].ran]), inbox[Peer(r)])
  <2> DEFINE b == [type |-> "digest", log |-> core[r].ran]
  <2>1. core[r].ran \in SUBSET Executed
    BY DEF TypeInv, TypeOK, Core
  <2>2. b \in Message /\ Noise(b)
    BY <2>1, PostedFacts DEF Mail, Noise
  <2> HIDE DEF b
  <2>3. Same(Sent(r, b), inbox[Peer(r)])
    BY <2>2, SameSent
  <2> QED BY <2>3 DEF b
<1> QED BY <1>1, <1>2, <1>3, <1>4, SameItself

(* Bring-up, greetings, what is dropped, the exits and the digest exchange are calm. *)
LEMMA CalmMoves ==
  ASSUME TypeInv, Control, NEW r \in Role,
         \/ Joins(r) \/ Greets(r) \/ FindsNoRun(r) \/ Starts(r) \/ Drops(r) \/ TakesDigest(r)
         \/ Abandons(r) \/ TellsDigest(r) \/ Completes(r) \/ Reports(r)
         \/ (Speaks(r) /\ lives[r] > 0)
  PROVE  Calm(r)
<1> DEFINE q == Peer(r)
<1>1. /\ Roles(r) /\ Greeted(r) /\ OneDeath(r)
      /\ lives[r] \in Nat
  BY DEF Control, ControlAt, TypeInv, TypeOK
<1>2. status[r] # "resync" => ~Has(inbox[r], {"resync"})
  BY OneSnapshot
<1>3. inbox[r] # <<>> => Head(inbox[r]) \in Message
  BY HeadKinds
<1>0. ~Has(<<>>, {"resync"})
  BY DEF Has
<1>4. \A c : Loop(c) \in {"closing", "pump"}
  BY DEF Loop
<1> USE DEF Moves, Does, Kept, Gone, Next1, Attends, Begun, Frame, Past, Holding
<1>5. CASE Joins(r)
  BY <1>5, CalmMail DEF Joins, Calm
<1>6. CASE Speaks(r) /\ lives[r] > 0
  BY <1>6, CalmMail DEF Speaks, Calm
<1>7. CASE Greets(r)
  <2>1. Head(inbox[r]).type = "peer_joined" /\ inbox[r] # <<>>
    BY <1>3, <1>7, KindFacts DEF Greets
  <2>2. Same(Rest(r), inbox[r])
    BY <2>1, SameRest DEF Noise
  <2> QED BY <1>7, <2>2, CalmMail DEF Greets, Calm
<1>8. CASE FindsNoRun(r)
  BY <1>0, <1>2, <1>8, CalmMail DEF FindsNoRun, Calm
<1>9. CASE Starts(r)
  <2>1. Head(inbox[r]).type = "hello" /\ inbox[r] # <<>>
    BY <1>3, <1>9, KindFacts DEF Starts
  <2>2. Same(Rest(r), inbox[r])
    BY <2>1, SameRest DEF Noise
  <2>3. lives[r] = 0
    BY <1>1, <1>9 DEF Starts, Roles
  <2> QED BY <1>4, <1>9, <2>2, <2>3, CalmMail DEF Starts, Calm
<1>10. CASE Drops(r)
  <2>1. inbox[r] # <<>> /\ core'[r] = core[r] /\ status'[r] = status[r] /\ inbox'[r] = Rest(r)
        /\ core'[q] = core[q] /\ outbox'[r] = outbox[r] /\ outbox'[q] = outbox[q]
        /\ lives' = lives /\ status'[q] = status[q] /\ inbox'[q] = inbox[q]
    BY <1>10 DEF Drops
  <2>2. CASE status[r] \in {"barrier", "drain"} \/ (status[r] = "resync" /\ Has(inbox[r], {"resync"}))
    <3>1. CASE status[r] = "barrier"
      <4>1. Kind(Head(inbox[r])) \notin Traffic
        BY <1>1, <2>1, <3>1, RestHas DEF Greeted
      <4>2. Noise(Head(inbox[r]))
        BY <2>1, <4>1, HeadKinds DEF Noise, Traffic
      <4>3. Head(inbox[r]).type # "resync"
        BY <4>2 DEF Noise
      <4> QED BY <2>1, <4>2, <4>3, SameRest, CalmMail DEF Calm
    <3>2. CASE status[r] = "drain"
      <4>1. Kind(Head(inbox[r])) \in {"hello", "resync"}
        BY <1>10, <3>2 DEF Drops
      <4>2. Kind(Head(inbox[r])) # "resync"
        BY <1>2, <2>1, <3>2, RestHas
      <4>3. Noise(Head(inbox[r])) /\ Head(inbox[r]).type # "resync"
        BY <2>1, <4>1, <4>2, HeadKinds DEF Noise
      <4> QED BY <2>1, <4>3, SameRest, CalmMail DEF Calm
    <3>3. CASE status[r] = "resync" /\ Has(inbox[r], {"resync"})
      <4>1. Kind(Head(inbox[r])) # "resync"
        BY <1>10, <3>3 DEF Drops
      <4>2. Head(inbox[r]).type # "resync"
        BY <2>1, <4>1, HeadKinds
      <4> QED BY <2>1, <3>3, <4>2, SameRest, CalmMail DEF Calm
    <3> QED BY <2>2, <3>1, <3>2, <3>3
  <2>3. CASE status[r] \in Holding \cup {"digest", "resync"} /\ ~Has(inbox[r], {"resync"})
    <3>1. ~Has(Rest(r), {"resync"})
      BY <2>1, <2>3, RestHas
    <3> QED BY <2>1, <2>3, <3>1, CalmMail DEF Calm
  <2> QED BY <1>2, <1>10, <2>2, <2>3 DEF Drops
<1>11. CASE TakesDigest(r)
  <2>1. Head(inbox[r]).type = "digest" /\ inbox[r] # <<>>
    BY <1>3, <1>11, KindFacts DEF TakesDigest
  <2>2. Same(Rest(r), inbox[r])
    BY <2>1, SameRest DEF Noise
  <2> QED BY <1>11, <2>2, CalmMail DEF TakesDigest, Calm
<1>12. CASE Abandons(r)
  BY <1>0, <1>2, <1>12, CalmMail DEF Abandons, Calm
<1>13. CASE TellsDigest(r)
  BY <1>0, <1>2, <1>13, CalmMail DEF TellsDigest, Calm
<1>14. CASE Completes(r)
  BY <1>0, <1>2, <1>14, CalmMail DEF Completes, Calm
<1>15. CASE Reports(r)
  BY <1>15, CalmMail DEF Reports, Calm
<1> QED BY <1>5, <1>6, <1>7, <1>8, <1>9, <1>10, <1>11, <1>12, <1>13, <1>14, <1>15

(* The first hello: nobody has answered it, and nothing was sent to it. *)
LEMMA LinkSpeaks ==
  ASSUME TypeInv, Control, Links, NEW r \in Role, Speaks(r), lives[r] = 0
  PROVE  Links'
<1> DEFINE q == Peer(r)
<1>1. q \in Role /\ Peer(q) = r /\ Peer(r) = q
  BY PeerFacts
<1> HIDE DEF q
<1>2. /\ status[r] = "joining" /\ status'[r] = "barrier" /\ status'[q] = status[q]
      /\ core'[r] = core[r] /\ core'[q] = core[q] /\ outbox'[r] = outbox[r] /\ outbox'[q] = outbox[q]
      /\ inbox'[r] = inbox[r] /\ inbox'[q] = Sent(r, Hello(r)) /\ lives' = lives
  BY <1>1 DEF Speaks, Moves, Does, Kept
<1>3. /\ status[q] \in {"offline", "joining", "barrier", "resync", "no_peer"}
      /\ ~Has(inbox[q], {"hello", "rejoin"} \cup Traffic) /\ ~Has(inbox[r], Traffic)
  BY <1>1, <1>2 DEF Control, ControlAt, Early
<1>4. core[r] = NewCore /\ core[q] = NewCore /\ outbox[r] = {} /\ outbox[q] = {}
  BY <1>1, <1>2, <1>3 DEF Control, ControlAt, Roles
<1>5. inbox[r] \in Seq(Message) /\ inbox[q] \in Seq(Message)
  BY <1>1 DEF TypeInv, TypeOK
<1>6. ~Has(inbox[r], {"resync"}) /\ ~Has(inbox[q], {"resync"})
  BY <1>3 DEF Has, Traffic
<1>7. Same(inbox'[q], inbox[q])
  BY <1>1, <1>2, CalmMail
<1>8. Has(inbox'[q], {"resync"}) <=> Has(inbox[q], {"resync"})
  BY <1>7 DEF Same
<1>9. Heir(r) = core[r] /\ Heir(r)' = core[r] /\ Heir(q) = core[q] /\ Heir(q)' = core[q] /\ Strm(r)' = inbox[r]
  BY <1>2, <1>6, <1>8 DEF Heir, HeirOf, Strm, Stream
<1>10. Cmds(inbox[r]) = {} /\ Throughs(inbox[r]) = {} /\ Flow(inbox[r])
  BY <1>3, <1>5, FlowEmpty
<1>11. LinkAt(q)'
  <2>1. Listening(q)' => Listening(q)
    BY <1>2, <1>8 DEF Listening, Attends
  <2>2. Alive(r)
    BY DEF Alive
  <2>3. LinkAt(q) /\ Whole(core'[q]) /\ Whole(Heir(q)')
    BY <1>1, <1>2, <1>9 DEF Links, LinkAt
  <2> QED BY <1>1, <1>2, <1>7, <1>9, <2>1, <2>2, <2>3, LinkStays
<1>12. LinkAt(r)'
  <2>1. Expects(NewCore, inbox[r], {}) /\ Follows(NewCore, {}, NewCore, inbox[r]) /\ Whole(NewCore)
    BY <1>10, LinkNew DEF Expects, Follows
  <2>2. Expects(Heir(r)', Strm(r)', outbox'[q]) /\ Follows(Heir(q)', outbox'[q], Heir(r)', Strm(r)')
    BY <1>2, <1>4, <1>9, <2>1
  <2>3. Whole(core'[r]) /\ Whole(Heir(r)')
    BY <1>2, <1>4, <1>9, <2>1
  <2> QED BY <1>1, <2>2, <2>3 DEF LinkAt
<1> QED BY <1>1, <1>11, <1>12, PeerFacts DEF Links

(* A snapshot taken makes of a process the heir it was. *)
LEMMA TakenUp ==
  ASSUME TypeInv, Control, NEW r \in Role, Resumes(r)
  PROVE  LET q == Peer(r) IN
         /\ status[r] = "resync" /\ status'[r] = Loop(core'[r]) /\ status'[q] = status[q]
         /\ core'[r] = Heir(r) /\ core'[q] = core[q] /\ lives' = lives /\ played' = played
         /\ outbox'[r] = outbox[r] /\ outbox'[q] = outbox[q] /\ digest'[r] = digest[r] /\ digest'[q] = digest[q]
         /\ inbox[r] # <<>> /\ inbox'[r] = Rest(r) /\ inbox'[q] = inbox[q]
         /\ ~Has(inbox'[r], {"resync"}) /\ Listening(r) /\ Alive(r)
         /\ Heir(r)' = Heir(r) /\ Heir(q)' = Heir(q) /\ Strm(r)' = Strm(r) /\ Strm(q)' = Strm(q)
         /\ (Alive(q)' => Alive(q)) /\ (Listening(q)' => Listening(q))
<1> DEFINE q == Peer(r)
           c == AdoptResync(Head(inbox[r]).state)
<1>1. q \in Role /\ Peer(q) = r /\ Peer(r) = q
  BY PeerFacts
<1> HIDE DEF q, c
<1>2. /\ status[r] = "resync" /\ status'[r] = Loop(c) /\ status'[q] = status[q]
      /\ core'[r] = c /\ core'[q] = core[q] /\ outbox'[r] = outbox[r] /\ outbox'[q] = outbox[q]
      /\ digest'[r] = digest[r] /\ digest'[q] = digest[q] /\ lives' = lives /\ played' = played
      /\ inbox'[r] = Rest(r) /\ inbox'[q] = inbox[q]
      /\ inbox[r] # <<>> /\ Kind(Head(inbox[r])) = "resync"
  BY <1>1 DEF Resumes, Does, Kept, Next1, c, q
<1>3. /\ inbox[r] \in Seq(Message) /\ NoneBehind(inbox[r], {"resync"}, {"resync", "peer_joined"})
      /\ Head(inbox[r]).type = "resync"
  BY <1>2, OneSnapshot, HeadKinds
<1>4. Has(inbox[r], {"resync"}) /\ ~Has(inbox'[r], {"resync"})
  <2>1. Has(inbox[r], {"resync"})
    BY <1>2, RestHas
  <2>2. ~Has(Rest(r), {"resync", "peer_joined"})
    BY <1>2, <1>3, RestHas
  <2> QED BY <1>2, <2>1, <2>2 DEF Has
<1>5. /\ \A d : HeirOf(d, Tail(inbox[r])) = d /\ HeirOf(d, inbox[r]) = c
      /\ Stream(Tail(inbox[r])) = Tail(inbox[r]) /\ Stream(inbox[r]) = Tail(inbox[r])
  BY <1>2, <1>3, StreamTail DEF c
<1>6. Heir(r) = c /\ Heir(r)' = c /\ Heir(q)' = Heir(q) /\ Strm(r)' = Strm(r) /\ Strm(q)' = Strm(q)
  BY <1>2, <1>5 DEF Heir, Strm, Rest
<1>7. Listening(r) /\ Alive(r)
  BY <1>4 DEF Listening, Alive
<1>8. (Alive(q)' => Alive(q)) /\ (Listening(q)' => Listening(q))
  BY <1>2 DEF Alive, Begun, Listening, Attends
<1> QED BY <1>2, <1>4, <1>6, <1>7, <1>8 DEF q

(* The rebuilt seat plays on as the heir it was. *)
LEMMA LinkResumes ==
  ASSUME TypeInv, Control, Links, NEW r \in Role, Resumes(r)
  PROVE  Links'
<1> DEFINE q == Peer(r)
           c == Heir(r)
<1>1. q \in Role /\ Peer(q) = r /\ Peer(r) = q
  BY PeerFacts
<1>2. /\ core'[r] = c /\ core'[q] = core[q] /\ outbox'[r] = outbox[r] /\ outbox'[q] = outbox[q]
      /\ inbox'[q] = inbox[q] /\ Listening(r) /\ Alive(r)
      /\ Heir(r)' = c /\ Heir(q)' = Heir(q) /\ Strm(r)' = Strm(r) /\ Strm(q)' = Strm(q)
      /\ (Alive(q)' => Alive(q)) /\ (Listening(q)' => Listening(q))
  BY TakenUp
<1>3. LinkAt(r) /\ LinkAt(q)
  BY <1>1 DEF Links
<1>4. /\ Whole(c) /\ Expects(c, Strm(r), outbox[q])
      /\ Alive(q) => Follows(Heir(q), outbox[q], c, Strm(r))
  BY <1>1, <1>2, <1>3 DEF LinkAt
<1> HIDE DEF q, c
<1>5. LinkAt(q)'
  <2>1. Whole(core'[q]) /\ Whole(Heir(q)')
    BY <1>2, <1>3 DEF LinkAt
  <2>2. Heir(r)' = Heir(r)
    BY <1>2 DEF c
  <2> QED BY <1>1, <1>2, <1>3, <2>1, <2>2, LinkStays, SameItself
<1>6. LinkAt(r)'
  <2>1. /\ Whole(core'[r]) /\ Whole(Heir(r)') /\ Expects(Heir(r)', Strm(r)', outbox'[q])
        /\ Alive(q)' => Follows(Heir(q)', outbox'[q], Heir(r)', Strm(r)')
    BY <1>2, <1>4
  <2> QED BY <1>1, <2>1 DEF LinkAt
<1> QED BY <1>1, <1>5, <1>6, PeerFacts DEF Links

(* A process dies: what it had not pushed goes, what it had pushed travels on. *)
LEMMA LinkDies ==
  ASSUME TypeInv, Control, Links, NEW r \in Role, Dies(r)
  PROVE  Links'
<1> DEFINE q == Peer(r)
<1>1. q \in Role /\ Peer(q) = r /\ Peer(r) = q
  BY PeerFacts
<1> HIDE DEF q
<1>2. /\ status'[r] = "offline" /\ status'[q] = status[q]
      /\ core'[r] = NewCore /\ core'[q] = core[q] /\ outbox'[r] = {} /\ outbox'[q] = outbox[q]
      /\ inbox'[r] = <<>> /\ inbox'[q] = inbox[q] /\ lives'[r] = lives[r] + 1
  BY <1>1 DEF Dies, Does
<1>3. ~Has(inbox'[r], {"resync"})
  BY <1>2 DEF Has
<1>4. ~Listening(r)' /\ ~Alive(r)' /\ Heir(r)' = NewCore
  <2>1. lives'[r] # 0
    BY <1>2 DEF TypeInv, TypeOK
  <2> QED BY <1>2, <1>3, <2>1 DEF Listening, Attends, Frame, Alive, Begun, Past, Holding, Heir, HeirOf
<1>5. LinkAt(r)'
  BY <1>2, <1>4, LinkNew DEF LinkAt
<1>6. LinkAt(q)'
  <2>1. Heir(q)' = Heir(q) /\ Strm(q)' = Strm(q) /\ (Listening(q)' => Listening(q))
    BY <1>2 DEF Heir, Strm, Listening, Attends
  <2>2. LinkAt(q)
    BY <1>1 DEF Links
  <2>3. Listening(q) => Expects(Heir(q), Strm(q), outbox[r])
    BY <1>1, <2>2 DEF LinkAt
  <2>4. Listening(q) => Expects(Heir(q), Strm(q), {})
    BY <1>1, <2>3, LinkTyped, LinkOrphaned DEF Expects
  <2>5. Whole(core'[q]) /\ Whole(Heir(q)')
    BY <1>2, <2>1, <2>2 DEF LinkAt
  <2> QED BY <1>1, <1>2, <1>4, <2>1, <2>4, <2>5 DEF LinkAt
<1> QED BY <1>1, <1>5, <1>6, PeerFacts DEF Links

(* A seat that has stopped attending, its half of the link as it was.  *)
LEMMA LinkHolds ==
  ASSUME TypeInv, Control, Links, NEW r \in Role, Holds(r)
  PROVE  Links'
<1> DEFINE q == Peer(r)
           c == OnPeerLost(core[r])
<1>1. q \in Role /\ Peer(q) = r /\ Peer(r) = q
  BY PeerFacts
<1> HIDE DEF q, c
<1>2. /\ status[r] = "drain" /\ status'[r] = "hold" /\ status'[q] = status[q]
      /\ core'[r] = c /\ core'[q] = core[q] /\ outbox'[r] = outbox[r] /\ outbox'[q] = outbox[q]
      /\ inbox'[r] = Rest(r) /\ inbox'[q] = inbox[q] /\ lives' = lives /\ inbox[r] # <<>>
  BY <1>1 DEF Holds, Does, Kept, Next1, c, q
<1>3. ~Has(inbox[r], {"resync"}) /\ Heir(r) = core[r] /\ Strm(r) = inbox[r]
  BY <1>2, OneSnapshot
<1>4. ~Has(inbox'[r], {"resync"})
  BY <1>2, <1>3, RestHas
<1>5. Heir(r)' = c /\ Heir(q)' = Heir(q) /\ Strm(q)' = Strm(q) /\ ~Listening(r)' /\ Alive(r)
  BY <1>2, <1>4 DEF Heir, HeirOf, Strm, Listening, Attends, Frame, Alive, Begun, Past
<1>6. core[r] \in Core /\ LinkAt(r) /\ LinkAt(q)
  BY <1>1, LinkTyped DEF Links
<1>7. c.own = core[r].own /\ c.next_sample = core[r].next_sample /\ c.step = core[r].step
  BY <1>6, LostTyped DEF c
<1>8. Whole(c)
  BY <1>6, LostWhole DEF LinkAt, c
<1>9. LinkAt(r)'
  BY <1>2, <1>5, <1>8 DEF LinkAt
<1>10. LinkAt(q)'
  <2>1. Listening(q)' => Listening(q)
    BY <1>2 DEF Listening, Attends
  <2>2. Listening(q) => Expects(Heir(q), Strm(q), outbox[r]) /\ Follows(core[r], outbox[r], Heir(q), Strm(q))
    BY <1>1, <1>3, <1>5, <1>6 DEF LinkAt
  <2>3. Listening(q) => Follows(c, outbox[r], Heir(q), Strm(q))
    BY <1>7, <2>2, SameSender DEF Follows
  <2>4. Whole(core'[q]) /\ Whole(Heir(q)')
    BY <1>2, <1>5, <1>6 DEF LinkAt
  <2> QED BY <1>1, <1>2, <1>5, <2>1, <2>2, <2>3, <2>4 DEF LinkAt
<1> QED BY <1>1, <1>9, <1>10, PeerFacts DEF Links

(* The two links of a seat that plays. *)
LEMMA PlayerLinks ==
  ASSUME TypeInv, Control, Links, NEW r \in Role, status[r] \in Frame
  PROVE  LET q == Peer(r) IN
         /\ core[r] \in Core /\ Whole(core[r]) /\ Whole(core[q]) /\ Whole(Heir(q))
         /\ inbox[r] \in Seq(Message) /\ ~Has(inbox[r], {"resync"})
         /\ Expects(core[r], inbox[r], outbox[q])
         /\ Alive(q) => Follows(Heir(q), outbox[q], core[r], inbox[r])
         /\ Listening(q) => Expects(Heir(q), Strm(q), outbox[r]) /\ Follows(core[r], outbox[r], Heir(q), Strm(q))
<1> DEFINE q == Peer(r)
<1>1. q \in Role /\ Peer(q) = r /\ Peer(r) = q
  BY PeerFacts
<1> HIDE DEF q
<1>2. ~Has(inbox[r], {"resync"}) /\ Heir(r) = core[r] /\ Strm(r) = inbox[r] /\ inbox[r] \in Seq(Message)
  BY OneSnapshot DEF Frame
<1>3. Listening(r) /\ Alive(r)
  BY DEF Listening, Attends, Alive, Begun, Past
<1>4. LinkAt(r) /\ LinkAt(q) /\ core[r] \in Core
  BY <1>1, LinkTyped DEF Links
<1>5. /\ Whole(core[r]) /\ Whole(core[q]) /\ Whole(Heir(q))
      /\ Expects(core[r], inbox[r], outbox[q])
      /\ Alive(q) => Follows(Heir(q), outbox[q], core[r], inbox[r])
  BY <1>1, <1>2, <1>3, <1>4 DEF LinkAt
<1>6. Listening(q) => Expects(Heir(q), Strm(q), outbox[r]) /\ Follows(core[r], outbox[r], Heir(q), Strm(q))
  BY <1>1, <1>2, <1>3, <1>4 DEF LinkAt
<1> QED BY <1>2, <1>4, <1>5, <1>6 DEF q

(* And what a step of its owes them. *)
LEMMA LinkPlayed ==
  ASSUME TypeInv, Control, Links, NEW r \in Role, status[r] \in Frame, NEW q, q = Peer(r),
         status'[q] = status[q], core'[q] = core[q], outbox'[q] = outbox[q], lives' = lives,
         ~Has(inbox'[r], {"resync"}),
         Has(inbox'[q], {"resync"}) <=> Has(inbox[q], {"resync"}),
         HeirOf(core[q], inbox'[q]) = HeirOf(core[q], inbox[q]),
         Whole(core'[r]),
         Attends(r)' => /\ Expects(core'[r], inbox'[r], outbox[q])
                        /\ Alive(q) => Follows(Heir(q), outbox[q], core'[r], inbox'[r]),
         Listening(q) => /\ Expects(Heir(q), Strm(q)', outbox'[r])
                         /\ Follows(core'[r], outbox'[r], Heir(q), Strm(q)')
  PROVE  Links'
<1>1. q \in Role /\ Peer(q) = r /\ Peer(r) = q
  BY PeerFacts
<1>2. Heir(r)' = core'[r] /\ Strm(r)' = inbox'[r] /\ (Listening(r)' <=> Attends(r)')
  BY DEF Heir, HeirOf, Strm, Stream, Listening
<1>3. Heir(q)' = Heir(q) /\ (Listening(q)' => Listening(q)) /\ (Alive(q)' => Alive(q))
  BY DEF Heir, Listening, Attends, Alive, Begun
<1>4. Whole(core[q]) /\ Whole(Heir(q))
  BY PlayerLinks
<1>5. LinkAt(r)'
  BY <1>1, <1>2, <1>3 DEF LinkAt
<1>6. LinkAt(q)'
  BY <1>1, <1>2, <1>3, <1>4 DEF LinkAt
<1> QED BY <1>1, <1>5, <1>6, PeerFacts DEF Links

(* What a seat pushes, at the end of the peer's stream. *)
LEMMA StreamSent ==
  ASSUME TypeInv, Control, NEW r \in Role, NEW b \in Message, b.type # "resync"
  PROVE  LET w == inbox[Peer(r)]
             v == Sent(r, b)
         IN
         /\ Has(v, {"resync"}) <=> Has(w, {"resync"})
         /\ \A c : HeirOf(c, v) = HeirOf(c, w)
         /\ Listening(Peer(r)) => Stream(v) = Append(Stream(w), b)
<1> DEFINE q == Peer(r)
           w == inbox[q]
           v == Append(w, b)
<1>1. q \in Role /\ w \in Seq(Message) /\ NoneBehind(w, {"resync"}, {"resync", "peer_joined"})
      /\ (Has(w, {"resync"}) => status[q] = "resync")
  BY OneSnapshot, PeerFacts
<1> HIDE DEF w, q
<1>2. (\A c : HeirOf(c, v) = HeirOf(c, w)) /\ Stream(v) = Append(Stream(w), b)
  BY <1>1, StreamAppend
<1>3. Has(v, {"resync"}) <=> Has(w, {"resync"})
  BY <1>1, AppendFacts, KindFacts
<1>4. CASE status[q] \in Joined
  <2>1. Sent(r, b) = v
    BY <1>4 DEF Sent, q, w
  <2> QED BY <1>2, <1>3, <2>1 DEF w, q
<1>5. CASE status[q] \notin Joined
  <2>1. Sent(r, b) = w
    BY <1>5 DEF Sent, q, w
  <2>2. ~Listening(q)
    BY <1>1, <1>5 DEF Listening, Attends, Frame, Joined, w
  <2> QED BY <2>1, <2>2 DEF w, q
<1> QED BY <1>4, <1>5

(* A pump's commands wait in the outbox: nothing is owed until they are sent. *)
LEMMA LinkPumps ==
  ASSUME TypeInv, Control, Links, NEW r \in Role, Pumps(r)
  PROVE  Links'
<1> DEFINE q == Peer(r)
<1>1. q \in Role /\ Peer(q) = r /\ Peer(r) = q
  BY PeerFacts
<1>2. PICK answers \in [SampleWindow(r, core[r]) -> Feed] :
        /\ core'[r] = Pump(r, core[r], answers) /\ outbox'[r] = Schedule(answers)
  BY DEF Pumps, Does
<1> HIDE DEF q
<1>3. /\ status[r] = "pump" /\ status'[q] = status[q] /\ core'[q] = core[q] /\ outbox'[q] = outbox[q]
      /\ inbox'[r] = inbox[r] /\ inbox'[q] = inbox[q] /\ lives' = lives
  BY <1>1 DEF Pumps, Does, Kept
<1> DEFINE s == core[r]
           d == Pump(r, s, answers)
           o == Schedule(answers)
<1>4. /\ s \in Core /\ Whole(s) /\ inbox[r] \in Seq(Message) /\ ~Has(inbox[r], {"resync"})
      /\ Expects(s, inbox[r], outbox[q])
      /\ Alive(q) => Follows(Heir(q), outbox[q], s, inbox[r])
      /\ Listening(q) => Expects(Heir(q), Strm(q), outbox[r]) /\ Follows(s, outbox[r], Heir(q), Strm(q))
  BY <1>1, <1>3, PlayerLinks DEF Frame
<1>5. outbox[r] = {}
  BY <1>3 DEF Control, ControlAt, Roles
<1>6. d.peer = s.peer /\ d.peer_next = s.peer_next /\ d.step = s.step /\ Whole(d)
  <2>1. d.peer = s.peer /\ d.peer_next = s.peer_next /\ d.step = s.step
    BY <1>4, PumpFacts DEF Whole
  <2>2. Whole(d)
    BY <1>4, PumpWhole
  <2> QED BY <2>1, <2>2
<1>7. /\ Expects(d, inbox[r], outbox[q])
      /\ Alive(q) => Follows(Heir(q), outbox[q], d, inbox[r])
  <2> HIDE DEF d, s
  <2> QED BY <1>4, <1>6, SameReceiver DEF Expects, Follows
<1>8. Listening(q) => Expects(Heir(q), Strm(q), o) /\ Follows(d, o, Heir(q), Strm(q))
  <2> SUFFICES ASSUME Listening(q) PROVE Expects(Heir(q), Strm(q), o) /\ Follows(d, o, Heir(q), Strm(q))
    OBVIOUS
  <2> DEFINE C == Cmds(Strm(q))
             T == Throughs(Strm(q))
  <2>1. C \subseteq Scheduled /\ T \subseteq Nat /\ Heir(q) \in Core
    BY <1>1, LinkTyped
  <2>2. Flow(Strm(q)) /\ Sound(Heir(q), C, T, {}) /\ Tied(s, {}, Heir(q), C, T)
    BY <1>4, <1>5 DEF Expects, Follows
  <2>0. answers \in [SampleWindow(r, s) -> Feed]
    OBVIOUS
  <2> HIDE DEF C, T, s, d, o
  <2>3. Sound(Heir(q), C, T, o) /\ Tied(d, o, Heir(q), C, T)
    BY <1>4, <2>0, <2>1, <2>2, LinkPumped DEF d, o
  <2> QED BY <2>2, <2>3 DEF Expects, Follows, C, T
<1>9. core'[r] = d /\ outbox'[r] = o /\ Strm(q)' = Strm(q)
  BY <1>2, <1>3 DEF Strm
<1> HIDE DEF s, d, o
<1>10. Whole(core'[r]) /\ Expects(core'[r], inbox'[r], outbox[q]) /\ (Alive(q) => Follows(Heir(q), outbox[q], core'[r], inbox'[r]))
  BY <1>3, <1>6, <1>7, <1>9
<1>11. Listening(q) => Expects(Heir(q), Strm(q)', outbox'[r]) /\ Follows(core'[r], outbox'[r], Heir(q), Strm(q)')
  BY <1>8, <1>9
<1>12. status[r] \in Frame /\ HeirOf(core[q], inbox'[q]) = HeirOf(core[q], inbox[q])
       /\ (Has(inbox'[q], {"resync"}) <=> Has(inbox[q], {"resync"})) /\ ~Has(inbox'[r], {"resync"})
  BY <1>3, <1>4 DEF Frame
<1> QED BY <1>1, <1>3, <1>10, <1>11, <1>12, LinkPlayed

(* A seat pushes the first of its commands, or behind the last its commit. *)
LEMMA PushedOne ==
  ASSUME TypeInv, Sampled, Control, NEW r \in Role, PushesCommand(r) \/ PushesCommit(r)
  PROVE  LET q == Peer(r)
             s == core[r]
             o == outbox[r]
         IN
         /\ status[r] = "push" /\ s.next_sample > 0
         /\ core'[r] = s /\ status'[q] = status[q] /\ core'[q] = core[q] /\ outbox'[q] = outbox[q]
         /\ inbox'[r] = inbox[r] /\ lives' = lives
         /\ Has(inbox'[q], {"resync"}) <=> Has(inbox[q], {"resync"})
         /\ HeirOf(core[q], inbox'[q]) = HeirOf(core[q], inbox[q])
         /\ \E b \in Message :
              /\ \/ b.type = "command" /\ b.m \in o /\ outbox'[r] = o \ {b.m} /\ status'[r] = "push"
                    /\ \A x \in o : b.m.at < x.at \/ (b.m.at = x.at /\ b.m.n <= x.n)
                 \/ b.type = "commit" /\ b.through = s.next_sample - 1 /\ outbox'[r] = {} /\ o = {}
              /\ Listening(q) => Strm(q)' = Append(Strm(q), b)
<1> DEFINE q == Peer(r)
           s == core[r]
           o == outbox[r]
<1>1. q \in Role /\ Peer(q) = r /\ Peer(r) = q
  BY PeerFacts
<1>2. status[r] = "push" /\ s.next_sample > 0
  BY DEF PushesCommand, PushesCommit, Sampled
<1>3. s \in Core /\ o \subseteq Scheduled
  BY LinkTyped
<1>4. /\ core'[r] = s /\ status'[q] = status[q] /\ core'[q] = core[q] /\ outbox'[q] = outbox[q]
      /\ inbox'[r] = inbox[r] /\ lives' = lives
  BY DEF PushesCommand, PushesCommit, Moves, Does, Kept
<1>5. PICK b \in Message :
        /\ inbox'[q] = Sent(r, b)
        /\ \/ b.type = "command" /\ b.m \in o /\ outbox'[r] = o \ {b.m} /\ status'[r] = "push"
              /\ \A x \in o : b.m.at < x.at \/ (b.m.at = x.at /\ b.m.n <= x.n)
           \/ b.type = "commit" /\ b.through = s.next_sample - 1 /\ outbox'[r] = {} /\ o = {}
  <2>1. CASE PushesCommand(r)
    <3>1. PICK m \in o : /\ \A x \in o : m.at < x.at \/ (m.at = x.at /\ m.n <= x.n)
                         /\ outbox'[r] = o \ {m} /\ inbox'[q] = Sent(r, [type |-> "command", m |-> m])
                         /\ status'[r] = "push"
      BY <2>1 DEF PushesCommand, Does
    <3> DEFINE b == [type |-> "command", m |-> m]
    <3>2. m \in Scheduled
      BY <1>3
    <3>3. b \in Message /\ b.type = "command" /\ b.m = m
      BY <3>2, PostedFacts DEF Mail
    <3> HIDE DEF b
    <3>4. inbox'[q] = Sent(r, b)
      BY <3>1 DEF b
    <3> QED BY <3>1, <3>3, <3>4
  <2>2. CASE PushesCommit(r)
    <3> DEFINE b == [type |-> "commit", through |-> s.next_sample - 1]
    <3>1. s.next_sample - 1 \in Nat
      BY <1>2, <1>3 DEF Core
    <3>2. b \in Message /\ b.type = "commit" /\ b.through = s.next_sample - 1
      BY <3>1, PostedFacts DEF Mail
    <3>3. inbox'[q] = Sent(r, b) /\ o = {} /\ outbox'[r] = {}
      BY <2>2 DEF PushesCommit, Moves, Does
    <3> HIDE DEF b
    <3> QED BY <3>2, <3>3
  <2> QED BY <2>1, <2>2
<1> HIDE DEF q, s, o
<1>6. /\ Has(inbox'[q], {"resync"}) <=> Has(inbox[q], {"resync"})
      /\ HeirOf(core[q], inbox'[q]) = HeirOf(core[q], inbox[q])
      /\ Listening(q) => Strm(q)' = Append(Strm(q), b)
  BY <1>5, StreamSent DEF Strm, q
<1> QED BY <1>2, <1>4, <1>5, <1>6 DEF q, s, o

(* What is pushed moves from the outbox to the peer's stream. *)
LEMMA LinkPushes ==
  ASSUME TypeInv, Sampled, Control, Links, NEW r \in Role, PushesCommand(r) \/ PushesCommit(r)
  PROVE  Links'
<1> DEFINE q == Peer(r)
           s == core[r]
           o == outbox[r]
<1>1. q \in Role /\ Peer(q) = r /\ Peer(r) = q
  BY PeerFacts
<1>2. status[r] = "push" /\ s.next_sample > 0
  BY DEF PushesCommand, PushesCommit, Sampled
<1>3. /\ s \in Core /\ Whole(s) /\ inbox[r] \in Seq(Message) /\ ~Has(inbox[r], {"resync"})
      /\ Expects(s, inbox[r], outbox[q])
      /\ Alive(q) => Follows(Heir(q), outbox[q], s, inbox[r])
      /\ Listening(q) => Expects(Heir(q), Strm(q), o) /\ Follows(s, o, Heir(q), Strm(q))
  BY <1>2, PlayerLinks DEF Frame
<1>4. /\ core'[r] = s /\ status'[q] = status[q] /\ core'[q] = core[q] /\ outbox'[q] = outbox[q]
      /\ inbox'[r] = inbox[r] /\ lives' = lives
      /\ Has(inbox'[q], {"resync"}) <=> Has(inbox[q], {"resync"})
      /\ HeirOf(core[q], inbox'[q]) = HeirOf(core[q], inbox[q])
  BY PushedOne
<1>5. PICK b \in Message :
        /\ \/ b.type = "command" /\ b.m \in o /\ outbox'[r] = o \ {b.m}
              /\ \A x \in o : b.m.at < x.at \/ (b.m.at = x.at /\ b.m.n <= x.n)
           \/ b.type = "commit" /\ b.through = s.next_sample - 1 /\ outbox'[r] = {} /\ o = {}
        /\ Listening(q) => Strm(q)' = Append(Strm(q), b)
  BY PushedOne
<1> HIDE DEF q, s, o
<1>6. /\ Has(inbox'[q], {"resync"}) <=> Has(inbox[q], {"resync"})
      /\ HeirOf(core[q], inbox'[q]) = HeirOf(core[q], inbox[q])
      /\ Listening(q) => Strm(q)' = Append(Strm(q), b)
  BY <1>4, <1>5
<1>7. Listening(q) => Expects(Heir(q), Strm(q)', outbox'[r]) /\ Follows(s, outbox'[r], Heir(q), Strm(q)')
  <2> SUFFICES ASSUME Listening(q)
               PROVE  Expects(Heir(q), Strm(q)', outbox'[r]) /\ Follows(s, outbox'[r], Heir(q), Strm(q)')
    OBVIOUS
  <2> DEFINE w == Strm(q)
             c == Heir(q)
             v == Append(w, b)
             C == Cmds(w)
             T == Throughs(w)
  <2>1. w \in Seq(Message) /\ C \subseteq Scheduled /\ T \subseteq Nat /\ c \in Core /\ o \subseteq Scheduled
    BY <1>1, LinkTyped DEF o
  <2>2. Strm(q)' = v
    BY <1>6
  <2>3. Flow(w) /\ Sound(c, C, T, o) /\ Tied(s, o, c, C, T)
    BY <1>3 DEF Expects, Follows
  <2> HIDE DEF w, c
  <2>4. CASE b.type = "command" /\ b.m \in o /\ outbox'[r] = o \ {b.m}
             /\ \A x \in o : b.m.at < x.at \/ (b.m.at = x.at /\ b.m.n <= x.n)
    <3> DEFINE m == b.m
    <3>1. Cmds(v) = C \cup {m} /\ Throughs(v) = T
          /\ (Flow(w) /\ (\A x \in C : Sooner(x, m)) /\ (\A t \in T : t < m.at) => Flow(v))
      BY <2>1, <2>4, FlowAppend
    <3>2. m \in o /\ outbox'[r] = o \ {m} /\ \A x \in o : m.at < x.at \/ (m.at = x.at /\ m.n <= x.n)
      BY <2>4
    <3> HIDE DEF m, C, T, v
    <3>a. /\ c \in Core /\ C \subseteq Scheduled /\ T \subseteq Nat /\ o \subseteq Scheduled
          /\ Sound(c, C, T, o) /\ m \in o
          /\ \A x \in o : m.at < x.at \/ (m.at = x.at /\ m.n <= x.n)
      BY <2>1, <2>3, <3>2
    <3>b. /\ Sound(c, C \cup {m}, T, o \ {m})
          /\ \A x \in C : Sooner(x, m)
          /\ \A t \in T : t < m.at
          /\ \A z : Tied(z, o, c, C, T) => Tied(z, o \ {m}, c, C \cup {m}, T)
      BY ONLY <3>a, LinkPushed
    <3>3. /\ Sound(c, C \cup {m}, T, o \ {m})
          /\ \A x \in C : Sooner(x, m)
          /\ \A t \in T : t < m.at
          /\ Tied(s, o \ {m}, c, C \cup {m}, T)
      BY <2>3, <3>b
    <3> QED BY <2>2, <2>3, <3>1, <3>2, <3>3 DEF Expects, Follows, c
  <2>5. CASE b.type = "commit" /\ b.through = s.next_sample - 1 /\ outbox'[r] = {} /\ o = {}
    <3> DEFINE t == s.next_sample - 1
    <3>1. Cmds(v) = C /\ Throughs(v) = T \cup {t} /\ Flow(v)
      BY <2>1, <2>3, <2>5, FlowAppend
    <3> HIDE DEF C, T, v
    <3>2. Sound(c, C, T \cup {t}, {}) /\ Tied(s, {}, c, C, T \cup {t})
      BY <1>2, <1>3, <2>1, <2>3, <2>5, LinkCommitted
    <3> QED BY <2>2, <2>5, <3>1, <3>2 DEF Expects, Follows, c
  <2> QED BY <1>5, <2>4, <2>5
<1>8. status[r] \in Frame /\ ~Has(inbox'[r], {"resync"}) /\ Whole(core'[r])
  BY <1>2, <1>3, <1>4 DEF Frame
<1>9. Expects(core'[r], inbox'[r], outbox[q]) /\ (Alive(q) => Follows(Heir(q), outbox[q], core'[r], inbox'[r]))
  BY <1>3, <1>4
<1>10. Listening(q) => Expects(Heir(q), Strm(q)', outbox'[r]) /\ Follows(core'[r], outbox'[r], Heir(q), Strm(q)')
  BY <1>4, <1>7
<1> QED BY <1>1, <1>4, <1>6, <1>8, <1>9, <1>10, LinkPlayed

(* A drained command or commit is one the core accepts. *)
LEMMA LinkTakes ==
  ASSUME TypeInv, Control, Links, NEW r \in Role, status[r] = "drain", Next1(r, {"command", "commit"})
  PROVE  LET q == Peer(r)
             b == Head(inbox[r])
             v == Tail(inbox[r])
         IN
         /\ b.type = "command" =>
              /\ ~CommandRefused(core[r], b.m) /\ Whole(OnPeerCommand(core[r], b.m))
              /\ Expects(OnPeerCommand(core[r], b.m), v, outbox[q])
              /\ Alive(q) => Follows(Heir(q), outbox[q], OnPeerCommand(core[r], b.m), v)
         /\ b.type = "commit" =>
              /\ ~CommitRefused(b.through) /\ Whole(OnPeerCommit(core[r], b.through))
              /\ Expects(OnPeerCommit(core[r], b.through), v, outbox[q])
              /\ Alive(q) => Follows(Heir(q), outbox[q], OnPeerCommit(core[r], b.through), v)
<1> DEFINE q == Peer(r)
           c == core[r]
           w == inbox[r]
           b == Head(w)
           v == Tail(w)
           C == Cmds(v)
           T == Throughs(v)
           s == Heir(q)
           o == outbox[q]
<1>1. /\ c \in Core /\ Whole(c) /\ w \in Seq(Message)
      /\ Expects(c, w, o) /\ (Alive(q) => Follows(s, o, c, w))
  BY PlayerLinks DEF Frame
<1>2. w # <<>> /\ b \in Message /\ v \in Seq(Message)
  BY <1>1 DEF Next1
<1>3. C \subseteq Scheduled /\ T \subseteq Nat /\ o \subseteq Scheduled /\ s \in Core
  BY <1>2, FlowTyped, LinkTyped, PeerFacts
<1>4. /\ Flow(v)
      /\ b.type = "command" =>
           /\ Cmds(w) = C \cup {b.m} /\ Throughs(w) = T /\ b.m \in Scheduled
           /\ \A x \in C : Sooner(b.m, x)
      /\ b.type = "commit" =>
           /\ Cmds(w) = C /\ Throughs(w) = T \cup {b.through} /\ b.through \in Nat
           /\ \A x \in C : b.through < x.at
  BY <1>1, <1>2, FlowTail, MessageFacts DEF Expects
<1>5. Sound(c, Cmds(w), Throughs(w), o) /\ (Alive(q) => Tied(s, o, c, Cmds(w), Throughs(w)))
  BY <1>1 DEF Expects, Follows
<1>6. Alive(q) \in BOOLEAN
  BY DEF Alive
<1> HIDE DEF q, c, w, b, v, C, T, s, o
<1>7. ASSUME b.type = "command"
      PROVE  LET d == OnPeerCommand(c, b.m) IN
             /\ ~CommandRefused(c, b.m) /\ Whole(d) /\ Expects(d, v, o)
             /\ Alive(q) => Follows(s, o, d, v)
  <2> DEFINE m == b.m
             d == OnPeerCommand(c, m)
  <2>1. /\ m \in Scheduled /\ Sound(c, C \cup {m}, T, o) /\ \A x \in C : Sooner(m, x)
        /\ Alive(q) => Tied(s, o, c, C \cup {m}, T)
    BY <1>4, <1>5, <1>7
  <2> HIDE DEF m
  <2>2. ~CommandRefused(c, m)
    BY <1>1, <1>3, <2>1, LinkArrived
  <2>3. Whole(d) /\ Sound(d, C, T, o) /\ \A z : Tied(z, o, c, C \cup {m}, T) => Tied(z, o, d, C, T)
    BY <1>1, <1>3, <2>1, LinkTaken
  <2> HIDE DEF d
  <2>4. Alive(q) => Tied(s, o, d, C, T)
    BY <2>1, <2>3
  <2>5. Whole(d) /\ Expects(d, v, o) /\ (Alive(q) => Follows(s, o, d, v))
    BY <1>4, <2>3, <2>4 DEF Expects, Follows, C, T
  <2> QED BY <2>2, <2>5 DEF d, m
<1>8. ASSUME b.type = "commit"
      PROVE  LET d == OnPeerCommit(c, b.through) IN
             /\ ~CommitRefused(b.through) /\ Whole(d) /\ Expects(d, v, o)
             /\ Alive(q) => Follows(s, o, d, v)
  <2> DEFINE t == b.through
             d == OnPeerCommit(c, t)
  <2>1. /\ t \in Nat /\ Sound(c, C, T \cup {t}, o) /\ \A x \in C : t < x.at
        /\ Alive(q) => Tied(s, o, c, C, T \cup {t})
    BY <1>4, <1>5, <1>8
  <2> HIDE DEF t
  <2>2. ~CommitRefused(t) /\ Whole(d) /\ Sound(d, C, T, o)
        /\ \A z \in Core : Tied(z, o, c, C, T \cup {t}) => Tied(z, o, d, C, T)
    BY <1>1, <1>3, <2>1, LinkHeard
  <2> HIDE DEF d
  <2>3. Alive(q) => Tied(s, o, d, C, T)
    BY <1>3, <2>1, <2>2
  <2>4. Whole(d) /\ Expects(d, v, o) /\ (Alive(q) => Follows(s, o, d, v))
    BY <1>4, <2>2, <2>3 DEF Expects, Follows, C, T
  <2> QED BY <2>2, <2>4 DEF d, t
<1> QED BY <1>7, <1>8 DEF q, c, w, b, v, s, o

(* No command or commit that is drained is one the core refuses. *)
LEMMA NeverFails ==
  ASSUME TypeInv, Control, Links, NEW r \in Role
  PROVE  ~Fails(r)
<1> SUFFICES ASSUME Fails(r) PROVE FALSE
  OBVIOUS
<1>1. status[r] = "drain" /\ Next1(r, {"command", "commit"}) /\ inbox[r] # <<>>
  BY DEF Fails, Next1
<1>2. /\ Kind(Head(inbox[r])) = "command" <=> Head(inbox[r]).type = "command"
      /\ Kind(Head(inbox[r])) = "commit" <=> Head(inbox[r]).type = "commit"
  BY <1>1, HeadKinds
<1> QED BY <1>1, <1>2, LinkTakes DEF Fails, Next1

(* What is drained moves from the stream to the buffer. *)
LEMMA LinkDrains ==
  ASSUME TypeInv, Control, Links, NEW r \in Role, TakesCommand(r) \/ TakesCommit(r)
  PROVE  Links'
<1> DEFINE q == Peer(r)
           b == Head(inbox[r])
           v == Tail(inbox[r])
<1>1. q \in Role /\ Peer(q) = r /\ Peer(r) = q
  BY PeerFacts
<1>2. /\ status[r] = "drain" /\ Next1(r, {"command", "commit"}) /\ inbox[r] # <<>>
      /\ status'[r] = "drain" /\ status'[q] = status[q] /\ core'[q] = core[q]
      /\ outbox'[r] = outbox[r] /\ outbox'[q] = outbox[q]
      /\ inbox'[r] = v /\ inbox'[q] = inbox[q] /\ lives' = lives
  BY DEF TakesCommand, TakesCommit, Next1, Does, Kept, Rest
<1>3. \/ b.type = "command" /\ core'[r] = OnPeerCommand(core[r], b.m)
      \/ b.type = "commit" /\ core'[r] = OnPeerCommit(core[r], b.through)
  BY <1>2, HeadKinds DEF TakesCommand, TakesCommit, Next1, Does
<1>4. /\ core[r] \in Core /\ Whole(core[r])
      /\ inbox[r] \in Seq(Message) /\ ~Has(inbox[r], {"resync"})
      /\ Listening(q) => Expects(Heir(q), Strm(q), outbox[r]) /\ Follows(core[r], outbox[r], Heir(q), Strm(q))
  BY <1>1, <1>2, PlayerLinks DEF Frame
<1>5. /\ Whole(core'[r]) /\ Expects(core'[r], v, outbox[q])
      /\ Alive(q) => Follows(Heir(q), outbox[q], core'[r], v)
  BY <1>2, <1>3, LinkTakes
<1>6. core'[r].own = core[r].own /\ core'[r].next_sample = core[r].next_sample /\ core'[r].step = core[r].step
  BY <1>3, <1>4 DEF OnPeerCommand, OnPeerCommit, Core
<1>7. ~Has(inbox'[r], {"resync"})
  BY <1>2, <1>4, RestHas DEF Rest
<1> HIDE DEF q, b, v
<1>8. Listening(q) => Expects(Heir(q), Strm(q)', outbox'[r]) /\ Follows(core'[r], outbox'[r], Heir(q), Strm(q)')
  <2>1. Strm(q)' = Strm(q)
    BY <1>2 DEF Strm
  <2>2. Listening(q) => Follows(core'[r], outbox[r], Heir(q), Strm(q))
    BY <1>4, <1>6, SameSender DEF Follows
  <2> QED BY <1>2, <1>4, <2>1, <2>2
<1>9. Attends(r)' => /\ Expects(core'[r], inbox'[r], outbox[q])
                     /\ Alive(q) => Follows(Heir(q), outbox[q], core'[r], inbox'[r])
  BY <1>2, <1>5
<1>10. status[r] \in Frame /\ HeirOf(core[q], inbox'[q]) = HeirOf(core[q], inbox[q])
       /\ (Has(inbox'[q], {"resync"}) <=> Has(inbox[q], {"resync"}))
  BY <1>2 DEF Frame
<1> QED BY <1>1, <1>2, <1>5, <1>7, <1>8, <1>9, <1>10, LinkPlayed

(* A frame ends: in the next, at the finish, in silence, or with a quit. *)
LEMMA LinkAdvances ==
  ASSUME TypeInv, Control, Links, NEW r \in Role, EndsFrame(r) \/ FallsSilent(r) \/ Quits(r)
  PROVE  Links'
<1> DEFINE q == Peer(r)
           s == core[r]
           d == Advance(r, s)
           o == outbox[r]
<1>1. q \in Role /\ Peer(q) = r /\ Peer(r) = q
  BY PeerFacts
<1>2. /\ status[r] = "drain" /\ status'[q] = status[q] /\ core'[q] = core[q]
      /\ outbox'[r] = o /\ outbox'[q] = outbox[q]
      /\ inbox'[q] = inbox[q] /\ lives' = lives
      /\ inbox'[r] = inbox[r] \/ inbox'[r] = <<>>
      /\ core'[r] = d \/ (core'[r] = OnPeerLost(d) /\ ~Attends(r)')
      /\ Attends(r)' => inbox'[r] = inbox[r]
  BY DEF EndsFrame, FallsSilent, Quits, Does, Gone, Attends, Frame
<1>3. /\ s \in Core /\ Whole(s) /\ inbox[r] \in Seq(Message) /\ ~Has(inbox[r], {"resync"})
      /\ Expects(s, inbox[r], outbox[q])
      /\ Alive(q) => Follows(Heir(q), outbox[q], s, inbox[r])
      /\ Listening(q) => Expects(Heir(q), Strm(q), o) /\ Follows(s, o, Heir(q), Strm(q))
  BY <1>1, <1>2, PlayerLinks DEF Frame
<1>4. Whole(d) /\ d \in Core
  BY <1>3, AdvanceKeeps
<1>5. Heir(q) \in Core /\ Strm(q) \in Seq(Message) /\ o \subseteq Scheduled /\ outbox[q] \subseteq Scheduled
  BY <1>1, LinkTyped
<1>6. Cmds(inbox[r]) \subseteq Scheduled /\ Cmds(Strm(q)) \subseteq Scheduled
  BY <1>3, <1>5, FlowTyped
<1>7. Expects(d, inbox[r], outbox[q]) /\ (Alive(q) => Follows(Heir(q), outbox[q], d, inbox[r]))
  <2> DEFINE C == Cmds(inbox[r])
             T == Throughs(inbox[r])
             p == outbox[q]
             z == Heir(q)
  <2>1. Flow(inbox[r]) /\ Sound(s, C, T, p) /\ (Alive(q) => Tied(z, p, s, C, T))
    BY <1>3 DEF Expects, Follows
  <2>a. C \subseteq Scheduled /\ p \subseteq Scheduled /\ z \in Core
    BY <1>5, <1>6
  <2>b. Alive(q) \in BOOLEAN
    BY DEF Alive
  <2> HIDE DEF C, T, s, p, z
  <2>2. Sound(d, C, T, p) /\ \A x \in Core : Tied(x, p, s, C, T) => Tied(x, p, d, C, T)
    BY <1>3, <2>1, <2>a, LinkAdvanced
  <2> HIDE DEF d
  <2>3. Alive(q) => Tied(z, p, d, C, T)
    BY <2>1, <2>2, <2>a
  <2> QED BY <2>1, <2>2, <2>3 DEF Expects, Follows, C, T, p, z
<1>8. Listening(q) => Follows(d, o, Heir(q), Strm(q)) /\ Follows(OnPeerLost(d), o, Heir(q), Strm(q))
  <2> SUFFICES ASSUME Listening(q) PROVE Follows(d, o, Heir(q), Strm(q)) /\ Follows(OnPeerLost(d), o, Heir(q), Strm(q))
    OBVIOUS
  <2>1. Follows(d, o, Heir(q), Strm(q))
    BY <1>3, <1>5, <1>6, LinkSent DEF Follows
  <2> HIDE DEF d
  <2>2. OnPeerLost(d).own = d.own /\ OnPeerLost(d).next_sample = d.next_sample /\ OnPeerLost(d).step = d.step
    BY <1>4, LostTyped
  <2>3. Follows(OnPeerLost(d), o, Heir(q), Strm(q))
    BY <2>1, <2>2, SameSender DEF Follows
  <2> QED BY <2>1, <2>3
<1> HIDE DEF q, s, d, o
<1>9. Whole(core'[r])
  BY <1>2, <1>4, LostWhole
<1>10. ~Has(inbox'[r], {"resync"}) /\ status[r] \in Frame
  <2>1. ~Has(<<>>, {"resync"})
    BY DEF Has
  <2> QED BY <1>2, <1>3, <2>1 DEF Frame
<1>11. Attends(r)' => /\ Expects(core'[r], inbox'[r], outbox[q])
                      /\ Alive(q) => Follows(Heir(q), outbox[q], core'[r], inbox'[r])
  BY <1>2, <1>7
<1>12. Listening(q) => Expects(Heir(q), Strm(q)', outbox'[r]) /\ Follows(core'[r], outbox'[r], Heir(q), Strm(q)')
  <2>1. Strm(q)' = Strm(q)
    BY <1>2 DEF Strm
  <2> QED BY <1>2, <1>3, <1>8, <2>1
<1>13. HeirOf(core[q], inbox'[q]) = HeirOf(core[q], inbox[q])
       /\ (Has(inbox'[q], {"resync"}) <=> Has(inbox[q], {"resync"}))
  BY <1>2
<1> QED BY <1>1, <1>2, <1>9, <1>10, <1>11, <1>12, <1>13, LinkPlayed DEF q

(* A rejoin hello answered: nothing else is under way, and who asked will    *)
(* play on from the snapshot, unless it has given up.                        *)
LEMMA HandedOver ==
  ASSUME TypeInv, Control, NEW r \in Role, HandsOver(r)
  PROVE  LET q == Peer(r)
             c == OnPeerLost(core[r])
             h == AdoptResync(MakeResync(c))
         IN
         /\ status[r] \in {"drain"} \cup Holding /\ status'[r] \in {"drain", "pump"} /\ status'[q] = status[q]
         /\ core'[r] = c /\ core'[q] = core[q] /\ lives' = lives /\ played' = played
         /\ outbox'[r] = {} /\ outbox'[q] = {}
         /\ lives[q] = 1 /\ status[q] \in {"resync", "no_peer"} /\ ~Has(inbox[q], {"resync"})
         /\ ~Has(inbox[r], Traffic) /\ ~Has(inbox'[r], Traffic)
         /\ Heir(r) = core[r] /\ Heir(r)' = c /\ Strm(r) = inbox[r] /\ Strm(r)' = inbox'[r]
         /\ Cmds(Strm(r)) = {} /\ Throughs(Strm(r)) = {}
         /\ Cmds(Strm(r))' = {} /\ Throughs(Strm(r))' = {} /\ Flow(Strm(r))'
         /\ status[q] = "resync" => Heir(q)' = h /\ Strm(q)' = <<>>
         /\ status[q] = "no_peer" => ~Listening(q)' /\ ~Alive(q)' /\ Heir(q)' = Heir(q)
<1> DEFINE q == Peer(r)
           c == OnPeerLost(core[r])
           x == MakeResync(c)
           h == AdoptResync(x)
           b == [type |-> "resync", state |-> x]
<1>1. q \in Role /\ Peer(q) = r /\ Peer(r) = q
  BY PeerFacts
<1>2. core[r] \in Core /\ inbox[r] \in Seq(Message) /\ inbox[q] \in Seq(Message)
  BY <1>1, OneSnapshot, LinkTyped
<1>3. x \in Resync
  <2>1. c \in Core
    BY <1>2, LostTyped
  <2> QED BY <2>1, ResyncTyped
<1>4. b \in Message /\ b.type = "resync" /\ b.state = x
  BY <1>3 DEF Message
<1>6. /\ status[r] \in {"drain"} \cup Holding /\ inbox[r] # <<>> /\ Kind(Head(inbox[r])) = "rejoin"
      /\ core'[r] = c /\ status'[r] \in {"drain", "pump"} /\ status'[q] = status[q] /\ core'[q] = core[q]
      /\ outbox'[r] = outbox[r] /\ outbox'[q] = outbox[q]
      /\ inbox'[r] = Rest(r) /\ inbox'[q] = Sent(r, b) /\ lives' = lives /\ played' = played
  BY DEF HandsOver, Next1, Does, Kept
<1> HIDE DEF q, c, x, h, b
<1>7. /\ Has(inbox[r], {"rejoin"}) /\ ~Has(Rest(r), Traffic) /\ ~Has(inbox[r], Traffic)
  <2>1. NoneBehind(inbox[r], {"rejoin"}, {"rejoin", "hello"} \cup Traffic)
    BY DEF Control, ControlAt, RejoinOnce
  <2>2. ~Has(Rest(r), {"rejoin", "hello"} \cup Traffic)
    BY <1>6, <2>1, RestHas
  <2>3. ~Has(Rest(r), Traffic)
    BY <2>2 DEF Has
  <2>4. Kind(Head(inbox[r])) \notin Traffic
    BY <1>6 DEF Traffic
  <2> QED BY <1>6, <2>3, <2>4, RestHas
<1>8. lives[q] = 1 /\ status[q] \in {"resync", "no_peer"} /\ ~Has(inbox[q], {"resync"})
  BY <1>1, <1>7 DEF Control, ControlAt, RejoinOnce
<1>9. outbox[r] = {} /\ outbox[q] = {}
  BY <1>1, <1>6, <1>8 DEF Control, ControlAt, Roles, Holding
<1>10. inbox'[r] \in Seq(Message) /\ ~Has(inbox'[r], {"resync"}) /\ ~Has(inbox[r], {"resync"})
  BY <1>2, <1>6, <1>7 DEF Has, Traffic, Rest
<1>11. Heir(r) = core[r] /\ Strm(r) = inbox[r] /\ Heir(r)' = c /\ Strm(r)' = inbox'[r]
  BY <1>6, <1>10 DEF Heir, HeirOf, Strm, Stream
<1>12. /\ Cmds(inbox[r]) = {} /\ Throughs(inbox[r]) = {}
       /\ Cmds(inbox'[r]) = {} /\ Throughs(inbox'[r]) = {} /\ Flow(inbox'[r])
  BY <1>2, <1>6, <1>7, <1>10, FlowEmpty
<1>13. status[q] = "resync" => Heir(q)' = h /\ Strm(q)' = <<>>
  <2> SUFFICES ASSUME status[q] = "resync" PROVE Heir(q)' = h /\ Strm(q)' = <<>>
    OBVIOUS
  <2>1. inbox'[q] = Append(inbox[q], b)
    BY <1>6 DEF Sent, Joined, q
  <2>2. NoneBehind(inbox[q], {"resync"}, {"resync", "peer_joined"})
    BY <1>1, OneSnapshot
  <2> QED BY <1>2, <1>4, <1>8, <2>1, <2>2, StreamAppend DEF Heir, Strm, h
<1>14. status[q] = "no_peer" => ~Listening(q)' /\ ~Alive(q)' /\ Heir(q)' = Heir(q)
  <2> SUFFICES ASSUME status[q] = "no_peer" PROVE ~Listening(q)' /\ ~Alive(q)' /\ Heir(q)' = Heir(q)
    OBVIOUS
  <2>1. inbox'[q] = inbox[q]
    BY <1>6 DEF Sent, Joined, Frame, Holding, q
  <2> QED BY <1>6, <1>8, <2>1 DEF Listening, Attends, Frame, Alive, Begun, Past, Holding, Heir
<1> QED BY <1>6, <1>7, <1>8, <1>9, <1>11, <1>12, <1>13, <1>14 DEF q, c, x, h

(* The survivor answers the rejoin hello. *)
LEMMA LinkHandsOver ==
  ASSUME TypeInv, Control, Links, NEW r \in Role, HandsOver(r)
  PROVE  Links'
<1> DEFINE q == Peer(r)
           c == OnPeerLost(core[r])
           h == AdoptResync(MakeResync(c))
<1>1. q \in Role /\ Peer(q) = r /\ Peer(r) = q
  BY PeerFacts
<1>2. core[r] \in Core /\ Whole(core[r]) /\ LinkAt(q)
  BY <1>1, LinkTyped DEF Links, LinkAt
<1>3. Whole(c) /\ Whole(h) /\ Sound(c, {}, {}, {}) /\ Sound(h, {}, {}, {}) /\ Tied(c, {}, h, {}, {}) /\ Tied(h, {}, c, {}, {})
  BY <1>2, LinkHandedOver, LostWhole
<1>4. /\ core'[r] = c /\ core'[q] = core[q] /\ outbox'[r] = {} /\ outbox'[q] = {}
      /\ status[q] \in {"resync", "no_peer"}
      /\ Heir(r)' = c /\ Cmds(Strm(r))' = {} /\ Throughs(Strm(r))' = {} /\ Flow(Strm(r))'
      /\ status[q] = "resync" => Heir(q)' = h /\ Strm(q)' = <<>>
      /\ status[q] = "no_peer" => ~Listening(q)' /\ ~Alive(q)' /\ Heir(q)' = Heir(q)
  BY HandedOver
<1> HIDE DEF q, c, h
<1>5. Expects(c, Strm(r)', {}) /\ Follows(h, {}, c, Strm(r)')
  BY <1>3, <1>4 DEF Expects, Follows
<1>6. CASE status[q] = "resync"
  <2>1. <<>> \in Seq(Message) /\ ~Has(<<>>, Traffic)
    BY DEF Has
  <2>2. Expects(h, <<>>, {}) /\ Follows(c, {}, h, <<>>)
    BY <1>3, <2>1, FlowEmpty DEF Expects, Follows
  <2>3. LinkAt(q)'
    BY <1>1, <1>2, <1>3, <1>4, <1>6, <2>2 DEF LinkAt
  <2>4. LinkAt(r)'
    BY <1>1, <1>3, <1>4, <1>5, <1>6 DEF LinkAt
  <2> QED BY <1>1, <2>3, <2>4, PeerFacts DEF Links
<1>7. CASE status[q] = "no_peer"
  <2>1. LinkAt(q)'
    BY <1>2, <1>4, <1>7 DEF LinkAt
  <2>2. LinkAt(r)'
    BY <1>1, <1>3, <1>4, <1>5, <1>7 DEF LinkAt
  <2> QED BY <1>1, <2>1, <2>2, PeerFacts DEF Links
<1> QED BY <1>4, <1>6, <1>7

(* At the start nothing travels. *)
LEMMA LinkInit ==
  ASSUME Init
  PROVE  Links
<1> SUFFICES ASSUME NEW r \in Role PROVE LinkAt(r)
  BY DEF Links
<1> DEFINE q == Peer(r)
<1>1. q \in Role
  BY PeerFacts
<1>2. /\ core[r] = NewCore /\ core[q] = NewCore /\ outbox[q] = {} /\ inbox[r] = <<>> /\ inbox[q] = <<>>
      /\ status[r] = "offline"
  BY <1>1 DEF Init
<1>3. ~Has(inbox[r], {"resync"})
  BY <1>2 DEF Has
<1>4. Heir(r) = NewCore /\ ~Listening(r)
  BY <1>2, <1>3 DEF Heir, HeirOf, Listening, Attends, Frame
<1> QED BY <1>2, <1>4, LinkNew DEF LinkAt

(* Every step keeps the links. *)
LEMMA LinkStep ==
  ASSUME TypeInv, Sampled, Control, Links, [Next]_vars
  PROVE  Links'
<1>1. CASE UNCHANGED vars
  BY <1>1 DEF vars, Links, LinkAt, Heir, Strm, Listening, Attends, Alive, Begun
<1>2. ASSUME NEW r \in Role,
             \/ Bringing(r) \/ Framing(r) \/ Draining(r) \/ Parting(r)
             \/ Greets(r) \/ HandsOver(r) \/ Drops(r) \/ Dies(r) \/ Reports(r)
      PROVE  Links'
  <2>1. lives[r] \in Nat
    BY DEF TypeInv, TypeOK
  <2>2. CASE Bringing(r)
    BY <2>1, <2>2, CalmMoves, LinkCalm, LinkSpeaks, LinkResumes DEF Bringing
  <2>3. CASE Framing(r)
    BY <2>3, LinkPumps, LinkPushes, LinkAdvances DEF Framing
  <2>4. CASE Draining(r)
    BY <2>4, NeverFails, LinkDrains, LinkHolds, CalmMoves, LinkCalm DEF Draining
  <2>5. CASE Parting(r)
    BY <2>5, CalmMoves, LinkCalm DEF Parting
  <2>6. CASE Greets(r) \/ Drops(r) \/ Reports(r)
    BY <2>6, CalmMoves, LinkCalm
  <2> QED BY <1>2, <2>2, <2>3, <2>4, <2>5, <2>6, LinkHandsOver, LinkDies
<1> QED BY <1>1, <1>2, StepMoves

(* With at most one death the links hold for ever: through loss, hold and      *)
(* hand-off a seat has, travelling to it or buffered, exactly the commands its *)
(* peer keeps for ticks it has yet to execute.                                 *)
THEOREM LinkInvariant == MaxDeaths <= 1 => (Spec => []Links)
<1> SUFFICES ASSUME MaxDeaths <= 1 PROVE Spec => []Links
  OBVIOUS
<1>1. Init => Links
  BY LinkInit
<1>2. TypeInv /\ Sampled /\ Control /\ Links /\ [Next]_vars => Links'
  BY LinkStep
<1>3. Spec => [](TypeInv /\ Sampled) /\ []Control
  BY TypeInvariant, ControlInvariant
<1> QED BY <1>1, <1>2, <1>3, PTL DEF Spec

(* The errors of on_peer_command and on_peer_commit stay unreachable. *)
LEMMA NoErrorStep ==
  ASSUME TypeInv, Control, Links, NoProtocolError, [Next]_vars
  PROVE  NoProtocolError'
<1>1. CASE UNCHANGED vars
  BY <1>1 DEF vars, NoProtocolError
<1>2. ASSUME NEW r \in Role,
             \/ Bringing(r) \/ Framing(r) \/ Draining(r) \/ Parting(r)
             \/ Greets(r) \/ HandsOver(r) \/ Drops(r) \/ Dies(r) \/ Reports(r)
      PROVE  NoProtocolError'
  <2>1. status[r] # "error" /\ status[Peer(r)] # "error"
    BY PeerFacts DEF NoProtocolError
  <2>2. \A c : Loop(c) \in {"closing", "pump"}
    BY DEF Loop
  <2>3. ~Fails(r)
    BY NeverFails
  <2>4. status'[r] # "error" /\ status'[Peer(r)] = status[Peer(r)]
    <3> USE DEF Does, Moves
    <3>1. CASE Bringing(r)
      BY <2>1, <2>2, <3>1 DEF Bringing, Joins, Speaks, FindsNoRun, Starts, Resumes
    <3>2. CASE Framing(r)
      BY <2>1, <2>2, <3>2 DEF Framing, Pumps, PushesCommand, PushesCommit, EndsFrame, FallsSilent, Quits
    <3>3. CASE Draining(r)
      BY <2>1, <2>3, <3>3 DEF Draining, TakesCommand, TakesCommit, TakesDigest, Holds
    <3>4. CASE Parting(r)
      BY <2>1, <3>4 DEF Parting, Abandons, TellsDigest, Completes
    <3>5. CASE Greets(r) \/ HandsOver(r) \/ Drops(r) \/ Dies(r) \/ Reports(r)
      BY <2>1, <3>5 DEF Greets, HandsOver, Drops, Dies, Reports
    <3> QED BY <1>2, <3>1, <3>2, <3>3, <3>4, <3>5
  <2> QED BY <2>1, <2>4, PeerFacts DEF NoProtocolError
<1> QED BY <1>1, <1>2, StepMoves

(* Two seats that play agree on their buffers. *)
LEMMA LinksAgree ==
  ASSUME TypeInv, Control, Links
  PROVE  BuffersAgree
<1> SUFFICES ASSUME NEW r \in Role, Playing(r), Playing(Peer(r))
             PROVE  {m \in Ahead(r) : m.at >= core[Peer(r)].step} =
                      {m \in core[Peer(r)].own : m.at >= core[r].step /\ m.at < core[r].peer_next}
  BY DEF BuffersAgree
<1> DEFINE q == Peer(r)
           c == core[r]
           s == core[q]
           C == Cmds(inbox[r])
           T == Throughs(inbox[r])
           o == outbox[q]
<1>1. /\ q \in Role /\ status[r] \in Frame /\ status[q] \in Frame
  BY PeerFacts DEF Playing
<1>2. /\ c \in Core /\ Whole(c) /\ Expects(c, inbox[r], o) /\ inbox[r] \in Seq(Message)
      /\ Alive(q) => Follows(Heir(q), o, c, inbox[r])
  BY <1>1, PlayerLinks
<1>3. Alive(q)
  BY <1>1 DEF Alive, Begun, Past
<1>4. Heir(q) = s
  BY <1>1, OneSnapshot DEF Frame
<1>5. Sound(c, C, T, o) /\ Tied(s, o, c, C, T)
  BY <1>2, <1>3, <1>4 DEF Expects, Follows
<1>6. C \subseteq Scheduled /\ o \subseteq Scheduled /\ c.peer \subseteq Scheduled /\ s.own \subseteq Scheduled
      /\ c.peer_next \in Nat /\ c.step \in Nat
  BY <1>1, <1>2, FlowTyped, LinkTyped DEF Core
<1> HIDE DEF q, c, s, C, T, o
<1>7. ASSUME NEW m \in c.peer, m.at < c.peer_next, m.at >= s.step
      PROVE  m \in s.own /\ m.at >= c.step
  BY <1>2, <1>5, <1>6, <1>7 DEF Whole, Tied, Scheduled
<1>8. ASSUME NEW m \in s.own, m.at >= c.step, m.at < c.peer_next
      PROVE  m \in c.peer
  <2>1. m \in c.peer \cup C \cup o
    BY <1>5, <1>8 DEF Tied
  <2>2. m \notin C \cup o
    BY <1>5, <1>6, <1>8 DEF Sound, Scheduled
  <2> QED BY <2>1, <2>2
<1>9. ASSUME NEW m \in s.own, m.at >= c.step, m.at < c.peer_next
      PROVE  m.at >= s.step
  <2>1. Whole(s)
    BY <1>1, PlayerLinks DEF s, q
  <2> QED BY <1>9, <2>1, <1>6, <1>1, LinkTyped DEF Whole, Scheduled, Core, s, q
<1> QED BY <1>7, <1>8, <1>9 DEF Ahead, q, c, s

(* The protocol's own safety: its errors are never reached, and after any     *)
(* hand-off the two seats' pending commands are the same.                      *)
THEOREM SessionSafe == MaxDeaths <= 1 => (Spec => []SessionIsSafe)
<1> SUFFICES ASSUME MaxDeaths <= 1 PROVE Spec => []SessionIsSafe
  OBVIOUS
<1>1. Init => NoProtocolError
  BY DEF Init, NoProtocolError
<1>2. TypeInv /\ Control /\ Links /\ NoProtocolError /\ [Next]_vars => NoProtocolError'
  BY NoErrorStep
<1>3. TypeInv /\ Control /\ Links /\ NoProtocolError => SessionIsSafe
  BY LinksAgree DEF SessionIsSafe, TypeInv
<1>4. Spec => [](TypeInv /\ Sampled) /\ []Control /\ []Links
  BY TypeInvariant, ControlInvariant, LinkInvariant
<1> QED BY <1>1, <1>2, <1>3, <1>4, PTL DEF Spec

-------------------------------------------------------------------------------
(* What has been played, and what every process knows of it.                 *)

(* A seat that is held open for a process that has yet to be answered.      *)
Awaiting(r) == status[r] \in Holding /\ lives[Peer(r)] = 1 /\ ~Begun(Peer(r))
Informed(r) == Listening(r) \/ Awaiting(r)

(* The commands of a tick, and those a core executes for it: its own and its *)
(* peer's, C of them still to come, in the order of the merge.             *)
OfTick(S, t) == {m \in S : m.at = t}
Merged(r, c, C, t) ==
  LET own == OfTick(c.own, t)
      other == OfTick(c.peer \cup C, t)
  IN  IF r = "infiltrator" THEN InSlot(1, own) \cup InSlot(2, other)
      ELSE InSlot(1, other) \cup InSlot(2, own)

(* The peer has committed the tick, or a commit that covers it travels. *)
Covered(c, T, t) == t < c.peer_next \/ \E u \in T : t <= u

(* Of the ticks below h that a core has yet to execute it has sampled all,  *)
(* expects all, and will execute what was played.                           *)
Knows(r, c, C, T, P, h) ==
  \A t \in c.step .. h - 1 :
    /\ t < c.next_sample
    /\ Covered(c, T, t)
    /\ Merged(r, c, C, t) = OfTick(P, t)

(* What was executed below f.                                               *)
Below(P, f) == {e \in P : e.at < f}

(* A log of all that was played below a tick at which the run is over.     *)
FinalAt(L, f, P) ==
  /\ L = Below(P, f)
  /\ f = MaxSteps \/ \E e \in L : e.cmd \in EndCommands
  /\ \A e \in L : e.cmd \in EndCommands => f <= e.at + 1
Final(L, P, h) == \E f \in 0 .. h : FinalAt(L, f, P)

(* The logs a seat was told, or is about to be. *)
Logs(w) == {w[i].log : i \in {j \in DOMAIN w : w[j].type = "digest"}}
Told(r) == digest[r] \cup Logs(inbox[r])

Remembers(r, h) ==
  /\ Heir(r).step <= h
  /\ Heir(r).ran = Below(played, Heir(r).step)
  /\ EndedLast(Heir(r))
  /\ Informed(r) => Knows(r, Heir(r), Cmds(Strm(r)), Throughs(Strm(r)), played, h)
  /\ \A L \in Told(r) : Final(L, played, h)
  /\ lives[r] = 0 /\ status[r] \in {"offline", "joining"} => h = 0

(* The tick before which everything that was played lies, and nobody's step *)
(* is beyond it.                                                            *)
Story(h) ==
  /\ \A e \in played : e.at < h
  /\ \A r \in Role : Remembers(r, h)
History == \E h \in 0 .. MaxSteps : Story(h)

(* What a seat has sampled its peer knows of, once it is pushed.            *)
PledgeAt(r) ==
  LET q == Peer(r) IN
  Listening(r) /\ Alive(q) /\ status[q] # "push" =>
    \/ Heir(q).next_sample <= Heir(r).peer_next
    \/ \E u \in Throughs(Strm(r)) : u + 1 = Heir(q).next_sample
Pledge == \A r \in Role : PledgeAt(r)

(* Why a seat holds the run open, and what it can still be told.           *)
DutyAt(r) ==
  LET q == Peer(r) IN
  /\ status[r] \in Holding /\ lives[r] = 0 /\ lives[q] = 0 => status[q] \in Ended
  /\ lives[q] = 0 /\ (left[q] > 0 \/ Has(inbox[r], {"peer_left"})) => status[q] \in Ended
  /\ lives[q] = 1 /\ ~Begun(q) => NoneBehind(inbox[r], {"peer_left"}, Traffic)
  /\ Awaiting(r) => ~Has(inbox[r], Traffic)
Duty == \A r \in Role : DutyAt(r)

(* Behind the frame loop the run is over. *)
ClosingAt(r) == status[r] \in {"closing", "digest", "completed"} => Finished(core[r])
Closing == \A r \in Role : ClosingAt(r)

(* A tick's merge is made of what both seats have for it, whoever owns which. *)
LEMMA MergedFacts ==
  ASSUME NEW r \in Role, NEW c, NEW C, NEW t, NEW d, NEW D
  PROVE  /\ OfTick(c.own, t) = OfTick(d.own, t) /\ OfTick(c.peer \cup C, t) = OfTick(d.peer \cup D, t) =>
              Merged(r, c, C, t) = Merged(r, d, D, t)
         /\ OfTick(c.own, t) = OfTick(d.peer \cup D, t) /\ OfTick(c.peer \cup C, t) = OfTick(d.own, t) =>
              Merged(r, c, C, t) = Merged(Peer(r), d, D, t)
<1>1. OfTick(c.own, t) = OfTick(d.own, t) /\ OfTick(c.peer \cup C, t) = OfTick(d.peer \cup D, t) =>
        Merged(r, c, C, t) = Merged(r, d, D, t)
  BY DEF Merged
<1>2. ASSUME OfTick(c.own, t) = OfTick(d.peer \cup D, t), OfTick(c.peer \cup C, t) = OfTick(d.own, t)
      PROVE  Merged(r, c, C, t) = Merged(Peer(r), d, D, t)
  <2>1. CASE r = "infiltrator"
    BY <1>2, <2>1 DEF Merged, Peer
  <2>2. CASE r = "hacker"
    BY <1>2, <2>2 DEF Merged, Peer
  <2> QED BY <2>1, <2>2 DEF Role
<1> QED BY <1>1, <1>2

(* What an advance adds to the log are the merges of the ticks it executes. *)
LEMMA AdvanceRuns ==
  ASSUME NEW r \in Role, NEW c \in Core
  PROVE  LET d == Advance(r, c) IN
         /\ c.ran \subseteq d.ran
         /\ \A e \in d.ran : e \in c.ran \/ (c.step <= e.at /\ e.at < d.step /\ e \in Merged(r, c, {}, e.at))
         /\ \A t : c.step <= t /\ t < d.step => Merged(r, c, {}, t) \subseteq d.ran
         /\ \A t : \A e \in Merged(r, c, {}, t) : e.at = t
<1> DEFINE d == Advance(r, c)
           a == First(r, c)
           b == Second(r, c)
<1>1. d.ran = c.ran \cup InSlot(1, Due(a, c.step, d.step)) \cup InSlot(2, Due(b, c.step, d.step))
  BY AdvanceFacts
<1> HIDE DEF d
<1>2. \A t : Merged(r, c, {}, t) = InSlot(1, OfTick(a, t)) \cup InSlot(2, OfTick(b, t))
  <2>1. c.peer \cup {} = c.peer
    OBVIOUS
  <2>2. CASE r = "infiltrator"
    BY <2>1, <2>2 DEF Merged, First, Second
  <2>3. CASE r = "hacker"
    BY <2>1, <2>3 DEF Merged, First, Second
  <2> QED BY <2>2, <2>3 DEF Role
<1> HIDE DEF a, b
<1>3. \A k, S : \A e \in InSlot(k, Due(S, c.step, d.step)) :
        c.step <= e.at /\ e.at < d.step /\ e \in InSlot(k, OfTick(S, e.at))
  BY DEF InSlot, Due, OfTick
<1>4. \A k, S, t : c.step <= t /\ t < d.step => InSlot(k, OfTick(S, t)) \subseteq InSlot(k, Due(S, c.step, d.step))
  BY DEF InSlot, Due, OfTick
<1>5. \A k, S, t : \A e \in InSlot(k, OfTick(S, t)) : e.at = t
  BY DEF InSlot, OfTick
<1>6. \A e \in d.ran : e \in c.ran \/ (c.step <= e.at /\ e.at < d.step /\ e \in Merged(r, c, {}, e.at))
  BY <1>1, <1>2, <1>3
<1>7. \A t : c.step <= t /\ t < d.step => Merged(r, c, {}, t) \subseteq d.ran
  BY <1>1, <1>2, <1>4
<1>8. \A t : \A e \in Merged(r, c, {}, t) : e.at = t
  BY <1>2, <1>5
<1> QED BY <1>1, <1>6, <1>7, <1>8 DEF d

(* A pump schedules for ticks that were not sampled.                        *)
LEMMA KnowsPumped ==
  ASSUME NEW r \in Role, NEW s \in Core, NEW answers \in [SampleWindow(r, s) -> Feed], Whole(s),
         NEW C, NEW T, NEW P, NEW h \in Nat, Knows(r, s, C, T, P, h)
  PROVE  Knows(r, Pump(r, s, answers), C, T, P, h)
<1> DEFINE d == Pump(r, s, answers)
           o == Schedule(answers)
<1>1. /\ d \in Core /\ d.step = s.step /\ d.peer_next = s.peer_next /\ d.peer = s.peer
      /\ d.own = s.own \cup o
      /\ SampleWindow(r, s) = {} => d.next_sample = s.next_sample
      /\ SampleWindow(r, s) # {} => d.next_sample > s.next_sample
      /\ \A m \in o : s.next_sample <= m.at /\ m.at < d.next_sample
  BY PumpFacts DEF Whole
<1>2. o \subseteq Scheduled
  BY ScheduleFacts
<1>3. s.next_sample \in Nat /\ d.next_sample \in Nat /\ s.step \in Nat
  BY <1>1 DEF Core
<1> HIDE DEF d, o
<1> SUFFICES ASSUME NEW t \in s.step .. h - 1
             PROVE  t < d.next_sample /\ Covered(d, T, t) /\ Merged(r, d, C, t) = OfTick(P, t)
  BY <1>1 DEF Knows, d
<1>4. t < s.next_sample /\ Covered(s, T, t) /\ Merged(r, s, C, t) = OfTick(P, t) /\ t \in Nat
  BY <1>3 DEF Knows
<1>5. OfTick(d.own, t) = OfTick(s.own, t)
  BY <1>1, <1>2, <1>3, <1>4 DEF OfTick, Scheduled
<1>6. Merged(r, d, C, t) = Merged(r, s, C, t)
  <2>1. OfTick(d.peer \cup C, t) = OfTick(s.peer \cup C, t)
    BY <1>1
  <2> QED BY <1>5, <2>1, MergedFacts
<1> QED BY <1>1, <1>3, <1>4, <1>6 DEF Covered

(* What is pushed is of ticks that were not committed. *)
LEMMA KnowsPushed ==
  ASSUME NEW r \in Role, NEW c \in Core, NEW C, NEW T, T \subseteq Nat, NEW P, NEW h \in Nat,
         NEW o, o \subseteq Scheduled, NEW m \in o, Sound(c, C, T, o), Knows(r, c, C, T, P, h)
  PROVE  Knows(r, c, C \cup {m}, T, P, h)
<1> SUFFICES ASSUME NEW t \in c.step .. h - 1
             PROVE  Merged(r, c, C \cup {m}, t) = OfTick(P, t)
  BY DEF Knows
<1>1. Covered(c, T, t) /\ Merged(r, c, C, t) = OfTick(P, t) /\ t \in Int
  BY DEF Knows, Core
<1>2. m.at \in Nat /\ c.peer_next \in Nat
  BY DEF Scheduled, Core
<1>3. m.at # t
  BY <1>1, <1>2 DEF Sound, Covered
<1>4. OfTick(c.peer \cup (C \cup {m}), t) = OfTick(c.peer \cup C, t)
  BY <1>3 DEF OfTick
<1> QED BY <1>1, <1>4, MergedFacts

(* A commit more. *)
LEMMA KnowsCommitted ==
  ASSUME NEW r \in Role, NEW c, NEW C, NEW T, NEW P, NEW h, NEW u, Knows(r, c, C, T, P, h)
  PROVE  Knows(r, c, C, T \cup {u}, P, h)
BY DEF Knows, Covered

(* What is taken from what travels is in the buffer. *)
LEMMA KnowsTaken ==
  ASSUME NEW r \in Role, NEW c \in Core, NEW m \in Scheduled, Arrived(c, m) = m,
         NEW C, NEW T, NEW P, NEW h, Knows(r, c, C \cup {m}, T, P, h)
  PROVE  Knows(r, OnPeerCommand(c, m), C, T, P, h)
<1> DEFINE d == OnPeerCommand(c, m)
<1>1. /\ d.step = c.step /\ d.next_sample = c.next_sample /\ d.own = c.own
      /\ d.peer = c.peer \cup {m} /\ d.peer_next = c.peer_next
  BY CommandFacts
<1> HIDE DEF d
<1>2. d.peer \cup C = c.peer \cup (C \cup {m})
  BY <1>1
<1>3. ASSUME NEW t PROVE Merged(r, d, C, t) = Merged(r, c, C \cup {m}, t)
  <2>1. OfTick(d.peer \cup C, t) = OfTick(c.peer \cup (C \cup {m}), t) /\ OfTick(d.own, t) = OfTick(c.own, t)
    BY <1>1, <1>2
  <2> QED BY <2>1, MergedFacts
<1>4. \A t : Covered(d, T, t) = Covered(c, T, t)
  BY <1>1 DEF Covered
<1> QED BY <1>1, <1>3, <1>4 DEF Knows, d

(* What a commit says is known when it is taken. *)
LEMMA KnowsHeard ==
  ASSUME NEW r \in Role, NEW c \in Core, NEW u \in Nat,
         NEW C, NEW T, NEW P, NEW h \in Nat, Knows(r, c, C, T \cup {u}, P, h)
  PROVE  Knows(r, OnPeerCommit(c, u), C, T, P, h)
<1> DEFINE d == OnPeerCommit(c, u)
<1>1. /\ d.step = c.step /\ d.next_sample = c.next_sample /\ d.own = c.own /\ d.peer = c.peer
      /\ d.peer_next = IF u + 1 > c.peer_next THEN u + 1 ELSE c.peer_next
  BY CommitFacts
<1> HIDE DEF d
<1>2. c.peer_next \in Nat /\ c.step \in Nat
  BY DEF Core
<1>3. ASSUME NEW t PROVE Merged(r, d, C, t) = Merged(r, c, C, t)
  <2>1. OfTick(d.peer \cup C, t) = OfTick(c.peer \cup C, t) /\ OfTick(d.own, t) = OfTick(c.own, t)
    BY <1>1
  <2> QED BY <2>1, MergedFacts
<1>4. ASSUME NEW t \in Int, Covered(c, T \cup {u}, t) PROVE Covered(d, T, t)
  <2>1. CASE t < c.peer_next
    BY <1>1, <1>2, <2>1 DEF Covered
  <2>2. CASE t <= u
    BY <1>1, <1>2, <2>2 DEF Covered
  <2>3. CASE \E x \in T : t <= x
    BY <2>3 DEF Covered
  <2> QED BY <1>4, <2>1, <2>2, <2>3 DEF Covered
<1>5. ASSUME NEW t \in d.step .. h - 1
      PROVE  t < d.next_sample /\ Covered(d, T, t) /\ Merged(r, d, C, t) = OfTick(P, t)
  <2>0. t \in Int /\ t \in c.step .. h - 1
    BY <1>1, <1>2
  <2>1. t \in Int /\ t < c.next_sample /\ Covered(c, T \cup {u}, t) /\ Merged(r, c, C, t) = OfTick(P, t)
    BY <2>0 DEF Knows
  <2> QED BY <1>1, <1>3, <1>4, <2>1
<1>6. Knows(r, d, C, T, P, h)
  BY <1>1, <1>5 DEF Knows
<1> QED BY <1>6 DEF d

(* A peer that is lost with nothing under way: all that counts is committed. *)
LEMMA KnowsPruned ==
  ASSUME NEW r \in Role, NEW c \in Core, NEW P, NEW h, Knows(r, c, {}, {}, P, h)
  PROVE  Knows(r, OnPeerLost(c), {}, {}, P, h)
<1> DEFINE d == OnPeerLost(c)
<1>1. /\ d.step = c.step /\ d.next_sample = c.next_sample /\ d.peer_next = c.peer_next
      /\ d.own = c.own /\ d.peer = {m \in c.peer : m.at < c.peer_next}
  BY LostTyped
<1> HIDE DEF d
<1> SUFFICES ASSUME NEW t \in c.step .. h - 1
             PROVE  t < d.next_sample /\ Covered(d, {}, t) /\ Merged(r, d, {}, t) = OfTick(P, t)
  BY <1>1 DEF Knows, d
<1>2. t < c.next_sample /\ t < c.peer_next /\ Merged(r, c, {}, t) = OfTick(P, t)
  BY DEF Knows, Covered
<1>3. OfTick(d.peer \cup {}, t) = OfTick(c.peer \cup {}, t)
  BY <1>1, <1>2 DEF OfTick
<1>4. Merged(r, d, {}, t) = Merged(r, c, {}, t)
  BY <1>1, <1>3, MergedFacts
<1> QED BY <1>1, <1>2, <1>4 DEF Covered

(* And the process that adopts the snapshot knows the same, from its side. *)
LEMMA KnowsHanded ==
  ASSUME NEW r \in Role, NEW c \in Core, NEW P, NEW h, Knows(r, c, {}, {}, P, h), EndedLast(c)
  PROVE  LET x == AdoptResync(MakeResync(OnPeerLost(c))) IN
         /\ x.step = c.step /\ x.ran = c.ran /\ EndedLast(x)
         /\ Knows(Peer(r), x, {}, {}, P, h)
<1> DEFINE d == OnPeerLost(c)
           x == AdoptResync(MakeResync(d))
<1>1. /\ d.step = c.step /\ d.next_sample = c.next_sample /\ d.peer_next = c.peer_next /\ d.ran = c.ran
      /\ Knows(r, d, {}, {}, P, h)
  BY LostTyped, KnowsPruned
<1> HIDE DEF d
<1>2. /\ x.step = d.step /\ x.next_sample = d.peer_next /\ x.own = d.peer /\ x.ran = d.ran
      /\ x.peer_next = d.next_sample /\ x.peer = d.own /\ x.ended = FALSE
  BY DEF AdoptResync, MakeResync
<1> HIDE DEF x
<1>3. EndedLast(x)
  BY <1>1, <1>2 DEF EndedLast
<1>4. \A t : Merged(Peer(r), x, {}, t) = Merged(r, d, {}, t)
  <2>1. x.peer \cup {} = d.own /\ d.peer \cup {} = x.own
    BY <1>2
  <2> QED BY <2>1, MergedFacts
<1>5. Knows(Peer(r), x, {}, {}, P, h)
  <2> SUFFICES ASSUME NEW t \in x.step .. h - 1
               PROVE  t < x.next_sample /\ Covered(x, {}, t) /\ Merged(Peer(r), x, {}, t) = OfTick(P, t)
    BY DEF Knows
  <2>1. t < d.next_sample /\ t < d.peer_next /\ Merged(r, d, {}, t) = OfTick(P, t)
    BY <1>1, <1>2 DEF Knows, Covered
  <2> QED BY <1>2, <1>4, <2>1 DEF Covered
<1> QED BY <1>1, <1>2, <1>3, <1>5 DEF d, x

(* Who executes what it knows executes what was played, and adds to it.      *)
LEMMA KnowsAdvanced ==
  ASSUME NEW r \in Role, NEW c \in Core, Whole(c),
         NEW C, C \subseteq Scheduled, NEW T, T \subseteq Nat, NEW o, o \subseteq Scheduled, Sound(c, C, T, o),
         NEW P, P \subseteq Executed, NEW h \in Nat, \A e \in P : e.at < h,
         c.step <= h, c.ran = Below(P, c.step), Knows(r, c, C, T, P, h)
  PROVE  LET d == Advance(r, c)
             Q == P \cup d.ran
             g == IF h < d.step THEN d.step ELSE h
         IN
         /\ \A e \in Q : e.at < g
         /\ \A e \in Q : e \in P \/ h <= e.at
         /\ d.ran = Below(Q, d.step)
         /\ Knows(r, d, C, T, Q, g)
         /\ \A t \in h .. g - 1 : OfTick(Q, t) = Merged(r, c, {}, t) /\ t < c.peer_next /\ t < c.next_sample
<1> DEFINE d == Advance(r, c)
           Q == P \cup d.ran
           g == IF h < d.step THEN d.step ELSE h
<1>1. /\ d \in Core /\ d.next_sample = c.next_sample /\ d.peer_next = c.peer_next /\ c.step <= d.step
      /\ d.own = {m \in c.own : d.step <= m.at}
      /\ d.peer = {m \in c.peer : d.step <= m.at}
      /\ d.step <= c.peer_next /\ d.step <= c.next_sample
  BY AdvanceKeeps DEF Whole
<1>2. /\ c.ran \subseteq d.ran
      /\ \A e \in d.ran : e \in c.ran \/ (c.step <= e.at /\ e.at < d.step /\ e \in Merged(r, c, {}, e.at))
      /\ \A t : c.step <= t /\ t < d.step => Merged(r, c, {}, t) \subseteq d.ran
      /\ \A t : \A e \in Merged(r, c, {}, t) : e.at = t
  BY AdvanceRuns
<1> HIDE DEF d
<1>3. /\ c.step \in Nat /\ d.step \in Nat /\ c.peer_next \in Nat /\ c.next_sample \in Nat
      /\ \A e \in P : e.at \in Nat
      /\ \A e \in d.ran : e.at \in Nat
      /\ \A m \in c.own \cup c.peer \cup C : m.at \in Nat
  BY <1>1 DEF Core, Executed, Scheduled
<1>4. g \in Nat /\ h <= g /\ d.step <= g /\ (g = h \/ g = d.step)
  BY <1>3
<1> HIDE DEF g
<1>5. ASSUME NEW t \in Nat, t < c.peer_next PROVE Merged(r, c, C, t) = Merged(r, c, {}, t)
  <2>1. \A m \in C : m.at # t
    BY <1>3, <1>5 DEF Sound
  <2>2. OfTick(c.peer \cup C, t) = OfTick(c.peer \cup {}, t)
    BY <2>1 DEF OfTick
  <2> QED BY <2>2, MergedFacts
<1>6. ASSUME NEW t \in Nat, c.step <= t, t < h, t < c.peer_next PROVE OfTick(P, t) = Merged(r, c, {}, t)
  BY <1>3, <1>5, <1>6 DEF Knows
<1>7. \A e \in d.ran : e \in P \/ (h <= e.at /\ e \in Merged(r, c, {}, e.at))
  <2> SUFFICES ASSUME NEW e \in d.ran, e \notin P PROVE h <= e.at /\ e \in Merged(r, c, {}, e.at)
    OBVIOUS
  <2>1. e \notin c.ran
    BY DEF Below
  <2>2. c.step <= e.at /\ e.at < d.step /\ e \in Merged(r, c, {}, e.at) /\ e.at \in Nat
    BY <1>2, <1>3, <2>1
  <2>3. ~(e.at < h)
    <3> SUFFICES ASSUME e.at < h PROVE FALSE
      OBVIOUS
    <3>1. e.at < c.peer_next
      BY <1>1, <1>3, <2>2
    <3>2. OfTick(P, e.at) = Merged(r, c, {}, e.at)
      BY <1>6, <2>2, <3>1
    <3> QED BY <2>2, <3>2 DEF OfTick
  <2> QED BY <2>2, <2>3
<1>8. \A e \in d.ran : e.at < d.step
  <2> SUFFICES ASSUME NEW e \in d.ran PROVE e.at < d.step
    OBVIOUS
  <2>1. e \in c.ran => e.at < c.step
    BY DEF Below
  <2> QED BY <1>1, <1>2, <1>3, <2>1
<1>9. \A e \in Q : e.at < g
  BY <1>3, <1>4, <1>8
<1>10. \A e \in Q : e \in P \/ h <= e.at
  BY <1>7
<1>11. d.ran = Below(Q, d.step)
  <2>1. ASSUME NEW e \in P, e.at < d.step PROVE e \in d.ran
    <3>1. CASE e.at < c.step
      BY <1>2, <3>1 DEF Below
    <3>2. CASE c.step <= e.at
      <4>1. e.at < h /\ e.at < c.peer_next /\ e.at \in Nat
        BY <1>1, <1>3, <2>1
      <4>2. e \in Merged(r, c, {}, e.at)
        BY <1>6, <3>2, <4>1 DEF OfTick
      <4> QED BY <1>2, <2>1, <3>2, <4>2
    <3> QED BY <1>3, <3>1, <3>2
  <2> QED BY <1>8, <2>1 DEF Below
<1>12. \A t \in Nat : t < h => OfTick(Q, t) = OfTick(P, t)
  BY <1>10 DEF OfTick
<1>13. ASSUME NEW t \in h .. g - 1
       PROVE  OfTick(Q, t) = Merged(r, c, {}, t) /\ t < c.peer_next /\ t < c.next_sample
  <2>1. t \in Nat /\ h <= t /\ t < d.step /\ c.step <= t /\ t < c.peer_next /\ t < c.next_sample
    BY <1>1, <1>3, <1>4
  <2>2. Merged(r, c, {}, t) \subseteq d.ran
    BY <1>2, <2>1
  <2>3. ASSUME NEW e \in Q, e.at = t PROVE e \in Merged(r, c, {}, t)
    BY <1>3, <1>7, <2>1, <2>3
  <2> QED BY <1>2, <2>1, <2>2, <2>3 DEF OfTick
<1>14. Knows(r, d, C, T, Q, g)
  <2> SUFFICES ASSUME NEW t \in d.step .. g - 1
               PROVE  t < d.next_sample /\ Covered(d, T, t) /\ Merged(r, d, C, t) = OfTick(Q, t)
    BY DEF Knows
  <2>1. t \in c.step .. h - 1 /\ t \in Nat /\ t < h /\ d.step <= t
    BY <1>1, <1>3, <1>4
  <2>2. t < c.next_sample /\ Covered(c, T, t) /\ Merged(r, c, C, t) = OfTick(P, t)
    BY <2>1 DEF Knows
  <2>3. OfTick(d.own, t) = OfTick(c.own, t) /\ OfTick(d.peer \cup C, t) = OfTick(c.peer \cup C, t)
    BY <1>1, <2>1 DEF OfTick
  <2>4. Merged(r, d, C, t) = Merged(r, c, C, t)
    BY <2>3, MergedFacts
  <2> QED BY <1>1, <1>12, <2>1, <2>2, <2>4 DEF Covered
<1> HIDE DEF Q
<1>15. /\ \A e \in Q : e.at < g
       /\ \A e \in Q : e \in P \/ h <= e.at
       /\ d.ran = Below(Q, d.step)
       /\ Knows(r, d, C, T, Q, g)
       /\ \A t \in h .. g - 1 : OfTick(Q, t) = Merged(r, c, {}, t) /\ t < c.peer_next /\ t < c.next_sample
  BY <1>9, <1>10, <1>11, <1>13, <1>14
<1> QED BY <1>15 DEF d, Q, g

(* And its peer, which pledged its part and was pledged the rest, knows it.  *)
LEMMA KnowsAlong ==
  ASSUME NEW r \in Role,
         NEW s \in Core, NEW Cr, Cr \subseteq Scheduled, NEW Tr, NEW oq, oq \subseteq Scheduled, Sound(s, Cr, Tr, oq),
         NEW c \in Core, NEW C, C \subseteq Scheduled, NEW T, T \subseteq Nat,
         Tied(s, {}, c, C, T), Tied(c, oq, s, Cr, Tr),
         s.next_sample <= c.peer_next \/ \E u \in T : u + 1 = s.next_sample,
         NEW P, NEW Q, NEW h \in Nat, NEW g \in Nat, s.step <= h, c.step <= h,
         P \subseteq Q, \A e \in Q : e \in P \/ h <= e.at,
         \A t \in h .. g - 1 : OfTick(Q, t) = Merged(r, s, {}, t) /\ t < s.peer_next /\ t < s.next_sample,
         Knows(Peer(r), c, C, T, P, h)
  PROVE  Knows(Peer(r), c, C, T, Q, g)
<1> DEFINE q == Peer(r)
<1>1. q \in Role /\ Peer(q) = r
  BY PeerFacts
<1>2. /\ s.step \in Nat /\ c.step \in Nat /\ s.peer_next \in Nat /\ s.next_sample \in Nat
      /\ c.peer_next \in Nat /\ c.next_sample \in Nat
      /\ s.own \subseteq Scheduled /\ s.peer \subseteq Scheduled /\ c.own \subseteq Scheduled /\ c.peer \subseteq Scheduled
  BY DEF Core
<1> SUFFICES ASSUME NEW t \in c.step .. g - 1
             PROVE  t < c.next_sample /\ Covered(c, T, t) /\ Merged(q, c, C, t) = OfTick(Q, t)
  BY DEF Knows
<1>3. t \in Nat
  BY <1>2
<1>4. CASE t < h
  <2>1. t < c.next_sample /\ Covered(c, T, t) /\ Merged(q, c, C, t) = OfTick(P, t)
    BY <1>2, <1>4 DEF Knows
  <2>2. OfTick(Q, t) = OfTick(P, t)
    BY <1>3, <1>4 DEF OfTick
  <2> QED BY <2>1, <2>2
<1>5. CASE h <= t
  <2>1. t \in h .. g - 1
    BY <1>2, <1>3, <1>5
  <2>2. OfTick(Q, t) = Merged(r, s, {}, t) /\ t < s.peer_next /\ t < s.next_sample
    BY <2>1
  <2>3. s.step <= t /\ c.step <= t
    BY <1>2, <1>3, <1>5
  <2>4. t < c.next_sample
    BY <1>2, <1>3, <2>2 DEF Tied
  <2>5. Covered(c, T, t)
    <3>1. CASE s.next_sample <= c.peer_next
      BY <1>2, <1>3, <2>2, <3>1 DEF Covered
    <3>2. CASE \E u \in T : u + 1 = s.next_sample
      <4>1. PICK u \in T : u + 1 = s.next_sample
        BY <3>2
      <4>2. t <= u
        BY <1>3, <2>2, <4>1
      <4> QED BY <4>2 DEF Covered
    <3> QED BY <3>1, <3>2
  <2>6. OfTick(s.own, t) = OfTick(c.peer \cup C, t)
    BY <2>3 DEF Tied, OfTick
  <2>7. OfTick(s.peer \cup {}, t) = OfTick(c.own, t)
    <3>1. \A m \in Cr \cup oq : m.at # t
      BY <1>2, <1>3, <2>2 DEF Sound, Scheduled
    <3> QED BY <2>3, <3>1 DEF Tied, OfTick
  <2>8. Merged(r, s, {}, t) = Merged(q, c, C, t)
    <3> DEFINE E == {}
    <3>1. OfTick(s.own, t) = OfTick(c.peer \cup C, t) /\ OfTick(s.peer \cup E, t) = OfTick(c.own, t)
      BY <2>6, <2>7
    <3> HIDE DEF E, q
    <3>2. OfTick(s.own, t) = OfTick(c.peer \cup C, t) /\ OfTick(s.peer \cup E, t) = OfTick(c.own, t)
            => Merged(r, s, E, t) = Merged(Peer(r), c, C, t)
      BY ONLY r \in Role, MergedFacts, SMTT(30)
    <3> QED BY <3>1, <3>2 DEF E, q
  <2> QED BY <2>2, <2>4, <2>5, <2>8
<1> QED BY <1>2, <1>3, <1>4, <1>5

-------------------------------------------------------------------------------
(* What every step of a seat has in common, short of a death or a report.    *)
Acts(r) ==
  LET q == Peer(r) IN
  /\ status[r] \notin Ended /\ lives' = lives
  /\ status'[q] = status[q] /\ left'[q] = left[q]
  /\ left'[r] = left[r] \/ status'[r] \in Ended
  /\ Begun(r) => Begun(r)'
  /\ status'[r] \in {"offline", "joining"} => status[r] \in {"offline", "joining"}
  /\ status'[r] \in Holding => status'[r] = status[r] \/ Holds(r) \/ FallsSilent(r)
  /\ \/ inbox'[r] \in {inbox[r], <<>>}
     \/ inbox[r] # <<>> /\ inbox'[r] = Rest(r)
  /\ \/ inbox'[q] = inbox[q]
     \/ \E b \in Message : /\ inbox'[q] = Sent(r, b)
                           /\ Kind(b) # "peer_left" /\ (Kind(b) \in Traffic => Begun(r))

(* Nothing outlasts its end, and only play is traffic. *)
LEMMA ActsMoves ==
  ASSUME TypeInv, Sampled, Control, NEW r \in Role,
         \/ Bringing(r) \/ Framing(r) \/ Draining(r) \/ Parting(r) \/ Greets(r) \/ HandsOver(r) \/ Drops(r)
  PROVE  Acts(r)
<1> USE DEF Acts, Begun, Past, Frame, Holding, Ended, Does, Moves, Kept, Gone
<1>1. \A c : Loop(c) \in {"closing", "pump"}
  BY DEF Loop
<1>2. Roles(r)
  BY DEF Control, ControlAt
<1>3. CASE Framing(r) \/ Draining(r) \/ TellsDigest(r) \/ Completes(r)
  <2>1. Plays(r)
    BY <1>2, <1>3, PlaysMoves
  <2>2. /\ left'[Peer(r)] = left[Peer(r)] /\ (left'[r] = left[r] \/ status'[r] \in Ended)
        /\ status'[r] \in Holding => Holds(r) \/ FallsSilent(r)
    <3>1. CASE Framing(r)
      <4>1. Pumps(r) => status'[r] \in {"drain", "push"} /\ left' = left
        BY DEF Pumps
      <4>2. PushesCommand(r) => status'[r] = "push" /\ left' = left
        BY DEF PushesCommand
      <4>3. PushesCommit(r) => status'[r] = "drain" /\ left' = left
        BY DEF PushesCommit
      <4>4. EndsFrame(r) => status'[r] \in {"closing", "pump"} /\ left' = left
        BY <1>1 DEF EndsFrame
      <4>5. Quits(r) => status'[r] = "quit" /\ left'[Peer(r)] = left[Peer(r)]
        BY DEF Quits
      <4>6. FallsSilent(r) => left' = left
        BY DEF FallsSilent
      <4> QED BY <3>1, <4>1, <4>2, <4>3, <4>4, <4>5, <4>6 DEF Framing
    <3>2. CASE Draining(r)
      <4>1. TakesCommand(r) \/ TakesCommit(r) \/ TakesDigest(r) => status'[r] = "drain" /\ left' = left
        BY DEF TakesCommand, TakesCommit, TakesDigest
      <4>2. Fails(r) => status'[r] = "error" /\ left'[Peer(r)] = left[Peer(r)]
        BY DEF Fails
      <4>3. Holds(r) => left' = left
        BY DEF Holds
      <4> QED BY <3>2, <4>1, <4>2, <4>3 DEF Draining
    <3>3. CASE TellsDigest(r) \/ Completes(r)
      BY <3>3 DEF TellsDigest, Completes
    <3> QED BY <1>3, <3>1, <3>2, <3>3
  <2> QED BY <2>1, <2>2 DEF Plays, Joined
<1>4. CASE Joins(r) \/ Speaks(r) \/ Greets(r)
  <2>1. /\ Hello(r) \in Message /\ Kind(Hello(r)) \in {"hello", "rejoin"}
    BY HelloKind
  <2> DEFINE b == [type |-> "peer_joined"]
  <2>2. b \in Message /\ Kind(b) = "peer_joined"
    BY PostedFacts DEF Mail, Kind
  <2>3. Joins(r) => inbox'[Peer(r)] = Sent(r, b)
    BY DEF Joins
  <2> HIDE DEF b
  <2>4. \E x \in Message : inbox'[Peer(r)] = Sent(r, x) /\ Kind(x) # "peer_left" /\ Kind(x) \notin Traffic
    <3>1. CASE Joins(r)
      BY <2>2, <2>3, <3>1 DEF Traffic
    <3>2. CASE Speaks(r) \/ Greets(r)
      BY <2>1, <3>2 DEF Speaks, Greets, Traffic
    <3> QED BY <1>4, <3>1, <3>2
  <2>5. inbox'[r] = inbox[r] \/ (inbox[r] # <<>> /\ inbox'[r] = Rest(r))
    BY <1>4 DEF Joins, Speaks, Greets, Next1
  <2>6. status'[Peer(r)] = status[Peer(r)] /\ left' = left /\ lives' = lives
    BY <1>4 DEF Joins, Speaks, Greets
  <2>7. /\ status[r] \notin Ended /\ (Begun(r) => Begun(r)')
        /\ status'[r] \in {"offline", "joining"} => status[r] \in {"offline", "joining"}
        /\ status'[r] \in Holding => status'[r] = status[r]
    <3>1. CASE Joins(r)
      BY <3>1 DEF Joins
    <3>2. CASE Speaks(r)
      BY <3>2 DEF Speaks
    <3>3. CASE Greets(r)
      BY <3>3 DEF Greets
    <3> QED BY <1>4, <3>1, <3>2, <3>3
  <2> QED BY <2>4, <2>5, <2>6, <2>7
<1>5. CASE FindsNoRun(r) \/ Starts(r) \/ Resumes(r)
  BY <1>1, <1>5 DEF FindsNoRun, Starts, Resumes, Next1
<1>6. CASE Abandons(r) \/ Drops(r)
  BY <1>6 DEF Abandons, Drops
<1>7. CASE HandsOver(r)
  <2> DEFINE b == [type |-> "resync", state |-> MakeResync(OnPeerLost(core[r]))]
  <2>1. b \in Message /\ Kind(b) = "resync"
    <3>1. core[r] \in Core
      BY DEF TypeInv, TypeOK
    <3>2. MakeResync(OnPeerLost(core[r])) \in Resync
      BY <3>1, LostTyped, ResyncTyped
    <3> QED BY <3>2 DEF Message, Kind
  <2>2. inbox'[Peer(r)] = Sent(r, b)
    BY <1>7 DEF HandsOver
  <2> HIDE DEF b
  <2> QED BY <1>7, <2>1, <2>2 DEF HandsOver, Next1
<1> QED BY <1>3, <1>4, <1>5, <1>6, <1>7 DEF Bringing, Parting

(* A seat that acts leaves its own duty and its peer's. *)
LEMMA DutyActs ==
  ASSUME TypeInv, TypeInv', Control, Duty, "grace" \notin Hasty, NEW r \in Role, Acts(r)
  PROVE  Duty'
<1> DEFINE q == Peer(r)
           w == inbox[r]
<1>1. q \in Role /\ Peer(q) = r /\ Peer(r) = q
  BY PeerFacts
<1>2. /\ DutyAt(r) /\ DutyAt(q) /\ OneDeath(r) /\ Early(q) /\ Roles(q) /\ w \in Seq(Message)
  BY <1>1 DEF Duty, Control, ControlAt, TypeInv, TypeOK
<1>3. /\ status[r] \notin Ended /\ lives' = lives /\ status'[q] = status[q] /\ left'[q] = left[q]
      /\ left'[r] = left[r] \/ status'[r] \in Ended
      /\ Begun(r) => Begun(r)'
      /\ status'[r] \in Holding => status'[r] = status[r] \/ Holds(r) \/ FallsSilent(r)
      /\ Begun(q)' = Begun(q)
  BY DEF Acts, Begun
<1>4. /\ \A K : Has(inbox'[r], K) => Has(w, K)
      /\ \A A, B : NoneBehind(w, A, B) => NoneBehind(inbox'[r], A, B)
  <2>1. CASE inbox'[r] = w
    BY <2>1
  <2>2. CASE inbox'[r] = <<>>
    BY <2>2 DEF Has, NoneBehind
  <2>3. CASE w # <<>> /\ inbox'[r] = Rest(r)
    BY <2>3, RestHas
  <2> QED BY <2>1, <2>2, <2>3 DEF Acts
<1>5. Holds(r) => /\ status[r] = "drain" /\ w # <<>> /\ inbox'[r] = Rest(r)
                  /\ Kind(Head(w)) = "peer_left" /\ Has(w, {"peer_left"})
  <2>1. Holds(r) => status[r] = "drain" /\ w # <<>> /\ Kind(Head(w)) = "peer_left" /\ inbox'[r] = Rest(r)
    BY DEF Holds, Next1, Does
  <2> QED BY <2>1, RestHas
<1>6. FallsSilent(r) => status[r] = "drain" /\ inbox'[r] = <<>> /\ Silent(q)
  BY DEF FallsSilent, Expires, Hopeless, Quiet, Does
<1>7. DutyAt(r)'
  <2>1. status'[r] \in Holding /\ lives[r] = 0 /\ lives[q] = 0 => status[q] \in Ended
    <3>1. CASE status'[r] = status[r]
      BY <1>1, <1>2, <3>1 DEF DutyAt
    <3>2. CASE Holds(r)
      BY <1>1, <1>2, <1>5, <3>2 DEF DutyAt
    <3>3. CASE FallsSilent(r) /\ lives[r] = 0 /\ lives[q] = 0
      <4>1. status[q] \in {"offline", "joining", "resync"} \cup Holding \cup Ended
        BY <1>6, <3>3 DEF Silent
      <4>2. status[q] \notin {"offline", "joining"}
        BY <1>1, <1>2, <1>6, <3>3 DEF Early
      <4>3. status[q] # "resync"
        BY <1>2, <3>3 DEF Roles
      <4>4. status[q] \notin Holding
        BY <1>1, <1>2, <1>3, <3>3 DEF DutyAt
      <4> QED BY <4>1, <4>2, <4>3, <4>4
    <3> QED BY <1>3, <3>1, <3>2, <3>3
  <2>2. lives[q] = 0 /\ (left[q] > 0 \/ Has(inbox'[r], {"peer_left"})) => status[q] \in Ended
    BY <1>1, <1>2, <1>4 DEF DutyAt
  <2>3. lives[q] = 1 /\ ~Begun(q) => NoneBehind(inbox'[r], {"peer_left"}, Traffic)
    BY <1>1, <1>2, <1>4 DEF DutyAt
  <2>4. status'[r] \in Holding /\ lives[q] = 1 /\ ~Begun(q) => ~Has(inbox'[r], Traffic)
    <3>1. CASE status'[r] = status[r]
      BY <1>1, <1>2, <1>4, <3>1 DEF DutyAt, Awaiting
    <3>2. CASE Holds(r) /\ lives[q] = 1 /\ ~Begun(q)
      <4>1. NoneBehind(w, {"peer_left"}, Traffic)
        BY <1>1, <1>2, <3>2 DEF DutyAt
      <4> QED BY <1>5, <3>2, <4>1, RestHas
    <3>3. CASE FallsSilent(r)
      BY <1>6, <3>3 DEF Has
    <3> QED BY <1>3, <3>1, <3>2, <3>3
  <2> QED BY <1>1, <1>3, <2>1, <2>2, <2>3, <2>4 DEF DutyAt, Awaiting
<1>8. /\ Has(inbox'[q], {"peer_left"}) => Has(inbox[q], {"peer_left"})
      /\ ~Begun(r) /\ Has(inbox'[q], Traffic) => Has(inbox[q], Traffic)
      /\ ~Begun(r) /\ NoneBehind(inbox[q], {"peer_left"}, Traffic) => NoneBehind(inbox'[q], {"peer_left"}, Traffic)
  <2>1. CASE inbox'[q] = inbox[q]
    BY <2>1
  <2>2. ASSUME NEW b \in Message, inbox'[q] = Sent(r, b), Kind(b) # "peer_left", Kind(b) \in Traffic => Begun(r)
        PROVE  /\ Has(inbox'[q], {"peer_left"}) => Has(inbox[q], {"peer_left"})
               /\ ~Begun(r) /\ Has(inbox'[q], Traffic) => Has(inbox[q], Traffic)
               /\ ~Begun(r) /\ NoneBehind(inbox[q], {"peer_left"}, Traffic) => NoneBehind(inbox'[q], {"peer_left"}, Traffic)
    BY <2>2, SentHas
  <2> QED BY <2>1, <2>2 DEF Acts
<1>9. DutyAt(q)'
  <2>1. status[q] \in Holding /\ lives[q] = 0 /\ lives[r] = 0 => status'[r] \in Ended
    BY <1>1, <1>2, <1>3 DEF DutyAt
  <2>2. lives[r] = 0 /\ (left'[r] > 0 \/ Has(inbox'[q], {"peer_left"})) => status'[r] \in Ended
    BY <1>1, <1>2, <1>3, <1>8 DEF DutyAt
  <2>3. lives[r] = 1 /\ ~Begun(r)' => NoneBehind(inbox'[q], {"peer_left"}, Traffic)
    BY <1>1, <1>2, <1>3, <1>8 DEF DutyAt
  <2>4. status[q] \in Holding /\ lives[r] = 1 /\ ~Begun(r)' => ~Has(inbox'[q], Traffic)
    BY <1>1, <1>2, <1>3, <1>8 DEF DutyAt, Awaiting
  <2> QED BY <1>1, <1>3, <2>1, <2>2, <2>3, <2>4 DEF DutyAt, Awaiting
<1> QED BY <1>1, <1>7, <1>9, PeerFacts DEF Duty

(* Nobody holds the run open for a seat that lives. *)
LEMMA DutyDies ==
  ASSUME TypeInv, Control, Control', Duty, NEW r \in Role, Dies(r)
  PROVE  Duty'
<1> DEFINE q == Peer(r)
<1>1. q \in Role /\ Peer(q) = r /\ Peer(r) = q
  BY PeerFacts
<1>2. /\ DutyAt(r) /\ DutyAt(q) /\ OneDeath(r)'
      /\ lives[r] \in Nat /\ lives[q] \in Nat /\ inbox[q] \in Seq(Message)
  BY <1>1 DEF Duty, Control, ControlAt, TypeInv, TypeOK
<1>3. /\ status[r] \in Joined /\ status'[r] = "offline" /\ status'[q] = status[q]
      /\ inbox'[r] = <<>> /\ inbox'[q] = inbox[q]
      /\ lives'[r] = lives[r] + 1 /\ lives'[q] = lives[q] /\ left'[q] = left[q]
  BY DEF Dies, Does
<1>4. lives[r] = 0 /\ lives[q] = 0 /\ lives'[r] = 1 /\ lives'[q] = 0
  BY <1>1, <1>2, <1>3 DEF OneDeath
<1>5. status[r] \notin Ended
  BY <1>3 DEF Joined, Ended, Frame, Holding
<1>6. ~Has(inbox[q], {"peer_left"}) /\ status[q] \notin Holding
  BY <1>1, <1>2, <1>4, <1>5 DEF DutyAt
<1>7. DutyAt(r)'
  <2>1. ~Has(inbox'[r], {"peer_left"}) /\ ~Has(inbox'[r], Traffic)
    BY <1>3 DEF Has
  <2>2. left[q] > 0 => status[q] \in Ended
    BY <1>1, <1>2, <1>4 DEF DutyAt
  <2> QED BY <1>1, <1>3, <1>4, <2>1, <2>2 DEF DutyAt, Awaiting, Holding
<1>8. DutyAt(q)'
  <2>1. NoneBehind(inbox'[q], {"peer_left"}, Traffic)
    BY <1>3, <1>6 DEF Has, NoneBehind
  <2> QED BY <1>1, <1>3, <1>4, <1>6, <2>1 DEF DutyAt, Awaiting
<1> QED BY <1>1, <1>7, <1>8, PeerFacts DEF Duty

(* What the relay reports has happened. *)
LEMMA DutyReports ==
  ASSUME TypeInv, Control, Duty, NEW r \in Role, Reports(r)
  PROVE  Duty'
<1> DEFINE q == Peer(r)
           b == [type |-> "peer_left"]
<1>1. q \in Role /\ Peer(q) = r /\ Peer(r) = q
  BY PeerFacts
<1>2. /\ DutyAt(r) /\ DutyAt(q) /\ left[r] \in Nat /\ left'[r] = left[r] - 1
  BY <1>1 DEF Duty, TypeInv, TypeOK, Reports
<1>3. /\ left[r] > 0 /\ left'[q] = left[q] /\ lives' = lives
      /\ status'[r] = status[r] /\ status'[q] = status[q] /\ inbox'[r] = inbox[r]
      /\ inbox'[q] = inbox[q] \/ inbox'[q] = Sent(r, b)
  BY DEF Reports, Moves, Does
<1>4. b \in Message /\ Kind(b) = "peer_left"
  BY PostedFacts DEF Mail, Kind
<1> HIDE DEF b
<1>5. /\ Has(inbox'[q], Traffic) => Has(inbox[q], Traffic)
      /\ NoneBehind(inbox[q], {"peer_left"}, Traffic) => NoneBehind(inbox'[q], {"peer_left"}, Traffic)
  <2>1. Kind(b) \notin Traffic
    BY <1>4 DEF Traffic
  <2>2. CASE inbox'[q] = Sent(r, b)
    BY <1>4, <2>1, <2>2, SentHas
  <2> QED BY <1>3, <2>2
<1>6. (Begun(r)' <=> Begun(r)) /\ (Begun(q)' <=> Begun(q))
  BY <1>3 DEF Begun
<1>7. DutyAt(r)'
  BY <1>1, <1>2, <1>3, <1>6 DEF DutyAt, Awaiting
<1>8. DutyAt(q)'
  BY <1>1, <1>2, <1>3, <1>5, <1>6 DEF DutyAt, Awaiting
<1> QED BY <1>1, <1>7, <1>8, PeerFacts DEF Duty

(* At the start nobody holds the run open. *)
LEMMA DutyInit ==
  ASSUME Init
  PROVE  Duty
<1> SUFFICES ASSUME NEW r \in Role PROVE DutyAt(r)
  BY DEF Duty
<1>1. /\ status[r] = "offline" /\ lives[Peer(r)] = 0 /\ left[Peer(r)] = 0 /\ inbox[r] = <<>>
  BY PeerFacts DEF Init
<1>2. ~Has(inbox[r], {"peer_left"})
  BY <1>1 DEF Has
<1> QED BY <1>1, <1>2 DEF DutyAt, Awaiting, Holding

(* Whose pushes are pledged. *)
LEMMA PledgeStays ==
  ASSUME NEW x \in Role, NEW y, y = Peer(x), PledgeAt(x),
         Listening(x)' => /\ Listening(x) /\ Heir(x)' = Heir(x)
                          /\ Throughs(Strm(x))' = Throughs(Strm(x)),
         Alive(y)' /\ status'[y] # "push" =>
           Alive(y) /\ status[y] # "push" /\ Heir(y)'.next_sample = Heir(y).next_sample
  PROVE  PledgeAt(x)'
BY DEF PledgeAt

(* A calm step leaves the pledges. *)
LEMMA PledgeCalm ==
  ASSUME TypeInv, Sampled, Control, Pledge, NEW r \in Role, Calm(r),
         status'[r] # "push" => status[r] # "push"
  PROVE  Pledge'
<1> DEFINE q == Peer(r)
<1>1. q \in Role /\ Peer(q) = r /\ Peer(r) = q
  BY PeerFacts
<1> HIDE DEF q
<1>2. /\ Heir(q)' = Heir(q) /\ (Listening(q)' => Listening(q)) /\ (Alive(q)' => Alive(q))
      /\ Same(inbox'[q], inbox[q])
      /\ Listening(r)' => Listening(r) /\ Heir(r)' = Heir(r) /\ Same(inbox'[r], inbox[r])
      /\ Alive(r)' => Alive(r) /\ Heir(r)' = Heir(r)
  BY <1>1, CalmKeeps
<1>3. PledgeAt(r) /\ PledgeAt(q) /\ status'[q] = status[q]
  BY <1>1 DEF Pledge, Calm
<1>4. \A x \in Role : Same(inbox'[x], inbox[x]) => Throughs(Strm(x))' = Throughs(Strm(x))
  BY DEF Same, Strm
<1>5. PledgeAt(r)'
  BY <1>1, <1>2, <1>3, <1>4, PledgeStays
<1>6. PledgeAt(q)'
  BY <1>1, <1>2, <1>3, <1>4, PledgeStays
<1> QED BY <1>1, <1>5, <1>6, PeerFacts DEF Pledge

(* What a player owes and is owed. *)
LEMMA PledgePlayed ==
  ASSUME TypeInv, Control, Pledge, NEW r \in Role, status[r] \in Frame, NEW q, q = Peer(r),
         status'[q] = status[q], core'[q] = core[q], lives' = lives,
         ~Has(inbox'[r], {"resync"}),
         Has(inbox'[q], {"resync"}) <=> Has(inbox[q], {"resync"}),
         HeirOf(core[q], inbox'[q]) = HeirOf(core[q], inbox[q]),
         Attends(r)' /\ (Heir(q).next_sample <= core[r].peer_next \/ \E u \in Throughs(inbox[r]) : u + 1 = Heir(q).next_sample) =>
           Heir(q).next_sample <= core'[r].peer_next \/ \E u \in Throughs(inbox'[r]) : u + 1 = Heir(q).next_sample,
         Listening(q) /\ status'[r] # "push" =>
           \/ core'[r].next_sample <= Heir(q).peer_next
           \/ \E u \in Throughs(Strm(q)') : u + 1 = core'[r].next_sample
  PROVE  Pledge'
<1>1. q \in Role /\ Peer(q) = r /\ Peer(r) = q
  BY PeerFacts
<1>2. Heir(r)' = core'[r] /\ Strm(r)' = inbox'[r] /\ (Listening(r)' <=> Attends(r)')
  BY DEF Heir, HeirOf, Strm, Stream, Listening
<1>3. Heir(q)' = Heir(q) /\ (Listening(q)' => Listening(q)) /\ (Alive(q)' => Alive(q))
  BY DEF Heir, Listening, Attends, Alive, Begun
<1>4. Heir(r) = core[r] /\ Strm(r) = inbox[r] /\ Listening(r)
  <2>1. status[r] # "resync"
    BY DEF Frame
  <2> QED BY <2>1, OneSnapshot DEF Listening, Attends
<1>a. core[r] \in Core /\ Heir(q) \in Core /\ PledgeAt(r)
  BY <1>1, LinkTyped DEF Pledge
<1>b. core[r].peer_next \in Nat /\ Heir(q).next_sample \in Nat
  BY <1>a DEF Core
<1>5. PledgeAt(r)'
  <2> SUFFICES ASSUME Attends(r)', Alive(q), status[q] # "push"
               PROVE  \/ Heir(q).next_sample <= core'[r].peer_next
                      \/ \E u \in Throughs(inbox'[r]) : u + 1 = Heir(q).next_sample
    BY <1>1, <1>2, <1>3 DEF PledgeAt
  <2>1. Heir(q).next_sample <= core[r].peer_next \/ \E u \in Throughs(inbox[r]) : u + 1 = Heir(q).next_sample
    BY <1>1, <1>4, <1>a DEF PledgeAt
  <2> QED BY <1>b, <2>1
<1>6. PledgeAt(q)'
  BY <1>1, <1>2, <1>3 DEF PledgeAt
<1> QED BY <1>1, <1>5, <1>6, PeerFacts DEF Pledge

(* A pump that samples has its commit yet to push. *)
LEMMA PledgePumps ==
  ASSUME TypeInv, Control, Links, Pledge, NEW r \in Role, Pumps(r)
  PROVE  Pledge'
<1> DEFINE q == Peer(r)
           s == core[r]
<1>1. q \in Role /\ Peer(q) = r /\ Peer(r) = q
  BY PeerFacts
<1>2. PICK answers \in [SampleWindow(r, s) -> Feed] :
        core'[r] = Pump(r, s, answers) /\ status'[r] = IF SampleWindow(r, s) = {} THEN "drain" ELSE "push"
  BY DEF Pumps, Does
<1>3. /\ status[r] = "pump" /\ status'[q] = status[q] /\ core'[q] = core[q]
      /\ inbox'[r] = inbox[r] /\ inbox'[q] = inbox[q] /\ lives' = lives
  BY <1>1 DEF Pumps, Does, Kept
<1>4. /\ s \in Core /\ Whole(s) /\ ~Has(inbox[r], {"resync"})
  BY <1>3, PlayerLinks DEF Frame
<1>5. /\ core'[r].peer_next = s.peer_next
      /\ SampleWindow(r, s) = {} => core'[r].next_sample = s.next_sample
  BY <1>2, <1>4, PumpFacts DEF Whole
<1>6. Heir(r) = s /\ Alive(r) /\ PledgeAt(q)
  BY <1>1, <1>3, OneSnapshot DEF Alive, Begun, Past, Frame, Pledge
<1> HIDE DEF q, s
<1>7. Listening(q) /\ status'[r] # "push" =>
        core'[r].next_sample <= Heir(q).peer_next \/ \E u \in Throughs(Strm(q)') : u + 1 = core'[r].next_sample
  <2>1. Strm(q)' = Strm(q)
    BY <1>3 DEF Strm
  <2> QED BY <1>1, <1>2, <1>3, <1>5, <1>6, <2>1 DEF PledgeAt
<1>8. status[r] \in Frame /\ HeirOf(core[q], inbox'[q]) = HeirOf(core[q], inbox[q])
      /\ (Has(inbox'[q], {"resync"}) <=> Has(inbox[q], {"resync"})) /\ ~Has(inbox'[r], {"resync"})
  BY <1>3, <1>4 DEF Frame
<1> QED BY <1>1, <1>3, <1>5, <1>7, <1>8, PledgePlayed DEF s

(* A commit pledges all that was sampled. *)
LEMMA PledgePushes ==
  ASSUME TypeInv, Sampled, Control, Links, Pledge, NEW r \in Role, PushesCommand(r) \/ PushesCommit(r)
  PROVE  Pledge'
<1> DEFINE q == Peer(r)
           s == core[r]
           o == outbox[r]
<1>1. q \in Role /\ Peer(q) = r /\ Peer(r) = q
  BY PeerFacts
<1>2. /\ status[r] = "push" /\ s.next_sample > 0
      /\ core'[r] = s /\ status'[q] = status[q] /\ core'[q] = core[q]
      /\ inbox'[r] = inbox[r] /\ lives' = lives
      /\ Has(inbox'[q], {"resync"}) <=> Has(inbox[q], {"resync"})
      /\ HeirOf(core[q], inbox'[q]) = HeirOf(core[q], inbox[q])
  BY PushedOne
<1>3. PICK b \in Message :
        /\ \/ b.type = "command" /\ status'[r] = "push"
           \/ b.type = "commit" /\ b.through = s.next_sample - 1
        /\ Listening(q) => Strm(q)' = Append(Strm(q), b)
  BY PushedOne
<1>4. s \in Core /\ ~Has(inbox[r], {"resync"}) /\ Strm(q) \in Seq(Message)
  BY <1>1, <1>2, LinkTyped, PlayerLinks DEF Frame
<1>5. s.next_sample \in Nat
  BY <1>4 DEF Core
<1> HIDE DEF q, s, o
<1>6. Listening(q) /\ status'[r] # "push" => \E u \in Throughs(Strm(q)') : u + 1 = core'[r].next_sample
  <2> SUFFICES ASSUME Listening(q), status'[r] # "push"
               PROVE  \E u \in Throughs(Strm(q)') : u + 1 = core'[r].next_sample
    OBVIOUS
  <2>1. b.type = "commit" /\ b.through = s.next_sample - 1 /\ Strm(q)' = Append(Strm(q), b)
    BY <1>3
  <2>2. Throughs(Append(Strm(q), b)) = Throughs(Strm(q)) \cup {b.through}
    BY <1>4, <2>1, FlowAppend
  <2>3. b.through \in Throughs(Strm(q)')
    BY <2>1, <2>2
  <2>4. b.through + 1 = core'[r].next_sample
    BY <1>2, <1>5, <2>1
  <2> QED BY <2>3, <2>4
<1>7. status[r] \in Frame /\ ~Has(inbox'[r], {"resync"})
  BY <1>2, <1>4 DEF Frame
<1> QED BY <1>1, <1>2, <1>6, <1>7, PledgePlayed DEF s

(* A commit that is drained pledges as much in the watermark. *)
LEMMA PledgeDrains ==
  ASSUME TypeInv, Control, Links, Pledge, NEW r \in Role, TakesCommand(r) \/ TakesCommit(r)
  PROVE  Pledge'
<1> DEFINE q == Peer(r)
           b == Head(inbox[r])
           c == core[r]
           w == inbox[r]
<1>1. q \in Role /\ Peer(q) = r /\ Peer(r) = q
  BY PeerFacts
<1>2. /\ status[r] = "drain" /\ status'[r] = "drain" /\ w # <<>>
      /\ status'[q] = status[q] /\ core'[q] = core[q]
      /\ inbox'[r] = Tail(w) /\ inbox'[q] = inbox[q] /\ lives' = lives
  BY DEF TakesCommand, TakesCommit, Next1, Does, Kept, Rest
<1>3. \/ b.type = "command" /\ core'[r] = OnPeerCommand(c, b.m)
      \/ b.type = "commit" /\ core'[r] = OnPeerCommit(c, b.through)
  BY <1>2, HeadKinds DEF TakesCommand, TakesCommit, Next1, Does
<1>4. c \in Core /\ w \in Seq(Message) /\ ~Has(w, {"resync"}) /\ Heir(r) = c /\ Alive(r) /\ PledgeAt(q) /\ b \in Message
  BY <1>1, <1>2, PlayerLinks, OneSnapshot DEF Frame, Alive, Begun, Past, Pledge
<1>5. ~Has(inbox'[r], {"resync"})
  BY <1>2, <1>4, RestHas DEF Rest
<1> HIDE DEF q, b, c, w
<1>6. /\ core'[r].next_sample = c.next_sample /\ c.peer_next \in Nat
      /\ b.type = "command" => core'[r].peer_next = c.peer_next
      /\ b.type = "commit" => core'[r].peer_next \in Nat /\ c.peer_next <= core'[r].peer_next
                              /\ b.through + 1 <= core'[r].peer_next
  <2>1. CASE b.type = "command"
    BY <1>3, <1>4, <2>1 DEF OnPeerCommand, Core
  <2>2. CASE b.type = "commit"
    <3>1. b.through \in Nat
      BY <1>4, <2>2, MessageFacts
    <3> DEFINE t == b.through
               d == OnPeerCommit(c, t)
    <3>2. core'[r] = d /\ t \in Nat
      BY <1>3, <2>2, <3>1
    <3> HIDE DEF t
    <3>3. d.next_sample = c.next_sample /\ d.peer_next = IF t + 1 > c.peer_next THEN t + 1 ELSE c.peer_next
      BY <1>4, <3>2, CommitFacts
    <3> HIDE DEF d
    <3>4. c.peer_next \in Nat
      BY <1>4 DEF Core
    <3>5. d.peer_next \in Nat /\ c.peer_next <= d.peer_next /\ t + 1 <= d.peer_next
      BY <3>2, <3>3, <3>4
    <3> QED BY <2>2, <3>2, <3>3, <3>4, <3>5 DEF t
  <2> QED BY <1>3, <2>1, <2>2
<1>7. ASSUME Heir(q).next_sample <= c.peer_next \/ \E u \in Throughs(w) : u + 1 = Heir(q).next_sample
      PROVE  Heir(q).next_sample <= core'[r].peer_next
               \/ \E u \in Throughs(inbox'[r]) : u + 1 = Heir(q).next_sample
  <2>0. Heir(q).next_sample \in Nat
    BY <1>1, LinkTyped DEF Core
  <2>1. /\ b.type = "command" => Throughs(w) = Throughs(Tail(w))
        /\ b.type = "commit" => Throughs(w) = Throughs(Tail(w)) \cup {b.through}
    BY <1>2, <1>4, FlowTail DEF b, w
  <2>2. CASE Heir(q).next_sample <= c.peer_next
    BY <1>3, <1>6, <2>0, <2>2
  <2>3. CASE \E u \in Throughs(w) : u + 1 = Heir(q).next_sample
    BY <1>2, <1>3, <1>6, <2>1, <2>3
  <2> QED BY <1>7, <2>2, <2>3
<1>8. Listening(q) =>
        core'[r].next_sample <= Heir(q).peer_next \/ \E u \in Throughs(Strm(q)') : u + 1 = core'[r].next_sample
  <2>1. Strm(q)' = Strm(q)
    BY <1>2 DEF Strm
  <2> QED BY <1>1, <1>2, <1>4, <1>6, <2>1 DEF PledgeAt
<1>9. status[r] \in Frame /\ HeirOf(core[q], inbox'[q]) = HeirOf(core[q], inbox[q])
      /\ (Has(inbox'[q], {"resync"}) <=> Has(inbox[q], {"resync"}))
  BY <1>2 DEF Frame
<1> QED BY <1>1, <1>2, <1>5, <1>7, <1>8, <1>9, PledgePlayed DEF c, w

(* A frame's end, or a loss. *)
LEMMA PledgeEnds ==
  ASSUME TypeInv, Control, Links, Pledge, NEW r \in Role,
         EndsFrame(r) \/ FallsSilent(r) \/ Quits(r) \/ Holds(r)
  PROVE  Pledge'
<1> DEFINE q == Peer(r)
           s == core[r]
           d == Advance(r, s)
<1>1. q \in Role /\ Peer(q) = r /\ Peer(r) = q
  BY PeerFacts
<1>2. /\ status[r] = "drain" /\ status'[q] = status[q] /\ core'[q] = core[q]
      /\ inbox'[q] = inbox[q] /\ lives' = lives
      /\ inbox'[r] = inbox[r] \/ inbox'[r] = <<>> \/ (inbox[r] # <<>> /\ inbox'[r] = Rest(r))
      /\ core'[r] \in {d, OnPeerLost(d), OnPeerLost(s)}
      /\ Attends(r)' => inbox'[r] = inbox[r]
  BY DEF EndsFrame, FallsSilent, Quits, Holds, Does, Gone, Kept, Next1, Attends, Frame
<1>3. /\ s \in Core /\ Whole(s) /\ ~Has(inbox[r], {"resync"})
  BY <1>2, PlayerLinks DEF Frame
<1>4. d \in Core /\ d.next_sample = s.next_sample /\ d.peer_next = s.peer_next
  BY <1>3, AdvanceKeeps
<1>5. Heir(r) = s /\ Alive(r) /\ PledgeAt(q)
  BY <1>1, <1>2, OneSnapshot DEF Alive, Begun, Past, Frame, Pledge
<1> HIDE DEF q, s, d
<1>6. core'[r].next_sample = s.next_sample /\ core'[r].peer_next = s.peer_next
  BY <1>2, <1>3, <1>4, LostTyped
<1>7. Listening(q) =>
        core'[r].next_sample <= Heir(q).peer_next \/ \E u \in Throughs(Strm(q)') : u + 1 = core'[r].next_sample
  <2>1. Strm(q)' = Strm(q)
    BY <1>2 DEF Strm
  <2> QED BY <1>1, <1>2, <1>5, <1>6, <2>1 DEF PledgeAt
<1>8. ~Has(inbox'[r], {"resync"})
  <2>1. CASE inbox'[r] = inbox[r]
    BY <1>3, <2>1
  <2>2. CASE inbox'[r] = <<>>
    BY <2>2 DEF Has
  <2>3. CASE inbox[r] # <<>> /\ inbox'[r] = Rest(r)
    BY <1>3, <2>3, RestHas
  <2> QED BY <1>2, <2>1, <2>2, <2>3
<1>9. status[r] \in Frame /\ HeirOf(core[q], inbox'[q]) = HeirOf(core[q], inbox[q])
      /\ (Has(inbox'[q], {"resync"}) <=> Has(inbox[q], {"resync"}))
  BY <1>2 DEF Frame
<1> QED BY <1>1, <1>2, <1>6, <1>7, <1>8, <1>9, PledgePlayed DEF s

(* The first hello: nobody has played, and nobody is answered. *)
LEMMA FirstHello ==
  ASSUME TypeInv, Control, NEW r \in Role, Speaks(r), lives[r] = 0
  PROVE  LET q == Peer(r) IN
         /\ status[r] = "joining" /\ status'[r] = "barrier" /\ status'[q] = status[q]
         /\ lives' = lives /\ played' = played /\ digest'[r] = digest[r] /\ digest'[q] = digest[q]
         /\ inbox'[r] = inbox[r] /\ inbox'[q] = Sent(r, Hello(r))
         /\ Heir(r)' = NewCore /\ Heir(q)' = NewCore
<1> DEFINE q == Peer(r)
<1>1. q \in Role /\ Peer(q) = r /\ Peer(r) = q
  BY PeerFacts
<1> HIDE DEF q
<1>2. /\ status[r] = "joining" /\ status'[r] = "barrier" /\ status'[q] = status[q]
      /\ core'[r] = core[r] /\ core'[q] = core[q] /\ digest'[r] = digest[r] /\ digest'[q] = digest[q]
      /\ inbox'[r] = inbox[r] /\ inbox'[q] = Sent(r, Hello(r)) /\ lives' = lives /\ played' = played
  BY <1>1 DEF Speaks, Moves, Does, Kept
<1>3. /\ status[q] \in {"offline", "joining", "barrier", "resync", "no_peer"}
      /\ ~Has(inbox[q], {"hello", "rejoin"} \cup Traffic) /\ ~Has(inbox[r], Traffic)
  BY <1>1, <1>2 DEF Control, ControlAt, Early
<1>4. core[r] = NewCore /\ core[q] = NewCore
  BY <1>1, <1>2, <1>3 DEF Control, ControlAt, Roles
<1>5. Same(inbox'[q], inbox[q])
  BY <1>1, <1>2, CalmMail
<1>6. ~Has(inbox'[r], {"resync"}) /\ ~Has(inbox'[q], {"resync"})
  BY <1>2, <1>3, <1>5 DEF Has, Traffic, Same
<1>7. Heir(r)' = NewCore /\ Heir(q)' = NewCore
  BY <1>2, <1>4, <1>6 DEF Heir, HeirOf
<1> QED BY <1>2, <1>7 DEF q

(* Nothing was sampled. *)
LEMMA PledgeSpeaks ==
  ASSUME TypeInv, Control, NEW r \in Role, Speaks(r), lives[r] = 0
  PROVE  Pledge'
<1> DEFINE q == Peer(r)
<1>1. q \in Role /\ Peer(q) = r /\ Peer(r) = q
  BY PeerFacts
<1>2. Heir(r)' = NewCore /\ Heir(q)' = NewCore
  BY FirstHello
<1> HIDE DEF q
<1>3. NewCore.next_sample <= NewCore.peer_next
  BY DEF NewCore
<1>4. PledgeAt(r)' /\ PledgeAt(q)'
  BY <1>1, <1>2, <1>3 DEF PledgeAt
<1> QED BY <1>1, <1>4, PeerFacts DEF Pledge

(* A snapshot taken up pledges as much as it did in the inbox. *)
LEMMA PledgeResumes ==
  ASSUME TypeInv, Control, Pledge, NEW r \in Role, Heir(r)' = Heir(r), Heir(Peer(r))' = Heir(Peer(r)),
         Strm(r)' = Strm(r), Strm(Peer(r))' = Strm(Peer(r)),
         Listening(r), Alive(r), status[r] # "push", status'[Peer(r)] = status[Peer(r)],
         Listening(Peer(r))' => Listening(Peer(r)), Alive(Peer(r))' => Alive(Peer(r))
  PROVE  Pledge'
<1> DEFINE q == Peer(r)
<1>1. q \in Role /\ Peer(q) = r /\ Peer(r) = q
  BY PeerFacts
<1>2. PledgeAt(r) /\ PledgeAt(q)
  BY <1>1 DEF Pledge
<1>3. PledgeAt(r)'
  BY <1>1, <1>2, PledgeStays
<1>4. PledgeAt(q)'
  BY <1>1, <1>2, PledgeStays
<1> QED BY <1>1, <1>3, <1>4, PeerFacts DEF Pledge

(* A process that died pledges nothing. *)
LEMMA PledgeDies ==
  ASSUME TypeInv, Control, NEW r \in Role, Dies(r)
  PROVE  Pledge'
<1> DEFINE q == Peer(r)
<1>1. q \in Role /\ Peer(q) = r /\ Peer(r) = q
  BY PeerFacts
<1>2. status'[r] = "offline" /\ inbox'[r] = <<>> /\ lives'[r] = lives[r] + 1
  BY DEF Dies, Does
<1>3. ~Has(inbox'[r], {"resync"}) /\ lives'[r] # 0
  BY <1>2 DEF Has, TypeInv, TypeOK
<1>4. ~Listening(r)' /\ ~Alive(r)'
  BY <1>2, <1>3 DEF Listening, Attends, Frame, Alive, Begun, Past, Holding
<1>5. PledgeAt(r)' /\ PledgeAt(q)'
  BY <1>1, <1>4 DEF PledgeAt
<1> QED BY <1>1, <1>5, PeerFacts DEF Pledge

(* A snapshot's watermarks are what each seat has sampled. *)
LEMMA PledgeHandsOver ==
  ASSUME TypeInv, Control, NEW r \in Role, HandsOver(r)
  PROVE  Pledge'
<1> DEFINE q == Peer(r)
           c == OnPeerLost(core[r])
           h == AdoptResync(MakeResync(c))
<1>1. q \in Role /\ Peer(q) = r /\ Peer(r) = q
  BY PeerFacts
<1>2. /\ status[q] \in {"resync", "no_peer"} /\ Heir(r)' = c
      /\ status[q] = "resync" => Heir(q)' = h
      /\ status[q] = "no_peer" => ~Listening(q)' /\ ~Alive(q)'
  BY HandedOver
<1>3. h.next_sample = c.peer_next /\ h.peer_next = c.next_sample
  BY DEF AdoptResync, MakeResync
<1>4. c.next_sample \in Nat /\ c.peer_next \in Nat
  BY LinkTyped, LostTyped DEF Core
<1> HIDE DEF q, c, h
<1>5. PledgeAt(r)' /\ PledgeAt(q)'
  BY <1>1, <1>2, <1>3, <1>4 DEF PledgeAt
<1> QED BY <1>1, <1>5, PeerFacts DEF Pledge

(* Every step keeps the duties: nobody is taken for lost who is not. *)
LEMMA DutyStep ==
  ASSUME TypeInv, TypeInv', Sampled, Control, Control', Duty, "grace" \notin Hasty, [Next]_vars
  PROVE  Duty'
<1>1. CASE UNCHANGED vars
  BY <1>1 DEF vars, Duty, DutyAt, Awaiting, Begun
<1>2. ASSUME NEW r \in Role,
             \/ Bringing(r) \/ Framing(r) \/ Draining(r) \/ Parting(r)
             \/ Greets(r) \/ HandsOver(r) \/ Drops(r)
      PROVE  Duty'
  BY <1>2, ActsMoves, DutyActs
<1> QED BY <1>1, <1>2, StepMoves, DutyDies, DutyReports

(* Every step keeps the pledges. *)
LEMMA PledgeStep ==
  ASSUME TypeInv, Sampled, Control, Links, Pledge, [Next]_vars
  PROVE  Pledge'
<1>1. CASE UNCHANGED vars
  BY <1>1 DEF vars, Pledge, PledgeAt, Heir, Strm, Listening, Attends, Alive, Begun
<1>2. ASSUME NEW r \in Role,
             \/ Bringing(r) \/ Framing(r) \/ Draining(r) \/ Parting(r)
             \/ Greets(r) \/ HandsOver(r) \/ Drops(r) \/ Dies(r) \/ Reports(r)
      PROVE  Pledge'
  <2>1. lives[r] \in Nat /\ Peer(r) \in Role
    BY PeerFacts DEF TypeInv, TypeOK
  <2>2. ASSUME \/ Joins(r) \/ Greets(r) \/ FindsNoRun(r) \/ Starts(r) \/ Drops(r) \/ TakesDigest(r)
               \/ Abandons(r) \/ TellsDigest(r) \/ Completes(r) \/ Reports(r)
               \/ (Speaks(r) /\ lives[r] > 0)
        PROVE  Pledge'
    <3>1. status'[r] # "push" => status[r] # "push"
      <4> USE DEF Moves, Does, Holding
      <4>1. Reports(r) => status'[r] = status[r]
        BY DEF Reports
      <4> QED BY <2>2, <4>1 DEF Joins, Greets, FindsNoRun, Starts, Drops, TakesDigest, Abandons, TellsDigest, Completes, Speaks
    <3> QED BY <2>2, <3>1, CalmMoves, PledgeCalm
  <2>3. CASE Bringing(r)
    <3>1. CASE Resumes(r)
      <4>1. status[r] # "push" /\ Heir(r)' = Heir(r) /\ Heir(Peer(r))' = Heir(Peer(r))
            /\ Strm(r)' = Strm(r) /\ Strm(Peer(r))' = Strm(Peer(r)) /\ Listening(r) /\ Alive(r)
            /\ status'[Peer(r)] = status[Peer(r)]
            /\ (Alive(Peer(r))' => Alive(Peer(r))) /\ (Listening(Peer(r))' => Listening(Peer(r)))
        BY <3>1, TakenUp
      <4> QED BY <4>1, PledgeResumes
    <3> QED BY <2>1, <2>2, <2>3, <3>1, PledgeSpeaks DEF Bringing
  <2>4. CASE Framing(r)
    BY <2>4, PledgePumps, PledgePushes, PledgeEnds DEF Framing
  <2>5. CASE Draining(r)
    BY <2>2, <2>5, NeverFails, PledgeDrains, PledgeEnds DEF Draining
  <2>6. CASE Parting(r)
    BY <2>2, <2>6 DEF Parting
  <2> QED BY <1>2, <2>2, <2>3, <2>4, <2>5, <2>6, PledgeHandsOver, PledgeDies
<1> QED BY <1>1, <1>2, StepMoves

(* At the start there is nothing to know. *)
LEMMA PledgeInit ==
  ASSUME Init
  PROVE  Pledge
<1> SUFFICES ASSUME NEW r \in Role PROVE PledgeAt(r)
  BY DEF Pledge
<1>1. status[r] = "offline" /\ inbox[r] = <<>>
  BY DEF Init
<1>2. ~Listening(r)
  BY <1>1 DEF Listening, Attends, Frame, Has
<1> QED BY <1>2 DEF PledgeAt

-------------------------------------------------------------------------------
(* What the seats tell each other at the end.                                *)

(* The digests an inbox carries. *)
LEMMA LogsFacts ==
  ASSUME NEW w \in Seq(Message)
  PROVE  /\ Logs(<<>>) = {}
         /\ \A b \in Message : /\ b.type = "digest" => Logs(Append(w, b)) = Logs(w) \cup {b.log}
                               /\ b.type # "digest" => Logs(Append(w, b)) = Logs(w)
         /\ w # <<>> => /\ Logs(Tail(w)) \subseteq Logs(w)
                        /\ Head(w).type = "digest" => Head(w).log \in Logs(w)
<1>1. Logs(<<>>) = {}
  BY DEF Logs
<1>2. ASSUME NEW b \in Message
      PROVE  /\ b.type = "digest" => Logs(Append(w, b)) = Logs(w) \cup {b.log}
             /\ b.type # "digest" => Logs(Append(w, b)) = Logs(w)
  <2> DEFINE v == Append(w, b)
             n == Len(w)
  <2>1. /\ n \in Nat /\ DOMAIN w = 1 .. n /\ DOMAIN v = 1 .. n + 1
        /\ v[n + 1] = b /\ \A i \in 1 .. n : v[i] = w[i]
    OBVIOUS
  <2> HIDE DEF v, n
  <2>2. \A i \in 1 .. n + 1 : i \in 1 .. n \/ i = n + 1
    BY <2>1
  <2>3. Logs(w) \subseteq Logs(v) /\ (b.type = "digest" => b.log \in Logs(v))
    BY <2>1, <2>2 DEF Logs
  <2>4. \A x \in Logs(v) : x \in Logs(w) \/ (b.type = "digest" /\ x = b.log)
    <3> SUFFICES ASSUME NEW x \in Logs(v) PROVE x \in Logs(w) \/ (b.type = "digest" /\ x = b.log)
      OBVIOUS
    <3>1. PICK i \in DOMAIN v : v[i].type = "digest" /\ x = v[i].log
      BY DEF Logs
    <3> QED BY <2>1, <2>2, <3>1 DEF Logs
  <2> QED BY <2>3, <2>4 DEF v
<1>3. ASSUME w # <<>>
      PROVE  Logs(Tail(w)) \subseteq Logs(w) /\ (Head(w).type = "digest" => Head(w).log \in Logs(w))
  <2> DEFINE v == Tail(w)
             n == Len(w)
  <2>1. /\ n \in Nat /\ n > 0 /\ DOMAIN w = 1 .. n /\ DOMAIN v = 1 .. n - 1
        /\ \A i \in 1 .. n - 1 : v[i] = w[i + 1]
        /\ Head(w) = w[1]
    BY <1>3
  <2> HIDE DEF v, n
  <2>2. Logs(v) \subseteq Logs(w)
    <3> SUFFICES ASSUME NEW x \in Logs(v) PROVE x \in Logs(w)
      OBVIOUS
    <3>1. PICK i \in DOMAIN v : v[i].type = "digest" /\ x = v[i].log
      BY DEF Logs
    <3>2. i + 1 \in DOMAIN w /\ w[i + 1] = v[i]
      BY <2>1, <3>1
    <3> QED BY <3>1, <3>2 DEF Logs
  <2>3. w[1].type = "digest" => w[1].log \in Logs(w)
    <3>1. 1 \in DOMAIN w
      BY <2>1
    <3> QED BY <3>1 DEF Logs
  <2> QED BY <2>1, <2>2, <2>3 DEF v
<1> QED BY <1>1, <1>2, <1>3

(* A seat is told nothing but digests, and by TellsDigest alone. *)
LEMMA ToldSent ==
  ASSUME TypeInv, NEW r \in Role, NEW b \in Message, b.type # "digest"
  PROVE  Logs(Sent(r, b)) = Logs(inbox[Peer(r)])
<1>1. inbox[Peer(r)] \in Seq(Message)
  BY PeerFacts DEF TypeInv, TypeOK
<1> QED BY <1>1, LogsFacts DEF Sent

(* What a seat is told, by a step that pushes no digest. *)
LEMMA ToldKeeps ==
  ASSUME TypeInv, NEW r \in Role,
         \/ digest'[r] = digest[r]
         \/ digest'[r] = {}
         \/ inbox[r] # <<>> /\ Head(inbox[r]).type = "digest" /\ digest'[r] = {Head(inbox[r]).log},
         \/ inbox'[r] \in {inbox[r], <<>>}
         \/ inbox[r] # <<>> /\ inbox'[r] = Rest(r)
  PROVE  Told(r)' \subseteq Told(r)
<1>1. inbox[r] \in Seq(Message)
  BY DEF TypeInv, TypeOK
<1>2. Logs(inbox'[r]) \subseteq Logs(inbox[r])
  BY <1>1, LogsFacts DEF Rest
<1>3. digest'[r] \subseteq digest[r] \cup Logs(inbox[r])
  BY <1>1, LogsFacts
<1> QED BY <1>2, <1>3 DEF Told

(* Hello and peer_joined and peer_left are no digests. *)
LEMMA ToldNoise ==
  ASSUME TypeInv, NEW r \in Role
  PROVE  /\ Logs(Sent(r, Hello(r))) = Logs(inbox[Peer(r)])
         /\ Logs(Sent(r, [type |-> "peer_joined"])) = Logs(inbox[Peer(r)])
         /\ Logs(Sent(r, [type |-> "peer_left"])) = Logs(inbox[Peer(r)])
<1>1. Logs(Sent(r, Hello(r))) = Logs(inbox[Peer(r)])
  <2>1. Hello(r) \in Message /\ Hello(r).type # "digest"
    BY HelloKind DEF Hello
  <2> QED BY <2>1, ToldSent
<1>2. Logs(Sent(r, [type |-> "peer_joined"])) = Logs(inbox[Peer(r)])
  <2> DEFINE b == [type |-> "peer_joined"]
  <2>1. b \in Message /\ b.type # "digest"
    BY PostedFacts DEF Mail
  <2> HIDE DEF b
  <2>2. Logs(Sent(r, b)) = Logs(inbox[Peer(r)])
    BY <2>1, ToldSent
  <2> QED BY <2>2 DEF b
<1>3. Logs(Sent(r, [type |-> "peer_left"])) = Logs(inbox[Peer(r)])
  <2> DEFINE b == [type |-> "peer_left"]
  <2>1. b \in Message /\ b.type # "digest"
    BY PostedFacts DEF Mail
  <2> HIDE DEF b
  <2>2. Logs(Sent(r, b)) = Logs(inbox[Peer(r)])
    BY <2>1, ToldSent
  <2> QED BY <2>2 DEF b
<1> QED BY <1>1, <1>2, <1>3

(* What is played later takes nothing from what was final. *)
LEMMA FinalStays ==
  ASSUME NEW L, NEW P, NEW Q, P \subseteq Q, Q \subseteq Executed, NEW h \in Nat, NEW g \in Nat, h <= g,
         \A e \in Q : e \in P \/ h <= e.at, Final(L, P, h)
  PROVE  Final(L, Q, g)
<1>1. PICK f \in 0 .. h : FinalAt(L, f, P)
  BY DEF Final
<1>2. f \in 0 .. g /\ f \in Nat
  OBVIOUS
<1>3. \A e \in Q : e.at \in Nat
  BY DEF Executed
<1>4. Below(Q, f) = Below(P, f)
  BY <1>1, <1>3 DEF Below
<1>5. FinalAt(L, f, Q)
  BY <1>1, <1>4 DEF FinalAt
<1> QED BY <1>2, <1>5 DEF Final

(* The log a seat ends with is final. *)
LEMMA FinalTold ==
  ASSUME NEW c \in Core, Finished(c), EndedLast(c), NEW P, c.ran = Below(P, c.step), NEW h \in Nat, c.step <= h
  PROVE  FinalAt(c.ran, c.step, P) /\ Final(c.ran, P, h)
<1>1. c.step \in Nat /\ MaxSteps \in Nat
  BY ConfigAssumption DEF Core
<1>2. c.step = MaxSteps \/ \E e \in c.ran : e.cmd \in EndCommands
  <2>1. CASE c.ended
    BY <2>1 DEF EndedLast, SimEnded
  <2>2. CASE c.step >= MaxSteps
    BY <1>1, <2>2 DEF EndedLast
  <2> QED BY <2>1, <2>2 DEF Finished
<1>3. FinalAt(c.ran, c.step, P)
  BY <1>2 DEF FinalAt, EndedLast
<1>4. c.step \in 0 .. h
  BY <1>1
<1> QED BY <1>3, <1>4 DEF Final

(* Two final logs of the same play are one. *)
LEMMA FinalsEqual ==
  ASSUME NEW P, P \subseteq Executed, NEW L, NEW M, NEW f \in 0 .. MaxSteps, NEW g \in 0 .. MaxSteps,
         FinalAt(L, f, P), FinalAt(M, g, P)
  PROVE  f = g /\ L = M
<1>0. MaxSteps \in Nat
  BY ConfigAssumption
<1>1. ASSUME NEW X, NEW Y, NEW a \in 0 .. MaxSteps, NEW b \in 0 .. MaxSteps, FinalAt(X, a, P), FinalAt(Y, b, P), a < b
      PROVE  FALSE
  <2>1. PICK e \in X : e.cmd \in EndCommands
    BY <1>0, <1>1 DEF FinalAt
  <2>2. e \in P /\ e.at < a
    BY <1>1, <2>1 DEF FinalAt, Below
  <2>3. e.at \in Nat
    BY <2>2 DEF Executed
  <2>4. e \in Y
    BY <1>0, <1>1, <2>2, <2>3 DEF FinalAt, Below
  <2>5. b <= e.at + 1
    BY <1>1, <2>1, <2>4 DEF FinalAt
  <2> QED BY <1>0, <1>1, <2>2, <2>3, <2>5
<1>2. f = g
  BY <1>0, <1>1
<1> QED BY <1>2 DEF FinalAt

(* A seat leaves the frame loop when its run is over, and plays no more. *)
LEMMA ClosingStep ==
  ASSUME TypeInv, Control, Closing, [Next]_vars
  PROVE  Closing'
<1>1. CASE UNCHANGED vars
  BY <1>1 DEF vars, Closing, ClosingAt
<1>2. ASSUME NEW r \in Role,
             \/ Bringing(r) \/ Framing(r) \/ Draining(r) \/ Parting(r)
             \/ Greets(r) \/ HandsOver(r) \/ Drops(r) \/ Dies(r) \/ Reports(r)
      PROVE  Closing'
  <2>1. ClosingAt(r) /\ ClosingAt(Peer(r))
    BY PeerFacts DEF Closing
  <2>2. \A c : Loop(c) \in {"closing", "pump"} /\ (Loop(c) = "closing" => Finished(c))
    BY DEF Loop
  <2>3. ClosingAt(r)' /\ status'[Peer(r)] = status[Peer(r)] /\ core'[Peer(r)] = core[Peer(r)]
    <3> USE DEF Does, Moves, ClosingAt
    <3>1. CASE Bringing(r)
      <4>1. CASE Joins(r)
        BY <2>1, <4>1 DEF Joins
      <4>2. CASE Speaks(r)
        BY <2>1, <4>2 DEF Speaks
      <4>3. CASE FindsNoRun(r)
        BY <2>1, <4>3 DEF FindsNoRun
      <4>4. CASE Starts(r)
        BY <2>1, <2>2, <4>4 DEF Starts
      <4>5. CASE Resumes(r)
        BY <2>1, <2>2, <4>5 DEF Resumes
      <4> QED BY <3>1, <4>1, <4>2, <4>3, <4>4, <4>5 DEF Bringing
    <3>2. CASE Framing(r)
      <4>1. CASE Pumps(r)
        BY <2>1, <4>1 DEF Pumps
      <4>2. CASE PushesCommand(r) \/ PushesCommit(r)
        BY <2>1, <4>2 DEF PushesCommand, PushesCommit
      <4>3. CASE EndsFrame(r)
        <5>1. \A c : status'[r] = Loop(c) /\ core'[r] = c => ClosingAt(r)'
          BY <2>2
        <5> QED BY <4>3, <5>1 DEF EndsFrame
      <4>4. CASE FallsSilent(r) \/ Quits(r)
        BY <2>1, <4>4 DEF FallsSilent, Quits
      <4> QED BY <3>2, <4>1, <4>2, <4>3, <4>4 DEF Framing
    <3>3. CASE Draining(r)
      BY <2>1, <3>3 DEF Draining, TakesCommand, TakesCommit, Fails, TakesDigest, Holds
    <3>4. CASE Parting(r)
      BY <2>1, <3>4 DEF Parting, Abandons, TellsDigest, Completes
    <3>5. CASE Greets(r) \/ Drops(r)
      BY <2>1, <3>5 DEF Greets, Drops
    <3>6. CASE Reports(r)
      BY <2>1, <3>6 DEF Reports
    <3>7. CASE HandsOver(r) \/ Dies(r)
      BY <2>1, <3>7 DEF HandsOver, Dies
    <3> QED BY <1>2, <3>1, <3>2, <3>3, <3>4, <3>5, <3>6, <3>7
  <2> QED BY <2>1, <2>3, PeerFacts DEF Closing, ClosingAt
<1> QED BY <1>1, <1>2, StepMoves

-------------------------------------------------------------------------------
(* What everybody remembers, step by step.                                   *)

(* A seat that a step leaves what it knew. *)
LEMMA RemembersStays ==
  ASSUME NEW x \in Role, NEW h \in Nat, played \subseteq Executed, Remembers(x, h), played' = played,
         Heir(x)' = Heir(x) \/ Heir(x)' = NewCore,
         Informed(x)' => /\ Informed(x) /\ Heir(x)' = Heir(x)
                         /\ Cmds(Strm(x))' = Cmds(Strm(x)) /\ Throughs(Strm(x))' = Throughs(Strm(x)),
         \A L \in Told(x)' : Final(L, played, h),
         lives'[x] = 0 /\ status'[x] \in {"offline", "joining"} => lives[x] = 0 /\ status[x] \in {"offline", "joining"}
  PROVE  Remembers(x, h)'
<1>1. /\ Heir(x)'.step <= h /\ Heir(x)'.ran = Below(played, Heir(x)'.step) /\ EndedLast(Heir(x)')
  <2>1. CASE Heir(x)' = Heir(x)
    BY <2>1 DEF Remembers
  <2>2. CASE Heir(x)' = NewCore
    <3>1. NewCore.step = 0 /\ NewCore.ran = {} /\ NewCore.ended = FALSE
      BY DEF NewCore
    <3>2. \A e \in played : ~(e.at < 0)
      BY DEF Executed
    <3> QED BY <2>2, <3>1, <3>2, ConfigAssumption DEF Below, EndedLast
  <2> QED BY <2>1, <2>2
<1>2. Informed(x)' => Knows(x, Heir(x), Cmds(Strm(x)), Throughs(Strm(x)), played, h)'
  <2> SUFFICES ASSUME Informed(x)'
               PROVE  Knows(x, Heir(x)', Cmds(Strm(x))', Throughs(Strm(x))', played', h)
    OBVIOUS
  <2> QED BY DEF Remembers
<1> QED BY <1>1, <1>2 DEF Remembers

(* A seat that waits, and takes or drops what is neither play nor a snapshot. *)
LEMMA AwaitingStays ==
  ASSUME TypeInv, Control, Duty, NEW r \in Role, Awaiting(r), core'[r] = core[r],
         \/ inbox'[r] \in {inbox[r], <<>>}
         \/ inbox[r] # <<>> /\ inbox'[r] = Rest(r)
  PROVE  /\ Heir(r) = core[r] /\ Heir(r)' = core[r]
         /\ Cmds(Strm(r)) = {} /\ Throughs(Strm(r)) = {} /\ Cmds(Strm(r))' = {} /\ Throughs(Strm(r))' = {}
<1>1. inbox[r] \in Seq(Message) /\ ~Has(inbox[r], {"resync"}) /\ Heir(r) = core[r] /\ Strm(r) = inbox[r]
  BY OneSnapshot DEF Awaiting, Holding
<1>2. ~Has(inbox[r], Traffic)
  BY DEF Duty, DutyAt
<1>3. inbox'[r] \in Seq(Message) /\ \A K : Has(inbox'[r], K) => Has(inbox[r], K)
  <2>1. CASE inbox'[r] = inbox[r]
    BY <1>1, <2>1
  <2>2. CASE inbox'[r] = <<>>
    BY <2>2 DEF Has
  <2>3. CASE inbox[r] # <<>> /\ inbox'[r] = Rest(r)
    BY <1>1, <2>3, RestHas DEF Rest
  <2> QED BY <2>1, <2>2, <2>3
<1>4. Heir(r)' = core[r] /\ Strm(r)' = inbox'[r]
  BY <1>1, <1>3 DEF Heir, HeirOf, Strm, Stream
<1> QED BY <1>1, <1>2, <1>3, <1>4, FlowEmpty

(* A calm step leaves everybody what they knew. *)
LEMMA StoryCalm ==
  ASSUME TypeInv, Control, Duty, NEW h \in Nat, Story(h), NEW r \in Role, Calm(r), played' = played,
         status'[r] \in Holding => status'[r] = status[r],
         Begun(r) => Begun(r)',
         \/ inbox'[r] \in {inbox[r], <<>>}
         \/ inbox[r] # <<>> /\ inbox'[r] = Rest(r),
         status'[r] \in {"offline", "joining"} => status[r] \in {"offline", "joining"},
         \A L \in Told(r)' : Final(L, played, h), \A L \in Told(Peer(r))' : Final(L, played, h)
  PROVE  Story(h)'
<1> DEFINE q == Peer(r)
<1>1. q \in Role /\ Peer(q) = r /\ Peer(r) = q
  BY PeerFacts
<1>2. /\ Heir(q)' = Heir(q) /\ (Listening(q)' => Listening(q)) /\ Same(inbox'[q], inbox[q])
      /\ Listening(r)' => Listening(r) /\ Heir(r)' = Heir(r) /\ Same(inbox'[r], inbox[r])
      /\ Heir(r)' = Heir(r) \/ Heir(r)' = NewCore
  BY CalmKeeps
<1> HIDE DEF q
<1>3. /\ core'[r] = core[r] /\ status'[q] = status[q] /\ lives' = lives /\ played \subseteq Executed
      /\ Remembers(r, h) /\ Remembers(q, h) /\ \A e \in played : e.at < h
  BY <1>1 DEF Calm, Story, TypeInv, TypeOK
<1>4. \A x \in Role : Same(inbox'[x], inbox[x]) =>
        Cmds(Strm(x))' = Cmds(Strm(x)) /\ Throughs(Strm(x))' = Throughs(Strm(x))
  BY DEF Same, Strm
<1>5. Remembers(r, h)'
  <2>1. Awaiting(r)' => Awaiting(r)
    BY <1>1, <1>3 DEF Awaiting, Begun
  <2>2. Awaiting(r) => /\ Heir(r)' = Heir(r)
                       /\ Cmds(Strm(r))' = Cmds(Strm(r)) /\ Throughs(Strm(r))' = Throughs(Strm(r))
    BY <1>3, AwaitingStays
  <2>3. Informed(r)' => /\ Informed(r) /\ Heir(r)' = Heir(r)
                        /\ Cmds(Strm(r))' = Cmds(Strm(r)) /\ Throughs(Strm(r))' = Throughs(Strm(r))
    BY <1>2, <1>4, <2>1, <2>2 DEF Informed
  <2> QED BY <1>2, <1>3, <2>3, RemembersStays
<1>6. Remembers(q, h)'
  <2>1. Awaiting(q)' => Awaiting(q)
    BY <1>1, <1>3 DEF Awaiting
  <2>2. Informed(q)' => /\ Informed(q) /\ Heir(q)' = Heir(q)
                        /\ Cmds(Strm(q))' = Cmds(Strm(q)) /\ Throughs(Strm(q))' = Throughs(Strm(q))
    BY <1>1, <1>2, <1>4, <2>1 DEF Informed
  <2>3. \A L \in Told(q)' : Final(L, played, h)
    BY DEF q
  <2> QED BY <1>1, <1>2, <1>3, <2>2, <2>3, RemembersStays
<1>7. \A e \in played' : e.at < h
  BY <1>3
<1> QED BY <1>1, <1>5, <1>6, <1>7, PeerFacts DEF Story

(* The calm moves, and what their seats are told. *)
LEMMA StoryCalmMoves ==
  ASSUME TypeInv, Sampled, Control, Duty, Closing, NEW h \in Nat, Story(h), NEW r \in Role,
         \/ Joins(r) \/ Greets(r) \/ FindsNoRun(r) \/ Starts(r) \/ Drops(r) \/ TakesDigest(r)
         \/ Abandons(r) \/ TellsDigest(r) \/ Completes(r) \/ Reports(r)
         \/ (Speaks(r) /\ lives[r] > 0)
  PROVE  Story(h)'
<1> DEFINE q == Peer(r)
<1>1. q \in Role /\ Peer(q) = r /\ Peer(r) = q
  BY PeerFacts
<1>2. Calm(r)
  BY CalmMoves
<1>3. Remembers(r, h) /\ Remembers(q, h) /\ ClosingAt(r)
  BY <1>1 DEF Story, Closing
<1>4. /\ played' = played
      /\ status'[r] \in Holding => status'[r] = status[r]
      /\ status'[r] \in {"offline", "joining"} => status[r] \in {"offline", "joining"}
      /\ inbox'[r] \in {inbox[r], <<>>} \/ (inbox[r] # <<>> /\ inbox'[r] = Rest(r))
      /\ \/ digest'[r] = digest[r]
         \/ inbox[r] # <<>> /\ Head(inbox[r]).type = "digest" /\ digest'[r] = {Head(inbox[r]).log}
      /\ digest'[q] = digest[q]
      /\ inbox'[q] \in {inbox[q], Sent(r, Hello(r)), Sent(r, [type |-> "peer_joined"]),
                        Sent(r, [type |-> "peer_left"])}
         \/ (TellsDigest(r) /\ inbox'[q] = Sent(r, [type |-> "digest", log |-> core[r].ran]))
  <2>0. \A c : Loop(c) \in {"closing", "pump"}
    BY DEF Loop
  <2>00. inbox[r] # <<>> /\ Kind(Head(inbox[r])) = "digest" => Head(inbox[r]).type = "digest"
    BY HeadKinds
  <2> USE DEF Does, Moves, Kept, Next1, Holding
  <2>1. CASE Joins(r)
    BY <2>1 DEF Joins
  <2>2. CASE Greets(r)
    BY <2>2 DEF Greets
  <2>3. CASE FindsNoRun(r)
    BY <2>3 DEF FindsNoRun
  <2>4. CASE Starts(r)
    BY <2>0, <2>4 DEF Starts
  <2>5. CASE Drops(r)
    BY <2>5 DEF Drops
  <2>6. CASE TakesDigest(r)
    BY <2>00, <2>6 DEF TakesDigest
  <2>7. CASE Abandons(r)
    BY <2>7 DEF Abandons
  <2>8. CASE TellsDigest(r)
    BY <2>8 DEF TellsDigest
  <2>9. CASE Completes(r)
    BY <2>00, <2>9 DEF Completes
  <2>10. CASE Reports(r)
    BY <2>10 DEF Reports
  <2>11. CASE Speaks(r)
    BY <2>11 DEF Speaks
  <2> QED BY <2>1, <2>2, <2>3, <2>4, <2>5, <2>6, <2>7, <2>8, <2>9, <2>10, <2>11
<1>5. Begun(r) => Begun(r)'
  <2>1. CASE Reports(r)
    BY <2>1 DEF Reports, Moves, Does, Begun
  <2>2. CASE Joins(r) \/ FindsNoRun(r) \/ Starts(r) \/ Speaks(r)
    BY <2>2 DEF Joins, FindsNoRun, Starts, Speaks, Begun, Past, Frame, Holding
  <2>3. CASE Greets(r) \/ Drops(r) \/ TakesDigest(r) \/ Abandons(r) \/ TellsDigest(r) \/ Completes(r)
    <3>1. Acts(r)
      BY <2>3, ActsMoves DEF Draining, Parting
    <3> QED BY <3>1 DEF Acts
  <2> QED BY <2>1, <2>2, <2>3
<1>6. \A L \in Told(r)' : Final(L, played, h)
  <2>1. Told(r)' \subseteq Told(r)
    BY <1>4, ToldKeeps
  <2> QED BY <1>3, <2>1 DEF Remembers
<1>7. \A L \in Told(q)' : Final(L, played, h)
  <2>1. CASE inbox'[q] \in {inbox[q], Sent(r, Hello(r)), Sent(r, [type |-> "peer_joined"]),
                            Sent(r, [type |-> "peer_left"])}
    <3>1. Logs(inbox'[q]) = Logs(inbox[q])
      BY <2>1, ToldNoise
    <3>2. Told(q)' = Told(q)
      BY <1>4, <3>1 DEF Told
    <3> QED BY <1>3, <3>2 DEF Remembers
  <2>2. CASE TellsDigest(r) /\ inbox'[q] = Sent(r, [type |-> "digest", log |-> core[r].ran])
    <3>1. status[r] = "closing" /\ core[r] \in Core /\ inbox[q] \in Seq(Message)
      BY <1>1, <2>2, OneSnapshot, LinkTyped DEF TellsDigest
    <3>2. Heir(r) = core[r]
      BY <3>1, OneSnapshot
    <3>3. Final(core[r].ran, played, h)
      BY <1>3, <3>1, <3>2, FinalTold DEF ClosingAt, Remembers
    <3> DEFINE b == [type |-> "digest", log |-> core[r].ran]
    <3>4. core[r].ran \in SUBSET Executed
      BY <3>1 DEF Core
    <3>5. b \in Message /\ b.type = "digest" /\ b.log = core[r].ran
      BY <3>4, PostedFacts DEF Mail
    <3>6. inbox'[q] = Sent(r, b)
      BY <2>2
    <3> HIDE DEF b
    <3>7. Logs(inbox'[q]) \subseteq Logs(inbox[q]) \cup {core[r].ran}
      BY <3>1, <3>5, <3>6, LogsFacts DEF Sent
    <3>8. Told(q)' \subseteq Told(q) \cup {core[r].ran}
      BY <1>4, <3>7 DEF Told
    <3> QED BY <1>3, <3>3, <3>8 DEF Remembers
  <2> QED BY <1>4, <2>1, <2>2
<1> QED BY <1>2, <1>4, <1>5, <1>6, <1>7, StoryCalm

(* Before anything was played there is nothing to remember. *)
LEMMA RemembersNothing ==
  ASSUME NEW x \in Role, played \subseteq Executed, Heir(x)' = NewCore, played' = played,
         \A L \in Told(x)' : Final(L, played, 0)
  PROVE  Remembers(x, 0)'
<1>1. NewCore.step = 0 /\ NewCore.ran = {} /\ NewCore.ended = FALSE
  BY DEF NewCore
<1>2. \A e \in played : ~(e.at < 0)
  BY DEF Executed
<1>3. \A C, T : Knows(x, NewCore, C, T, played, 0)
  BY <1>1 DEF Knows
<1>4. NewCore.step <= 0 /\ NewCore.ran = Below(played, NewCore.step) /\ EndedLast(NewCore)
  BY <1>1, <1>2, ConfigAssumption DEF Below, EndedLast
<1> QED BY <1>3, <1>4 DEF Remembers

(* The first hello is said before anything was played. *)
LEMMA StorySpeaks ==
  ASSUME TypeInv, Control, NEW h \in Nat, Story(h), NEW r \in Role, Speaks(r), lives[r] = 0
  PROVE  Story(h)'
<1> DEFINE q == Peer(r)
<1>1. q \in Role /\ Peer(q) = r /\ Peer(r) = q
  BY PeerFacts
<1>2. /\ status[r] = "joining" /\ played' = played /\ digest'[r] = digest[r] /\ digest'[q] = digest[q]
      /\ inbox'[r] = inbox[r] /\ inbox'[q] = Sent(r, Hello(r))
      /\ Heir(r)' = NewCore /\ Heir(q)' = NewCore
  BY FirstHello
<1>3. Remembers(r, h) /\ Remembers(q, h) /\ played \subseteq Executed /\ \A e \in played : e.at < h
  BY <1>1 DEF Story, TypeInv, TypeOK
<1>4. h = 0
  BY <1>2, <1>3 DEF Remembers
<1>5. Told(r)' \subseteq Told(r) /\ Told(q)' \subseteq Told(q)
  BY <1>2, ToldNoise DEF Told
<1>6. Remembers(r, 0)' /\ Remembers(q, 0)'
  <2>1. \A x \in {r, q} : \A L \in Told(x)' : Final(L, played, 0)
    BY <1>3, <1>4, <1>5 DEF Remembers
  <2> QED BY <1>1, <1>2, <1>3, <2>1, RemembersNothing
<1> QED BY <1>1, <1>2, <1>3, <1>4, <1>6, PeerFacts DEF Story

(* The rebuilt seat knows what its heir was to know. *)
LEMMA StoryResumes ==
  ASSUME TypeInv, Control, NEW h \in Nat, Story(h), NEW r \in Role, Resumes(r)
  PROVE  Story(h)'
<1> DEFINE q == Peer(r)
<1>1. q \in Role /\ Peer(q) = r /\ Peer(r) = q
  BY PeerFacts
<1>2. /\ status'[r] = Loop(core'[r]) /\ status'[q] = status[q]
      /\ lives' = lives /\ played' = played
      /\ digest'[r] = digest[r] /\ digest'[q] = digest[q]
      /\ inbox[r] # <<>> /\ inbox'[r] = Rest(r) /\ inbox'[q] = inbox[q] /\ Listening(r)
      /\ Heir(r)' = Heir(r) /\ Heir(q)' = Heir(q) /\ Strm(r)' = Strm(r) /\ Strm(q)' = Strm(q)
      /\ (Listening(q)' => Listening(q))
  BY TakenUp
<1> HIDE DEF q
<1>3. Remembers(r, h) /\ Remembers(q, h) /\ played \subseteq Executed /\ \A e \in played : e.at < h
  BY <1>1 DEF Story, TypeInv, TypeOK
<1>4. Told(r)' \subseteq Told(r) /\ Told(q)' = Told(q)
  BY <1>2, ToldKeeps DEF Told
<1>5. status'[r] \in {"closing", "pump"}
  BY <1>2 DEF Loop
<1>6. Remembers(r, h)'
  <2>1. Informed(r)
    BY <1>2 DEF Informed
  <2>2. \A L \in Told(r)' : Final(L, played, h)
    BY <1>3, <1>4 DEF Remembers
  <2> QED BY <1>2, <1>3, <1>5, <2>1, <2>2, RemembersStays
<1>7. Remembers(q, h)'
  <2>1. Begun(r)'
    BY <1>5 DEF Begun, Past, Frame
  <2>2. Informed(q)' => Informed(q)
    BY <1>1, <1>2, <2>1 DEF Informed, Awaiting
  <2>3. \A L \in Told(q)' : Final(L, played, h)
    BY <1>3, <1>4 DEF Remembers
  <2> QED BY <1>1, <1>2, <1>3, <2>2, <2>3, RemembersStays
<1> QED BY <1>1, <1>2, <1>3, <1>6, <1>7, PeerFacts DEF Story

(* Beside a seat that plays its peer is what it was: whom it listens to, and *)
(* what it is told.                                                          *)
LEMMA Beside ==
  ASSUME TypeInv, Control, NEW r \in Role, Begun(r)', NEW q, q = Peer(r),
         status'[q] = status[q], core'[q] = core[q], lives' = lives, digest'[q] = digest[q],
         Has(inbox'[q], {"resync"}) <=> Has(inbox[q], {"resync"}),
         HeirOf(core[q], inbox'[q]) = HeirOf(core[q], inbox[q]),
         Logs(inbox'[q]) = Logs(inbox[q])
  PROVE  Heir(q)' = Heir(q) /\ (Informed(q)' => Listening(q)) /\ Told(q)' = Told(q)
<1>1. q \in Role /\ Peer(q) = r
  BY PeerFacts
<1>2. Listening(q)' => Listening(q)
  BY DEF Listening, Attends
<1>3. ~Awaiting(q)'
  BY <1>1 DEF Awaiting
<1> QED BY <1>2, <1>3 DEF Heir, Informed, Told

(* And it knows what it knew when nothing was played. *)
LEMMA RemembersBeside ==
  ASSUME NEW q \in Role, NEW h \in Nat, played \subseteq Executed, Remembers(q, h), played' = played,
         Heir(q)' = Heir(q), Told(q)' = Told(q), lives' = lives, status'[q] = status[q],
         Informed(q)' => Knows(q, Heir(q), Cmds(Strm(q)'), Throughs(Strm(q)'), played, h)
  PROVE  Remembers(q, h)'
<1>1. Informed(q)' => Knows(q, Heir(q), Cmds(Strm(q)), Throughs(Strm(q)), played, h)'
  <2> SUFFICES ASSUME Informed(q)'
               PROVE  Knows(q, Heir(q)', Cmds(Strm(q)'), Throughs(Strm(q)'), played', h)
    OBVIOUS
  <2> QED OBVIOUS
<1> QED BY <1>1 DEF Remembers

(* A player whose run and whose mail's digests a step leaves, with what it knows then. *)
LEMMA RemembersPlayed ==
  ASSUME NEW r \in Role, NEW h \in Nat, Remembers(r, h), played' = played, status'[r] \in Frame \cup Holding,
         SameRun(Heir(r), Heir(r)'), Told(r)' \subseteq Told(r),
         Informed(r)' => Knows(r, Heir(r)', Cmds(Strm(r)'), Throughs(Strm(r)'), played, h)
  PROVE  Remembers(r, h)'
<1>1. /\ Heir(r)'.step <= h /\ Heir(r)'.ran = Below(played, Heir(r)'.step) /\ EndedLast(Heir(r)')
  BY SameRunEnds DEF Remembers, SameRun
<1>2. Informed(r)' => Knows(r, Heir(r), Cmds(Strm(r)), Throughs(Strm(r)), played, h)'
  <2>1. Informed(r)' => Knows(r, Heir(r)', Cmds(Strm(r)'), Throughs(Strm(r)'), played', h)
    OBVIOUS
  <2> QED BY <2>1
<1> QED BY <1>1, <1>2 DEF Remembers, Frame, Holding

(* A pump adds to what nobody has played. *)
LEMMA StoryPumps ==
  ASSUME TypeInv, Control, Links, NEW h \in Nat, Story(h), NEW r \in Role, Pumps(r)
  PROVE  Story(h)'
<1> DEFINE q == Peer(r)
           s == core[r]
<1>1. q \in Role /\ Peer(q) = r /\ Peer(r) = q
  BY PeerFacts
<1>2. PICK answers \in [SampleWindow(r, s) -> Feed] :
        core'[r] = Pump(r, s, answers) /\ status'[r] = IF SampleWindow(r, s) = {} THEN "drain" ELSE "push"
  BY DEF Pumps, Does
<1>3. /\ status[r] = "pump" /\ status'[q] = status[q] /\ core'[q] = core[q]
      /\ inbox'[r] = inbox[r] /\ inbox'[q] = inbox[q] /\ lives' = lives /\ played' = played
      /\ digest'[r] = digest[r] /\ digest'[q] = digest[q]
  BY <1>1 DEF Pumps, Does, Kept
<1>4. /\ s \in Core /\ Whole(s) /\ ~Has(inbox[r], {"resync"})
  BY <1>3, PlayerLinks DEF Frame
<1>5. Remembers(r, h) /\ Remembers(q, h) /\ played \subseteq Executed /\ \A e \in played : e.at < h
  BY <1>1 DEF Story, TypeInv, TypeOK
<1>6. Heir(r) = s /\ Heir(r)' = core'[r] /\ Strm(r)' = Strm(r) /\ status'[r] \in Frame /\ Informed(r)
  BY <1>2, <1>3, <1>4 DEF Heir, HeirOf, Strm, Informed, Listening, Attends, Frame
<1> HIDE DEF q, s
<1>7. Remembers(r, h)'
  <2> DEFINE d == Pump(r, s, answers)
  <2>1. Knows(r, s, Cmds(Strm(r)), Throughs(Strm(r)), played, h)
    BY <1>5, <1>6 DEF Remembers
  <2>2. Knows(r, d, Cmds(Strm(r)), Throughs(Strm(r)), played, h) /\ SameRun(s, d)
    BY <1>4, <2>1, KnowsPumped, HandlersKeepRun
  <2>3. Told(r)' \subseteq Told(r)
    BY <1>3 DEF Told
  <2> HIDE DEF d
  <2>4. Heir(r)' = d /\ Strm(r)' = Strm(r) /\ Heir(r) = s
    BY <1>2, <1>6 DEF d
  <2>5. Knows(r, Heir(r)', Cmds(Strm(r)'), Throughs(Strm(r)'), played, h) /\ SameRun(Heir(r), Heir(r)')
    BY <2>2, <2>4
  <2> QED BY <1>3, <1>5, <1>6, <2>3, <2>5, RemembersPlayed
<1>8. Remembers(q, h)'
  <2>1. Heir(q)' = Heir(q) /\ (Informed(q)' => Listening(q)) /\ Told(q)' = Told(q) /\ Strm(q)' = Strm(q)
    <3>1. Begun(r)'
      BY <1>6 DEF Begun, Past
    <3> QED BY <1>1, <1>3, <3>1, Beside DEF Strm
  <2>2. Informed(q)' => Knows(q, Heir(q), Cmds(Strm(q)'), Throughs(Strm(q)'), played, h)
    BY <1>5, <2>1 DEF Remembers, Informed
  <2> QED BY <1>1, <1>3, <1>5, <2>1, <2>2, RemembersBeside
<1> QED BY <1>1, <1>3, <1>5, <1>7, <1>8, PeerFacts DEF Story

(* A push adds to what is not committed, and a commit to what is. *)
LEMMA StoryPushes ==
  ASSUME TypeInv, Sampled, Control, Links, NEW h \in Nat, Story(h), NEW r \in Role,
         PushesCommand(r) \/ PushesCommit(r)
  PROVE  Story(h)'
<1> DEFINE q == Peer(r)
           s == core[r]
           o == outbox[r]
<1>1. q \in Role /\ Peer(q) = r /\ Peer(r) = q
  BY PeerFacts
<1>2. /\ status[r] = "push"
      /\ core'[r] = s /\ status'[q] = status[q] /\ core'[q] = core[q]
      /\ inbox'[r] = inbox[r] /\ lives' = lives
      /\ Has(inbox'[q], {"resync"}) <=> Has(inbox[q], {"resync"})
      /\ HeirOf(core[q], inbox'[q]) = HeirOf(core[q], inbox[q])
  BY PushedOne
<1>3. PICK b \in Message :
        /\ (b.type = "command" /\ b.m \in o) \/ b.type = "commit"
        /\ Listening(q) => Strm(q)' = Append(Strm(q), b)
  BY PushedOne
<1>4. /\ s \in Core /\ Strm(q) \in Seq(Message) /\ o \subseteq Scheduled /\ Heir(q) \in Core
      /\ Throughs(Strm(q)) \subseteq Nat
  BY <1>1, LinkTyped
<1>5. Remembers(r, h) /\ Remembers(q, h) /\ played \subseteq Executed /\ \A e \in played : e.at < h
  BY <1>1 DEF Story, TypeInv, TypeOK
<1>6. /\ played' = played /\ digest'[r] = digest[r] /\ digest'[q] = digest[q] /\ status'[r] \in Frame
      /\ Logs(inbox'[q]) = Logs(inbox[q])
  <2>1. /\ played' = played /\ digest'[r] = digest[r] /\ digest'[q] = digest[q] /\ status'[r] \in Frame
    BY <1>1 DEF PushesCommand, PushesCommit, Moves, Does, Kept, Frame
  <2>2. Logs(inbox'[q]) = Logs(inbox[q])
    <3>1. CASE PushesCommand(r)
      <4>1. PICK m \in o : inbox'[q] = Sent(r, [type |-> "command", m |-> m])
        BY <3>1 DEF PushesCommand, Does
      <4> DEFINE x == [type |-> "command", m |-> m]
      <4>2. m \in Scheduled
        BY <1>4
      <4>3. x \in Message /\ x.type = "command"
        BY <4>2, PostedFacts DEF Mail
      <4>4. inbox'[q] = Sent(r, x)
        BY <4>1
      <4> HIDE DEF x
      <4> QED BY <4>3, <4>4, ToldSent
    <3>2. CASE PushesCommit(r)
      <4> DEFINE x == [type |-> "commit", through |-> s.next_sample - 1]
      <4>1. s.next_sample - 1 \in Nat
        BY <1>4, PushedOne DEF Core
      <4>2. x \in Message /\ x.type = "commit"
        BY <4>1, PostedFacts DEF Mail
      <4>3. inbox'[q] = Sent(r, x)
        BY <3>2 DEF PushesCommit, Moves, Does
      <4> HIDE DEF x
      <4> QED BY <4>2, <4>3, ToldSent
    <3> QED BY <3>1, <3>2
  <2> QED BY <2>1, <2>2
<1>7. Begun(r)' /\ Begun(r) /\ (Listening(q) => Expects(Heir(q), Strm(q), o))
  BY <1>2, <1>6, PlayerLinks DEF Begun, Past, Frame
<1> HIDE DEF q, s, o
<1>8. Remembers(r, h)'
  <2>1. Heir(r)' = Heir(r) /\ Strm(r)' = Strm(r)
    BY <1>2 DEF Heir, Strm, s
  <2>2. Informed(r) /\ \A L \in Told(r)' : Final(L, played, h)
    BY <1>2, <1>5, <1>6 DEF Informed, Listening, Attends, Frame, Told, Remembers
  <2> QED BY <1>2, <1>5, <1>6, <2>1, <2>2, RemembersStays DEF Frame
<1>9. Remembers(q, h)'
  <2>1. Heir(q)' = Heir(q) /\ (Informed(q)' => Listening(q)) /\ Told(q)' = Told(q)
    BY <1>1, <1>2, <1>6, <1>7, Beside
  <2>2. Informed(q)' => Knows(q, Heir(q), Cmds(Strm(q)'), Throughs(Strm(q)'), played, h)
    <3> SUFFICES ASSUME Listening(q) PROVE Knows(q, Heir(q), Cmds(Strm(q)'), Throughs(Strm(q)'), played, h)
      BY <2>1
    <3> DEFINE c == Heir(q)
               w == Strm(q)
               C == Cmds(w)
               T == Throughs(w)
    <3>1. Knows(q, c, C, T, played, h) /\ Sound(c, C, T, o)
      BY <1>5, <1>7 DEF Remembers, Informed, Expects
    <3>2. Strm(q)' = Append(w, b) /\ w \in Seq(Message) /\ c \in Core /\ T \subseteq Nat
      BY <1>3, <1>4
    <3>3. /\ b.type = "command" => Cmds(Append(w, b)) = C \cup {b.m} /\ Throughs(Append(w, b)) = T
          /\ b.type = "commit" => Cmds(Append(w, b)) = C /\ Throughs(Append(w, b)) = T \cup {b.through}
      BY <1>4, FlowAppend
    <3> HIDE DEF c, w, C, T
    <3>4. CASE b.type = "command"
      <4>1. b.m \in o
        BY <1>3, <3>4
      <4> DEFINE m == b.m
      <4> HIDE DEF m
      <4>2. m \in o /\ o \subseteq Scheduled /\ q \in Role /\ c \in Core /\ T \subseteq Nat
            /\ Sound(c, C, T, o) /\ Knows(q, c, C, T, played, h) /\ h \in Nat
        BY <1>1, <1>4, <3>1, <3>2, <4>1 DEF m
      <4>3. Knows(q, c, C \cup {m}, T, played, h)
        BY ONLY <4>2, KnowsPushed
      <4> QED BY <3>2, <3>3, <3>4, <4>3 DEF c, m
    <3>5. CASE b.type = "commit"
      <4>1. Knows(q, c, C, T \cup {b.through}, played, h)
        BY <1>1, <3>1, KnowsCommitted
      <4> QED BY <3>2, <3>3, <3>5, <4>1 DEF c
    <3> QED BY <1>3, <3>4, <3>5
  <2> QED BY <1>1, <1>2, <1>5, <1>6, <2>1, <2>2, RemembersBeside
<1> QED BY <1>1, <1>5, <1>6, <1>8, <1>9, PeerFacts DEF Story

(* What is drained is known, as it was when it travelled. *)
LEMMA StoryTakes ==
  ASSUME TypeInv, Control, Links, NEW h \in Nat, Story(h), NEW r \in Role, TakesCommand(r) \/ TakesCommit(r)
  PROVE  Story(h)'
<1> DEFINE q == Peer(r)
           b == Head(inbox[r])
           c == core[r]
           w == inbox[r]
           v == Tail(w)
           C == Cmds(v)
           T == Throughs(v)
<1>1. q \in Role /\ Peer(q) = r /\ Peer(r) = q
  BY PeerFacts
<1>2. /\ status[r] = "drain" /\ status'[r] = "drain" /\ w # <<>>
      /\ status'[q] = status[q] /\ core'[q] = core[q]
      /\ digest'[r] = digest[r] /\ digest'[q] = digest[q]
      /\ inbox'[r] = v /\ inbox'[r] = Rest(r) /\ inbox'[q] = inbox[q] /\ lives' = lives /\ played' = played
  BY DEF TakesCommand, TakesCommit, Next1, Does, Kept, Rest
<1>3. \/ b.type = "command" /\ core'[r] = OnPeerCommand(c, b.m)
      \/ b.type = "commit" /\ core'[r] = OnPeerCommit(c, b.through)
  BY <1>2, HeadKinds DEF TakesCommand, TakesCommit, Next1, Does
<1>4. /\ c \in Core /\ w \in Seq(Message) /\ ~Has(w, {"resync"}) /\ Expects(c, w, outbox[q])
      /\ Heir(r) = c /\ Strm(r) = w /\ b \in Message /\ outbox[q] \subseteq Scheduled
  BY <1>1, <1>2, PlayerLinks, OneSnapshot, LinkTyped DEF Frame
<1>5. ~Has(inbox'[r], {"resync"})
  BY <1>2, <1>4, RestHas
<1>6. Heir(r)' = core'[r] /\ Strm(r)' = v
  BY <1>2, <1>5 DEF Heir, HeirOf, Strm, Stream
<1>7. v \in Seq(Message) /\ C \subseteq Scheduled /\ T \subseteq Nat
  <2> HIDE DEF w
  <2>1. v \in Seq(Message)
    BY <1>2, <1>4
  <2> HIDE DEF v
  <2> QED BY <2>1, FlowTyped
<1>8. Remembers(r, h) /\ Remembers(q, h) /\ played \subseteq Executed /\ \A e \in played : e.at < h
  BY <1>1 DEF Story, TypeInv, TypeOK
<1>9. /\ b.type = "command" =>
           /\ Cmds(w) = C \cup {b.m} /\ Throughs(w) = T /\ b.m \in Scheduled
           /\ \A x \in C : Sooner(b.m, x)
      /\ b.type = "commit" => Cmds(w) = C /\ Throughs(w) = T \cup {b.through} /\ b.through \in Nat
  BY <1>2, <1>4, FlowTail, MessageFacts DEF Expects
<1>10. Knows(r, c, Cmds(w), Throughs(w), played, h) /\ Sound(c, Cmds(w), Throughs(w), outbox[q])
  BY <1>2, <1>4, <1>8 DEF Remembers, Informed, Listening, Attends, Frame, Expects
<1>11. Told(r)' \subseteq Told(r)
  BY <1>2, ToldKeeps
<1> DEFINE o == outbox[q]
<1> HIDE DEF q, b, c, w, v, C, T, o
<1>12. Knows(r, core'[r], C, T, played, h) /\ SameRun(c, core'[r])
  <2>1. CASE b.type = "command"
    <3> DEFINE m == b.m
               d == OnPeerCommand(c, m)
    <3>1. core'[r] = d
      BY <1>3, <2>1
    <3> HIDE DEF m
    <3>2. /\ c \in Core /\ C \subseteq Scheduled /\ m \in Scheduled /\ o \subseteq Scheduled
          /\ Sound(c, C \cup {m}, T, o) /\ \A x \in C : Sooner(m, x)
      BY <1>4, <1>7, <1>9, <1>10, <2>1 DEF m, o
    <3>3. Arrived(c, m) = m
      BY ONLY <3>2, LinkArrived
    <3>4. Knows(r, c, C \cup {m}, T, played, h)
      BY <1>9, <1>10, <2>1 DEF m
    <3>5. Knows(r, d, C, T, played, h)
      BY <3>2, <3>3, <3>4, KnowsTaken
    <3>6. SameRun(c, d)
      BY <3>2, HandlersKeepRun
    <3> QED BY <3>1, <3>5, <3>6
  <2>2. CASE b.type = "commit"
    <3> DEFINE u == b.through
               d == OnPeerCommit(c, u)
    <3>1. core'[r] = d /\ u \in Nat
      BY <1>3, <1>9, <2>2
    <3> HIDE DEF u
    <3>2. Knows(r, c, C, T \cup {u}, played, h)
      BY <1>9, <1>10, <2>2 DEF u
    <3>3. Knows(r, d, C, T, played, h)
      BY <1>4, <3>1, <3>2, KnowsHeard
    <3>4. SameRun(c, d)
      BY <1>4, HandlersKeepRun
    <3> QED BY <3>1, <3>3, <3>4
  <2> QED BY <1>3, <2>1, <2>2
<1>13. Remembers(r, h)'
  <2>1. SameRun(Heir(r), Heir(r)') /\ Knows(r, Heir(r)', Cmds(Strm(r)'), Throughs(Strm(r)'), played, h)
    BY <1>4, <1>6, <1>12 DEF C, T
  <2> QED BY <1>2, <1>8, <1>11, <2>1, RemembersPlayed DEF Frame
<1>14. Remembers(q, h)'
  <2>1. Heir(q)' = Heir(q) /\ (Informed(q)' => Listening(q)) /\ Told(q)' = Told(q) /\ Strm(q)' = Strm(q)
    <3>1. Begun(r)'
      BY <1>2 DEF Begun, Past, Frame
    <3> QED BY <1>1, <1>2, <3>1, Beside DEF Strm
  <2>2. Informed(q)' => Knows(q, Heir(q), Cmds(Strm(q)'), Throughs(Strm(q)'), played, h)
    BY <1>8, <2>1 DEF Remembers, Informed
  <2> QED BY <1>1, <1>2, <1>8, <2>1, <2>2, RemembersBeside
<1> QED BY <1>1, <1>2, <1>8, <1>13, <1>14, PeerFacts DEF Story

(* What was final stays so while the story goes on. *)
LEMMA FinalOn ==
  ASSUME NEW x \in Role, NEW h \in Nat, Remembers(x, h), NEW Q, played \subseteq Q, Q \subseteq Executed,
         NEW g \in Nat, h <= g, \A e \in Q : e \in played \/ h <= e.at, Told(x)' \subseteq Told(x)
  PROVE  \A L \in Told(x)' : Final(L, Q, g)
BY FinalStays DEF Remembers

(* A seat that executes nothing while the story goes on. *)
LEMMA RemembersOn ==
  ASSUME NEW x \in Role, NEW h \in Nat, Remembers(x, h), NEW Q, played \subseteq Q, Q \subseteq Executed, played' = Q,
         NEW g \in Nat, h <= g, \A e \in Q : e \in played \/ h <= e.at,
         Heir(x) \in Core, Heir(x)' = Heir(x), Told(x)' \subseteq Told(x),
         Informed(x)' => Knows(x, Heir(x), Cmds(Strm(x)'), Throughs(Strm(x)'), Q, g),
         lives'[x] = 0 => status'[x] \notin {"offline", "joining"}
  PROVE  Remembers(x, g)'
<1> DEFINE c == Heir(x)
<1>1. c.step <= h /\ c.ran = Below(played, c.step) /\ EndedLast(c) /\ c.step \in Nat
  BY DEF Remembers, Core
<1>2. \A e \in Q : e.at \in Nat
  BY DEF Executed
<1>3. Below(Q, c.step) = Below(played, c.step)
  BY <1>1, <1>2 DEF Below
<1>4. \A L \in Told(x)' : Final(L, Q, g)
  BY FinalOn
<1>5. /\ Heir(x)'.step <= g /\ Heir(x)'.ran = Below(played', Heir(x)'.step) /\ EndedLast(Heir(x)')
  BY <1>1, <1>3
<1>6. Informed(x)' => Knows(x, Heir(x)', Cmds(Strm(x)'), Throughs(Strm(x)'), played', g)
  OBVIOUS
<1>7. Informed(x)' => Knows(x, Heir(x), Cmds(Strm(x)), Throughs(Strm(x)), played, g)'
  BY <1>6
<1> QED BY <1>4, <1>5, <1>7 DEF Remembers

(* A frame ends: in the next, at the finish, in silence, or with a quit. *)
LEMMA StoryEnds ==
  ASSUME TypeInv, Control, Links, Pledge, "grace" \notin Hasty,
         NEW h \in 0 .. MaxSteps, Story(h), NEW r \in Role, EndsFrame(r) \/ FallsSilent(r) \/ Quits(r)
  PROVE  History'
<1> DEFINE q == Peer(r)
           s == core[r]
           w == inbox[r]
           d == Advance(r, s)
           Q == played \cup d.ran
           g == IF h < d.step THEN d.step ELSE h
           C == Cmds(w)
           T == Throughs(w)
           x == Heir(q)
           D == Cmds(Strm(q))
           U == Throughs(Strm(q))
           o == outbox[q]
<1>0. h \in Nat /\ h <= MaxSteps /\ MaxSteps \in Nat
  BY ConfigAssumption
<1>1. q \in Role /\ Peer(q) = r /\ Peer(r) = q
  BY PeerFacts
<1>2. /\ status[r] = "drain" /\ status'[q] = status[q] /\ core'[q] = core[q]
      /\ inbox'[q] = inbox[q] /\ lives' = lives /\ played' = Q
      /\ digest'[r] = digest[r] /\ digest'[q] = digest[q]
      /\ inbox'[r] = w \/ inbox'[r] = <<>>
      /\ \/ core'[r] = d /\ status'[r] \in {"closing", "pump"} /\ inbox'[r] = w
         \/ core'[r] = OnPeerLost(d) /\ status'[r] = "silent" /\ inbox'[r] = <<>> /\ w = <<>>
         \/ core'[r] = d /\ status'[r] = "quit" /\ inbox'[r] = <<>>
  <2>1. Loop(d) \in {"closing", "pump"}
    BY DEF Loop
  <2> HIDE DEF d
  <2>2. CASE EndsFrame(r)
    BY <1>1, <2>1, <2>2 DEF EndsFrame, Does, d
  <2>3. CASE FallsSilent(r)
    <3>1. w = <<>>
      BY <2>3 DEF FallsSilent, Expires, Hopeless, Quiet
    <3> QED BY <1>1, <2>3, <3>1 DEF FallsSilent, Does, d
  <2>4. CASE Quits(r)
    BY <1>1, <2>4 DEF Quits, Does, Gone, d
  <2> QED BY <2>2, <2>3, <2>4
<1>3. /\ s \in Core /\ Whole(s) /\ w \in Seq(Message) /\ ~Has(w, {"resync"})
      /\ Expects(s, w, o)
      /\ Alive(q) => Follows(x, o, s, w)
      /\ Listening(q) => Expects(x, Strm(q), outbox[r]) /\ Follows(s, outbox[r], x, Strm(q))
  BY <1>1, <1>2, PlayerLinks DEF Frame
<1>4. /\ x \in Core /\ Strm(q) \in Seq(Message) /\ o \subseteq Scheduled
      /\ D \subseteq Scheduled /\ U \subseteq Nat /\ C \subseteq Scheduled /\ T \subseteq Nat
  BY <1>1, <1>3, LinkTyped, FlowTyped
<1>5. /\ outbox[r] = {} /\ Heir(r) = s /\ Strm(r) = w /\ Begun(r) /\ Alive(r) /\ Informed(r)
      /\ PledgeAt(q) /\ Early(q) /\ Roles(q)
  <2>1. outbox[r] = {} /\ PledgeAt(q) /\ Early(q) /\ Roles(q)
    BY <1>1, <1>2 DEF Control, ControlAt, Roles, Pledge
  <2>2. Heir(r) = s /\ Strm(r) = w
    BY <1>3, OneSnapshot
  <2> QED BY <1>2, <2>1, <2>2 DEF Begun, Past, Frame, Alive, Informed, Listening, Attends
<1>6. Remembers(r, h) /\ Remembers(q, h) /\ played \subseteq Executed /\ \A e \in played : e.at < h
  BY <1>1 DEF Story, TypeInv, TypeOK
<1>7. /\ s.step <= h /\ s.ran = Below(played, s.step) /\ EndedLast(s) /\ Knows(r, s, C, T, played, h)
      /\ Sound(s, C, T, o)
  BY <1>3, <1>5, <1>6 DEF Remembers, Expects
<1>8. /\ \A e \in Q : e.at < g
      /\ \A e \in Q : e \in played \/ h <= e.at
      /\ d.ran = Below(Q, d.step)
      /\ Knows(r, d, C, T, Q, g)
      /\ \A t \in h .. g - 1 : OfTick(Q, t) = Merged(r, s, {}, t) /\ t < s.peer_next /\ t < s.next_sample
  <2> HIDE DEF s, C, T, o
  <2> QED BY <1>0, <1>3, <1>4, <1>6, <1>7, KnowsAdvanced
<1>9. d \in Core /\ EndedLast(d) /\ d.step \in Nat /\ d.step <= MaxSteps /\ d.ran \subseteq Executed
  <2>1. d \in Core /\ EndedLast(d)
    BY <1>3, <1>7, AdvanceKeeps, AdvanceEndsLast
  <2> HIDE DEF d
  <2> QED BY <2>1 DEF EndedLast, Core
<1> HIDE DEF d
<1>10. g \in 0 .. MaxSteps /\ g \in Nat /\ h <= g /\ d.step <= g
  BY <1>0, <1>9
<1>11. Q \subseteq Executed /\ played \subseteq Q
  BY <1>6, <1>9
<1>12. Told(r)' \subseteq Told(r) /\ Told(q)' \subseteq Told(q)
  <2>1. Told(r)' \subseteq Told(r)
    BY <1>2, ToldKeeps
  <2> QED BY <1>2, <2>1 DEF Told
<1>k. PICK k \in 0 .. MaxSteps : k = g
  BY <1>10
<1>8k. /\ \A e \in Q : e.at < k
       /\ \A e \in Q : e \in played \/ h <= e.at
       /\ Knows(r, d, C, T, Q, k)
       /\ \A t \in h .. k - 1 : OfTick(Q, t) = Merged(r, s, {}, t) /\ t < s.peer_next /\ t < s.next_sample
       /\ k \in Nat /\ h <= k /\ d.step <= k
  BY <1>8, <1>10, <1>k
<1> HIDE DEF q, s, w, Q, g, C, T, x, D, U, o
<1>13. Remembers(r, k)'
  <2>1. Heir(r)' = core'[r] /\ Strm(r)' = inbox'[r] /\ ~Has(inbox'[r], {"resync"})
    <3>1. ~Has(inbox'[r], {"resync"})
      BY <1>2, <1>3 DEF Has
    <3> QED BY <3>1 DEF Heir, HeirOf, Strm, Stream
  <2>2. core'[r].step = d.step /\ core'[r].ran = d.ran /\ EndedLast(core'[r])
    <3>1. CASE core'[r] = d
      BY <1>9, <3>1
    <3>2. CASE core'[r] = OnPeerLost(d)
      <4>1. SameRun(d, OnPeerLost(d))
        BY <1>9, HandlersKeepRun
      <4> QED BY <1>9, <3>2, <4>1, SameRunEnds DEF SameRun
    <3> QED BY <1>2, <3>1, <3>2
  <2>3. Informed(r)' => Knows(r, core'[r], Cmds(inbox'[r]), Throughs(inbox'[r]), Q, k)
    <3>1. CASE core'[r] = d /\ inbox'[r] = w
      BY <1>8, <1>8k, <3>1 DEF C, T
    <3>2. CASE core'[r] = OnPeerLost(d) /\ inbox'[r] = <<>> /\ w = <<>>
      <4>1. Cmds(<<>>) = {} /\ Throughs(<<>>) = {}
        BY DEF Cmds, Throughs
      <4>2. Knows(r, d, {}, {}, Q, k)
        BY <1>8, <1>8k, <3>2, <4>1 DEF C, T
      <4>3. Knows(r, OnPeerLost(d), {}, {}, Q, k)
        BY <1>9, <4>2, KnowsPruned
      <4> QED BY <3>2, <4>1, <4>3
    <3>3. CASE status'[r] = "quit"
      BY <2>1, <3>3 DEF Informed, Listening, Attends, Awaiting, Frame, Holding
    <3> QED BY <1>2, <3>1, <3>2, <3>3
  <2>4. \A L \in Told(r)' : Final(L, Q, k)
    BY <1>0, <1>6, <1>8, <1>8k, <1>11, <1>12, FinalOn
  <2>5. status'[r] \notin {"offline", "joining"}
    BY <1>2
  <2>6. Knows(r, Heir(r), Cmds(Strm(r)), Throughs(Strm(r)), played, k)' <=>
          Knows(r, core'[r], Cmds(inbox'[r]), Throughs(inbox'[r]), Q, k)
    <3>1. played' = Q
      BY <1>2
    <3> QED BY <2>1, <3>1
  <2>7. /\ Heir(r)'.step <= k /\ Heir(r)'.ran = Below(played', Heir(r)'.step) /\ EndedLast(Heir(r)')
    BY <1>2, <1>8, <1>8k, <2>1, <2>2
  <2>8. \A L \in Told(r)' : Final(L, played', k)
    BY <1>2, <2>4
  <2> QED BY <2>3, <2>5, <2>6, <2>7, <2>8 DEF Remembers
<1>14. Remembers(q, k)'
  <2>1. Heir(q)' = x /\ (Informed(q)' => Listening(q)) /\ Strm(q)' = Strm(q)
    <3>1. Begun(r)'
      BY <1>2 DEF Begun, Past, Frame, Holding
    <3> QED BY <1>1, <1>2, <3>1, Beside DEF Strm, x, q
  <2>2. Listening(q) => Knows(q, x, D, U, Q, k)
    <3> SUFFICES ASSUME Listening(q) PROVE Knows(q, x, D, U, Q, k)
      OBVIOUS
    <3>1. Alive(q)
      BY <1>5 DEF Listening, Attends, Alive, Roles, Begun, Past
    <3>2. Sound(s, C, T, o) /\ Tied(x, o, s, C, T) /\ Tied(s, {}, x, D, U)
      BY <1>3, <1>5, <1>7, <3>1 DEF Follows, C, T, D, U
    <3>3. s.next_sample <= x.peer_next \/ \E u \in U : u + 1 = s.next_sample
      BY <1>1, <1>2, <1>5 DEF PledgeAt, x, U
    <3>4. x.step <= h /\ Knows(q, x, D, U, played, h)
      BY <1>6 DEF Remembers, Informed, x, D, U
    <3>5. r \in Role /\ s \in Core /\ C \subseteq Scheduled /\ o \subseteq Scheduled
          /\ x \in Core /\ D \subseteq Scheduled /\ U \subseteq Nat /\ h \in Nat /\ k \in Nat /\ s.step <= h
          /\ played \subseteq Q /\ (\A e \in Q : e \in played \/ h <= e.at)
          /\ (\A t \in h .. k - 1 : OfTick(Q, t) = Merged(r, s, {}, t) /\ t < s.peer_next /\ t < s.next_sample)
          /\ Knows(Peer(r), x, D, U, played, h)
      BY <1>0, <1>1, <1>3, <1>4, <1>7, <1>8, <1>8k, <1>11, <3>4
    <3>6. Knows(Peer(r), x, D, U, Q, k)
      BY ONLY <3>2, <3>3, <3>4, <3>5, KnowsAlong
    <3> QED BY <1>1, <3>6
  <2>3. Informed(q)' => Knows(q, Heir(q), Cmds(Strm(q)'), Throughs(Strm(q)'), Q, k)
    BY <2>1, <2>2 DEF x, D, U
  <2>4. lives'[q] = 0 => status'[q] \notin {"offline", "joining"}
    BY <1>1, <1>2, <1>5 DEF Early
  <2> QED BY <1>0, <1>1, <1>2, <1>4, <1>6, <1>8, <1>8k, <1>11, <1>12, <2>1, <2>3, <2>4, RemembersOn DEF x
<1>15. Story(k)'
  <2>1. \A e \in played' : e.at < k
    BY <1>2, <1>8k
  <2> QED BY <1>1, <1>13, <1>14, <2>1, PeerFacts DEF Story
<1> QED BY <1>15 DEF History

(* A departure reported: with it all that travelled has arrived, or is owed to nobody. *)
LEMMA StoryHolds ==
  ASSUME TypeInv, Control, Links, Duty, NEW h \in Nat, Story(h), NEW r \in Role, Holds(r)
  PROVE  Story(h)'
<1> DEFINE q == Peer(r)
           c == core[r]
           d == OnPeerLost(c)
           w == inbox[r]
<1>1. q \in Role /\ Peer(q) = r /\ Peer(r) = q
  BY PeerFacts
<1>2. /\ status[r] = "drain" /\ status'[r] = "hold" /\ w # <<>> /\ Kind(Head(w)) = "peer_left"
      /\ status'[q] = status[q] /\ core'[r] = d /\ core'[q] = core[q]
      /\ digest'[r] = digest[r] /\ digest'[q] = digest[q]
      /\ inbox'[r] = Rest(r) /\ inbox'[q] = inbox[q] /\ lives' = lives /\ played' = played
  BY DEF Holds, Next1, Does, Kept
<1>3. c \in Core /\ w \in Seq(Message) /\ ~Has(w, {"resync"}) /\ Heir(r) = c /\ Strm(r) = w
  BY <1>2, PlayerLinks, OneSnapshot DEF Frame
<1>4. ~Has(inbox'[r], {"resync"}) /\ inbox'[r] \in Seq(Message)
  BY <1>2, <1>3, RestHas DEF Rest
<1>5. Heir(r)' = d /\ Strm(r)' = inbox'[r]
  BY <1>2, <1>4 DEF Heir, HeirOf, Strm, Stream
<1>6. Remembers(r, h) /\ Remembers(q, h) /\ played \subseteq Executed /\ \A e \in played : e.at < h
  BY <1>1 DEF Story, TypeInv, TypeOK
<1>7. Told(r)' \subseteq Told(r)
  BY <1>2, ToldKeeps
<1>8. SameRun(c, d)
  BY <1>3, HandlersKeepRun
<1>9. Informed(r)' => Knows(r, d, Cmds(inbox'[r]), Throughs(inbox'[r]), played, h)
  <2> SUFFICES ASSUME Informed(r)' PROVE Knows(r, d, Cmds(inbox'[r]), Throughs(inbox'[r]), played, h)
    OBVIOUS
  <2>1. lives[q] = 1 /\ ~Begun(q)
    BY <1>1, <1>2, <1>4 DEF Informed, Listening, Attends, Awaiting, Frame, Holding, Begun
  <2>2. ~Has(inbox'[r], Traffic) /\ ~Has(w, Traffic)
    <3>1. NoneBehind(w, {"peer_left"}, Traffic)
      BY <2>1 DEF Duty, DutyAt
    <3>2. ~Has(Rest(r), Traffic)
      BY <1>2, <3>1, RestHas
    <3> QED BY <1>2, <3>2, RestHas DEF Traffic
  <2>3. Cmds(w) = {} /\ Throughs(w) = {} /\ Cmds(inbox'[r]) = {} /\ Throughs(inbox'[r]) = {}
    BY <1>3, <1>4, <2>2, FlowEmpty
  <2>4. Knows(r, c, Cmds(w), Throughs(w), played, h)
    BY <1>2, <1>3, <1>6 DEF Remembers, Informed, Listening, Attends, Frame
  <2> HIDE DEF c, w
  <2>5. Knows(r, c, {}, {}, played, h)
    BY <2>3, <2>4
  <2>6. Knows(r, d, {}, {}, played, h)
    BY <1>3, <2>5, KnowsPruned
  <2> QED BY <2>3, <2>6
<1> HIDE DEF q, c, d, w
<1>10. Remembers(r, h)'
  <2>1. SameRun(Heir(r), Heir(r)')
        /\ (Informed(r)' => Knows(r, Heir(r)', Cmds(Strm(r)'), Throughs(Strm(r)'), played, h))
    BY <1>3, <1>5, <1>8, <1>9
  <2>2. status'[r] \in Frame \cup Holding
    BY <1>2 DEF Holding
  <2> QED BY <1>2, <1>6, <1>7, <2>1, <2>2, RemembersPlayed
<1>11. Remembers(q, h)'
  <2>1. Heir(q)' = Heir(q) /\ (Informed(q)' => Listening(q)) /\ Told(q)' = Told(q) /\ Strm(q)' = Strm(q)
    <3>1. Begun(r)'
      BY <1>2 DEF Begun, Past, Holding
    <3> QED BY <1>1, <1>2, <3>1, Beside DEF Strm, q
  <2>2. Informed(q)' => Knows(q, Heir(q), Cmds(Strm(q)'), Throughs(Strm(q)'), played, h)
    BY <1>6, <2>1 DEF Remembers, Informed
  <2> QED BY <1>1, <1>2, <1>6, <2>1, <2>2, RemembersBeside
<1> QED BY <1>1, <1>2, <1>6, <1>10, <1>11, PeerFacts DEF Story

(* The snapshot knows what its sender knew, and so will its reader. *)
LEMMA StoryHandsOver ==
  ASSUME TypeInv, Control, NEW h \in Nat, Story(h), NEW r \in Role, HandsOver(r)
  PROVE  Story(h)'
<1> DEFINE q == Peer(r)
           c == core[r]
           d == OnPeerLost(c)
           x == AdoptResync(MakeResync(d))
<1>1. q \in Role /\ Peer(q) = r /\ Peer(r) = q
  BY PeerFacts
<1>2. /\ status[r] \in {"drain"} \cup Holding /\ status'[r] \in {"drain", "pump"} /\ status'[q] = status[q]
      /\ lives' = lives /\ played' = played
      /\ lives[q] = 1 /\ status[q] \in {"resync", "no_peer"} /\ ~Has(inbox[q], {"resync"})
      /\ Heir(r) = c /\ Heir(r)' = d
      /\ Cmds(Strm(r)) = {} /\ Throughs(Strm(r)) = {}
      /\ Cmds(Strm(r))' = {} /\ Throughs(Strm(r))' = {}
      /\ status[q] = "resync" => Heir(q)' = x /\ Strm(q)' = <<>>
      /\ status[q] = "no_peer" => ~Listening(q)' /\ Heir(q)' = Heir(q)
  BY HandedOver
<1>3. /\ digest'[r] = digest[r] /\ digest'[q] = digest[q]
      /\ inbox[r] # <<>> /\ inbox'[r] = Rest(r)
      /\ inbox'[q] = Sent(r, [type |-> "resync", state |-> MakeResync(d)])
  BY DEF HandsOver, Next1, Does
<1>4. Remembers(r, h) /\ Remembers(q, h) /\ played \subseteq Executed /\ (\A e \in played : e.at < h) /\ c \in Core
  BY <1>1 DEF Story, TypeInv, TypeOK
<1>5. Told(r)' \subseteq Told(r) /\ Told(q)' = Told(q)
  <2>1. Told(r)' \subseteq Told(r)
    BY <1>3, ToldKeeps
  <2> DEFINE b == [type |-> "resync", state |-> MakeResync(d)]
  <2>2. b \in Message /\ b.type = "resync"
    <3>1. MakeResync(d) \in Resync
      BY <1>4, LostTyped, ResyncTyped
    <3> QED BY <3>1 DEF Message
  <2>3. inbox'[q] = Sent(r, b)
    BY <1>3
  <2> HIDE DEF b
  <2>4. Logs(inbox'[q]) = Logs(inbox[q])
    BY <2>2, <2>3, ToldSent
  <2> QED BY <1>3, <2>1, <2>4 DEF Told
<1> HIDE DEF q, c, d, x
<1>6. Knows(r, c, {}, {}, played, h) /\ EndedLast(c)
  <2>1. Informed(r)
    <3>1. CASE status[r] = "drain"
      BY <3>1 DEF Informed, Listening, Attends, Frame
    <3>2. CASE status[r] \in Holding
      BY <1>1, <1>2, <3>2 DEF Informed, Awaiting, Begun, Past, Frame, Holding
    <3> QED BY <1>2, <3>1, <3>2
  <2> QED BY <1>2, <1>4, <2>1 DEF Remembers
<1>7. /\ SameRun(c, d) /\ Knows(r, d, {}, {}, played, h)
      /\ x.step = c.step /\ x.ran = c.ran /\ EndedLast(x) /\ Knows(q, x, {}, {}, played, h)
  <2>1. SameRun(c, d) /\ Knows(r, d, {}, {}, played, h)
    BY <1>4, <1>6, HandlersKeepRun, KnowsPruned DEF d
  <2>2. x.step = c.step /\ x.ran = c.ran /\ EndedLast(x) /\ Knows(q, x, {}, {}, played, h)
    BY <1>1, <1>4, <1>6, KnowsHanded DEF x, d
  <2> QED BY <2>1, <2>2
<1>8. Remembers(r, h)'
  <2>1. SameRun(Heir(r), Heir(r)') /\ Knows(r, Heir(r)', Cmds(Strm(r)'), Throughs(Strm(r)'), played, h)
    BY <1>2, <1>7
  <2>2. status'[r] \in Frame \cup Holding
    BY <1>2 DEF Frame
  <2> QED BY <1>2, <1>4, <1>5, <2>1, <2>2, RemembersPlayed
<1>9. Remembers(q, h)'
  <2>1. CASE status[q] = "resync"
    <3>1. Heir(q)' = x /\ Cmds(Strm(q)') = {} /\ Throughs(Strm(q)') = {}
      BY <1>2, <2>1 DEF Cmds, Throughs
    <3>2. c.step <= h /\ c.ran = Below(played, c.step)
      BY <1>2, <1>4 DEF Remembers
    <3>3. Knows(q, Heir(q)', Cmds(Strm(q)'), Throughs(Strm(q)'), played', h)
      BY <1>2, <1>7, <3>1
    <3>4. Knows(q, Heir(q), Cmds(Strm(q)), Throughs(Strm(q)), played, h)'
      BY <3>3
    <3>5. \A L \in Told(q)' : Final(L, played', h)
      BY <1>2, <1>4, <1>5 DEF Remembers
    <3>6. Heir(q)'.step <= h /\ Heir(q)'.ran = Below(played', Heir(q)'.step) /\ EndedLast(Heir(q)')
      BY <1>2, <1>7, <3>1, <3>2
    <3>7. status'[q] = "resync"
      BY <1>2, <2>1
    <3> QED BY <3>4, <3>5, <3>6, <3>7 DEF Remembers
  <2>2. CASE status[q] = "no_peer"
    <3>1. ~Informed(q)'
      BY <1>1, <1>2, <2>2 DEF Informed, Awaiting, Holding
    <3> QED BY <1>1, <1>2, <1>4, <1>5, <2>2, <3>1, RemembersBeside
  <2> QED BY <1>2, <2>1, <2>2
<1> QED BY <1>1, <1>2, <1>4, <1>8, <1>9, PeerFacts DEF Story

(* What is forgotten with a process its successor is told again. *)
LEMMA StoryDies ==
  ASSUME TypeInv, Control, Control', Duty, Duty', NEW h \in Nat, Story(h), NEW r \in Role, Dies(r)
  PROVE  Story(h)'
<1> DEFINE q == Peer(r)
<1>1. q \in Role /\ Peer(q) = r /\ Peer(r) = q
  BY PeerFacts
<1>2. /\ status[r] \in Joined /\ status'[r] = "offline" /\ status'[q] = status[q]
      /\ core'[r] = NewCore /\ core'[q] = core[q] /\ played' = played
      /\ digest'[r] = {} /\ digest'[q] = digest[q]
      /\ inbox'[r] = <<>> /\ inbox'[q] = inbox[q]
      /\ lives'[r] = lives[r] + 1 /\ lives'[q] = lives[q]
  BY DEF Dies, Does
<1>3. /\ Remembers(r, h) /\ Remembers(q, h) /\ played \subseteq Executed /\ (\A e \in played : e.at < h)
      /\ lives[r] \in Nat /\ lives[q] \in Nat /\ DutyAt(q) /\ OneDeath(r)'
  BY <1>1 DEF Story, TypeInv, TypeOK, Duty, Control, ControlAt
<1>4. lives[r] = 0 /\ lives[q] = 0 /\ lives'[r] = 1
  BY <1>1, <1>2, <1>3 DEF OneDeath
<1>5. Remembers(r, h)'
  <2>1. ~Has(inbox'[r], {"resync"}) /\ Logs(inbox'[r]) = {}
    BY <1>2 DEF Has, Logs
  <2>2. Heir(r)' = NewCore
    BY <1>2, <2>1 DEF Heir, HeirOf
  <2>3. ~Informed(r)'
    BY <1>2, <2>1 DEF Informed, Listening, Attends, Awaiting, Frame, Holding
  <2>4. Told(r)' = {}
    BY <1>2, <2>1 DEF Told
  <2> QED BY <1>2, <1>3, <1>4, <2>2, <2>3, <2>4, RemembersStays
<1>6. Remembers(q, h)'
  <2>1. status[q] \notin Holding
    <3>1. status[r] \notin Ended
      BY <1>2 DEF Joined, Ended, Frame, Holding
    <3> QED BY <1>1, <1>3, <1>4, <3>1 DEF DutyAt
  <2>2. Informed(q)' => Informed(q)
    BY <1>2, <2>1 DEF Informed, Listening, Attends, Awaiting
  <2>3. Heir(q)' = Heir(q) /\ Strm(q)' = Strm(q) /\ Told(q)' = Told(q)
    BY <1>2 DEF Heir, Strm, Told
  <2>4. \A L \in Told(q)' : Final(L, played, h)
    BY <1>3, <2>3 DEF Remembers
  <2> QED BY <1>1, <1>2, <1>3, <2>2, <2>3, <2>4, RemembersStays
<1> QED BY <1>1, <1>2, <1>3, <1>5, <1>6, PeerFacts DEF Story

(* At the start nobody has been told, and nobody ended. *)
LEMMA StoryInit ==
  ASSUME Init
  PROVE  Closing /\ History
<1>1. \A r \in Role : /\ status[r] = "offline" /\ inbox[r] = <<>> /\ core[r] = NewCore /\ digest[r] = {}
  BY DEF Init
<1>2. Closing
  BY <1>1 DEF Closing, ClosingAt
<1>3. played = {}
  BY DEF Init
<1>4. ASSUME NEW r \in Role PROVE Remembers(r, 0)
  <2>1. ~Has(inbox[r], {"resync"}) /\ Logs(inbox[r]) = {}
    BY <1>1 DEF Has, Logs
  <2>2. Heir(r) = NewCore /\ ~Informed(r) /\ Told(r) = {}
    BY <1>1, <2>1 DEF Heir, HeirOf, Informed, Listening, Attends, Awaiting, Frame, Holding, Told
  <2>3. NewCore.step = 0 /\ NewCore.ran = {} /\ NewCore.ended = FALSE
    BY DEF NewCore
  <2>4. EndedLast(NewCore) /\ NewCore.ran = Below(played, NewCore.step)
    BY <1>3, <2>3, ConfigAssumption DEF EndedLast, Below
  <2> QED BY <2>2, <2>3, <2>4 DEF Remembers
<1>5. Story(0) /\ 0 \in 0 .. MaxSteps
  BY <1>3, <1>4, ConfigAssumption DEF Story
<1> QED BY <1>2, <1>5 DEF History

(* Every step goes on with the story. *)
LEMMA HistoryStep ==
  ASSUME TypeInv, Sampled, Control, Control', Links, Duty, Duty', Pledge, Closing, History,
         "grace" \notin Hasty, [Next]_vars
  PROVE  History'
<1>0. PICK h \in 0 .. MaxSteps : Story(h)
  BY DEF History
<1>h. h \in Nat
  OBVIOUS
<1> SUFFICES ASSUME ~History' PROVE FALSE
  OBVIOUS
<1>n. ~Story(h)'
  BY <1>0 DEF History
<1>1. CASE UNCHANGED vars
  <2>1. \A r \in Role : /\ Heir(r)' = Heir(r) /\ Strm(r)' = Strm(r) /\ Told(r)' = Told(r)
                        /\ Informed(r)' = Informed(r)
    BY <1>1 DEF vars, Heir, Strm, Told, Informed, Listening, Attends, Awaiting, Begun
  <2>2. played' = played /\ lives' = lives /\ status' = status
    BY <1>1 DEF vars
  <2>3. \A r \in Role : Remembers(r, h) => Remembers(r, h)'
    <3> SUFFICES ASSUME NEW r \in Role, Remembers(r, h) PROVE Remembers(r, h)'
      OBVIOUS
    <3>1. Knows(r, Heir(r), Cmds(Strm(r)), Throughs(Strm(r)), played, h)' <=>
            Knows(r, Heir(r), Cmds(Strm(r)), Throughs(Strm(r)), played, h)
      <4>1. Knows(r, Heir(r)', Cmds(Strm(r)'), Throughs(Strm(r)'), played', h) <=>
              Knows(r, Heir(r), Cmds(Strm(r)), Throughs(Strm(r)), played, h)
        BY <2>1, <2>2
      <4> QED BY <4>1
    <3> QED BY <2>1, <2>2, <3>1 DEF Remembers
  <2>4. Story(h)'
    BY <1>0, <2>2, <2>3 DEF Story
  <2> QED BY <1>n, <2>4
<1>2. ASSUME NEW r \in Role,
             \/ Bringing(r) \/ Framing(r) \/ Draining(r) \/ Parting(r)
             \/ Greets(r) \/ HandsOver(r) \/ Drops(r) \/ Dies(r) \/ Reports(r)
      PROVE  FALSE
  <2>1. lives[r] \in Nat
    BY DEF TypeInv, TypeOK
  <2>2. ~(\/ Joins(r) \/ Greets(r) \/ FindsNoRun(r) \/ Starts(r) \/ Drops(r) \/ TakesDigest(r)
          \/ Abandons(r) \/ TellsDigest(r) \/ Completes(r) \/ Reports(r)
          \/ (Speaks(r) /\ lives[r] > 0))
    BY <1>0, <1>h, <1>n, StoryCalmMoves
  <2>3. ~Bringing(r)
    BY <1>0, <1>h, <1>n, <2>1, <2>2, StorySpeaks, StoryResumes DEF Bringing
  <2>4. ~(Pumps(r) \/ PushesCommand(r) \/ PushesCommit(r))
    BY <1>0, <1>h, <1>n, StoryPumps, StoryPushes
  <2>5. ~(EndsFrame(r) \/ FallsSilent(r) \/ Quits(r))
    BY <1>0, StoryEnds
  <2>6. ~(TakesCommand(r) \/ TakesCommit(r) \/ Holds(r) \/ Fails(r))
    BY <1>0, <1>h, <1>n, StoryTakes, StoryHolds, NeverFails
  <2>7. ~(HandsOver(r) \/ Dies(r))
    BY <1>0, <1>h, <1>n, StoryHandsOver, StoryDies
  <2> QED BY <1>2, <2>2, <2>3, <2>4, <2>5, <2>6, <2>7 DEF Framing, Draining, Parting
<1> QED BY <1>1, <1>2, StepMoves

(* With at most one death, and a grace period that is not cut short, there is  *)
(* one history of the run: whoever plays has executed all of it below its      *)
(* step, knows the rest, and is told nothing that is not final.                *)
THEOREM HistoryInvariant ==
  MaxDeaths <= 1 /\ "grace" \notin Hasty => (Spec => [](Duty /\ Pledge /\ Closing /\ History))
<1> SUFFICES ASSUME MaxDeaths <= 1, "grace" \notin Hasty PROVE Spec => [](Duty /\ Pledge /\ Closing /\ History)
  OBVIOUS
<1>1. Init => Duty /\ Pledge /\ Closing /\ History
  BY DutyInit, PledgeInit, StoryInit
<1>2. TypeInv /\ TypeInv' /\ Sampled /\ Control /\ Control' /\ Duty /\ [Next]_vars => Duty'
  BY DutyStep
<1>3. TypeInv /\ Sampled /\ Control /\ Links /\ Pledge /\ [Next]_vars => Pledge'
  BY PledgeStep
<1>4. TypeInv /\ Control /\ Closing /\ [Next]_vars => Closing'
  BY ClosingStep
<1>5. TypeInv /\ Sampled /\ Control /\ Control' /\ Links /\ Duty /\ Duty' /\ Pledge /\ Closing /\ History
        /\ [Next]_vars => History'
  BY HistoryStep
<1>6. Spec => [](TypeInv /\ Sampled) /\ []Control /\ []Links
  BY TypeInvariant, ControlInvariant, LinkInvariant
<1> QED BY <1>1, <1>2, <1>3, <1>4, <1>5, <1>6, PTL DEF Spec

(* A core's log is the history below its step. *)
LEMMA HistoryIsOne ==
  ASSUME TypeInv, Control, History
  PROVE  OneHistory
<1> SUFFICES ASSUME NEW r \in Role PROVE core[r].ran = Below(played, core[r].step)
  BY DEF OneHistory, Below
<1>1. PICK h \in 0 .. MaxSteps : Remembers(r, h)
  BY DEF History, Story
<1>2. CASE Has(inbox[r], {"resync"})
  <2>1. core[r] = NewCore
    BY <1>2, OneSnapshot DEF Control, ControlAt, Roles
  <2>2. core[r].step = 0 /\ core[r].ran = {}
    BY <2>1 DEF NewCore
  <2>3. \A e \in played : ~(e.at < 0)
    BY DEF TypeInv, TypeOK, Executed
  <2> QED BY <2>2, <2>3 DEF Below
<1>3. CASE ~Has(inbox[r], {"resync"})
  BY <1>1, <1>3, OneSnapshot DEF Remembers
<1> QED BY <1>2, <1>3

(* A completed seat's log is final, and so is what it was told. *)
LEMMA CompletedFinal ==
  ASSUME TypeInv, Control, Closing, History, NEW r \in Role, status[r] = "completed"
  PROVE  /\ core[r].step \in 0 .. MaxSteps /\ FinalAt(core[r].ran, core[r].step, played)
         /\ \A L \in digest[r] : \E f \in 0 .. MaxSteps : FinalAt(L, f, played)
<1>1. PICK h \in 0 .. MaxSteps : Remembers(r, h)
  BY DEF History, Story
<1>2. h \in Nat /\ h <= MaxSteps /\ MaxSteps \in Nat
  BY ConfigAssumption
<1>3. Heir(r) = core[r] /\ core[r] \in Core /\ Finished(core[r])
  BY OneSnapshot, LinkTyped DEF Closing, ClosingAt
<1>4. /\ core[r].step <= h /\ core[r].ran = Below(played, core[r].step) /\ EndedLast(core[r])
      /\ \A L \in digest[r] : Final(L, played, h)
  BY <1>1, <1>3 DEF Remembers, Told
<1>5. FinalAt(core[r].ran, core[r].step, played)
  BY <1>2, <1>3, <1>4, FinalTold
<1>6. core[r].step \in 0 .. MaxSteps
  <2>1. core[r].step \in Nat
    BY <1>3 DEF Core
  <2> QED BY <1>2, <1>4, <2>1
<1>7. \A f \in 0 .. h : f \in 0 .. MaxSteps
  BY <1>2
<1> QED BY <1>4, <1>5, <1>6, <1>7 DEF Final

(* Two final logs of one history are the same log. *)
LEMMA HistoryEndsOnce ==
  ASSUME TypeInv, Control, Closing, History
  PROVE  DigestsMatch /\ CompletedAlike
<1>0. played \subseteq Executed
  BY DEF TypeInv, TypeOK
<1>1. DigestsMatch
  <2> SUFFICES ASSUME NEW r \in Role, status[r] = "completed", NEW L \in digest[r] PROVE L = core[r].ran
    BY DEF DigestsMatch
  <2>1. core[r].step \in 0 .. MaxSteps /\ FinalAt(core[r].ran, core[r].step, played)
    BY CompletedFinal
  <2>2. PICK f \in 0 .. MaxSteps : FinalAt(L, f, played)
    BY CompletedFinal
  <2> QED BY <1>0, <2>1, <2>2, FinalsEqual
<1>2. CompletedAlike
  <2> SUFFICES ASSUME \A r \in Role : status[r] = "completed"
               PROVE  /\ core["infiltrator"].step = core["hacker"].step
                      /\ core["infiltrator"].ran = core["hacker"].ran
    BY DEF CompletedAlike
  <2>1. "infiltrator" \in Role /\ "hacker" \in Role
    BY DEF Role
  <2> DEFINE c == core["infiltrator"]
             d == core["hacker"]
  <2>2. c.step \in 0 .. MaxSteps /\ FinalAt(c.ran, c.step, played)
    BY <2>1, CompletedFinal
  <2>3. d.step \in 0 .. MaxSteps /\ FinalAt(d.ran, d.step, played)
    BY <2>1, CompletedFinal
  <2> HIDE DEF c, d
  <2>4. c.step = d.step /\ c.ran = d.ran
    BY <1>0, <2>2, <2>3, FinalsEqual
  <2> QED BY <2>4 DEF c, d
<1> QED BY <1>1, <1>2

(* A rejoiner never resamples a tick that somebody has played: every process,  *)
(* living or dead, executes for each of its ticks the same inputs.             *)
THEOREM OneHistoryEver == MaxDeaths <= 1 /\ "grace" \notin Hasty => (Spec => []OneHistory)
<1> SUFFICES ASSUME MaxDeaths <= 1, "grace" \notin Hasty PROVE Spec => []OneHistory
  OBVIOUS
<1>1. Spec => [](TypeInv /\ Sampled) /\ []Control /\ [](Duty /\ Pledge /\ Closing /\ History)
  BY TypeInvariant, ControlInvariant, HistoryInvariant
<1>2. TypeInv /\ Control /\ History => OneHistory
  BY HistoryIsOne
<1> QED BY <1>1, <1>2, PTL

(* peer_digest_match is never Some(false): the digest a completed seat holds   *)
(* is its own, whoever died and rejoined between the telling and the end.      *)
THEOREM DigestsAgree == MaxDeaths <= 1 /\ "grace" \notin Hasty => (Spec => []DigestsMatch)
<1> SUFFICES ASSUME MaxDeaths <= 1, "grace" \notin Hasty PROVE Spec => []DigestsMatch
  OBVIOUS
<1>1. Spec => [](TypeInv /\ Sampled) /\ []Control /\ [](Duty /\ Pledge /\ Closing /\ History)
  BY TypeInvariant, ControlInvariant, HistoryInvariant
<1>2. TypeInv /\ Control /\ Closing /\ History => DigestsMatch
  BY HistoryEndsOnce
<1> QED BY <1>1, <1>2, PTL

(* Two seats that complete stopped at the same step with the same log, even    *)
(* when one of them is a replacement or never saw the other's digest.          *)
THEOREM CompletedTogether == MaxDeaths <= 1 /\ "grace" \notin Hasty => (Spec => []CompletedAlike)
<1> SUFFICES ASSUME MaxDeaths <= 1, "grace" \notin Hasty PROVE Spec => []CompletedAlike
  OBVIOUS
<1>1. Spec => [](TypeInv /\ Sampled) /\ []Control /\ [](Duty /\ Pledge /\ Closing /\ History)
  BY TypeInvariant, ControlInvariant, HistoryInvariant
<1>2. TypeInv /\ Control /\ Closing /\ History => CompletedAlike
  BY HistoryEndsOnce
<1> QED BY <1>1, <1>2, PTL

===============================================================================
