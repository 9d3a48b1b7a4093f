---------------------------- MODULE SectorMemory ----------------------------
(***************************************************************************)
(* The sector memory of a Session and the one permanent fact written from  *)
(* it: the StarDock landmark.                                              *)
(*                                                                         *)
(* A StarDock screen says what is here and not where.  The session keeps   *)
(* the last sector a screen stated (note_sector), good only while the send *)
(* epoch has not moved, and files it into a one-slot carry when an App     *)
(* send expires it.  An explore run that halts on a StarDock screen        *)
(* attributes the landmark to the memory or, failing that, to the carry;   *)
(* landmarks union, so a wrong one stays for ever.                         *)
(*                                                                         *)
(* The App dispatches and the attached human take turns in the driving     *)
(* seat (AppDrivers); an explore run that was preempted goes on beside the *)
(* human's keys.  The readers of the `state' verb take no lock and run     *)
(* beside whoever drives, and so does a reconnect.  The game answers the   *)
(* commands on the wire in order, some time after they were sent.          *)
(*                                                                         *)
(* `astray' remembers that one of the two spoilt a reading, and the        *)
(* properties except what comes after it.                                  *)
(*                                                                         *)
(* Abstracted: every screen is a sector prompt, the StarDock or something  *)
(* else; an App send is one command, a human's write one or two; one       *)
(* reconnect is under way at a time.  A settle wait that ends "idle" is    *)
(* taken to mean that nothing is left on the wire.                         *)
(***************************************************************************)
EXTENDS Naturals, Sequences

CONSTANTS
  Sectors,      \* sector numbers
  Dock,         \* the sector StarDock is in
  None,         \* Python's None
  Pollers,      \* connections asking the `state' verb
  MaxEpoch,     \* bound on _sector_epoch: sends and reconnects of a behaviour
  MaxInFlight   \* bound on commands sent and not yet answered

ASSUME SectorAssumption ==
  /\ Dock \in Sectors
  /\ None \notin Sectors /\ None \notin Nat
  /\ MaxEpoch \in Nat
  /\ MaxInFlight \in Nat \ {0}

AtSector(s) == <<"sector", s>>
AtDock == <<"stardock", None>>
Opaque == <<"opaque", None>>
Screens == {AtSector(s) : s \in Sectors} \cup {AtDock, Opaque}

\* A warp to a sector, a key that enters a port or StarDock, a key that goes
\* back to the sector prompt.
Commands == {<<"warp", s>> : s \in Sectors} \cup {<<"dock", None>>, <<"leave", None>>}

\* One write of raw bytes may hold more than one command.
Pastes == {<<c>> : c \in Commands} \cup {<<c, d>> : c, d \in Commands}

VARIABLES
  ship,             \* where the ship is (the game's own state)
  screen,           \* what the terminal shows
  wire,             \* commands sent and not yet answered
  reconnecting,     \* inside Session.reconnect, its bump made
  epoch,            \* _sector_epoch
  lastSector,       \* _last_sector
  lastEpoch,        \* _last_sector_epoch, None before the first reading
  sectorBeforeSend, \* _sector_before_send
  driver,           \* who drives: "nobody", "app", "human" or "explore"
  seen,             \* what the explore run rendered and has not acted on
  polled,           \* poller -> what it rendered and has not noted
  landmarks,        \* sectors recorded as StarDock
  astray            \* history: a reading was overtaken before it was used

memoryVars == <<epoch, lastSector, lastEpoch, sectorBeforeSend>>
gameVars == <<ship, screen, wire, reconnecting>>
vars == <<ship, screen, wire, reconnecting, epoch, lastSector, lastEpoch,
          sectorBeforeSend, driver, seen, polled, landmarks, astray>>

Init ==
  /\ ship \in Sectors
  /\ screen = Opaque
  /\ wire = <<>>
  /\ reconnecting = FALSE
  /\ epoch = 0
  /\ lastSector = None
  /\ lastEpoch = None
  /\ sectorBeforeSend = None
  /\ driver = "nobody"
  /\ seen = Opaque
  /\ polled = [p \in Pollers |-> Opaque]
  /\ landmarks = {}
  /\ astray = FALSE

TypeOK ==
  /\ ship \in Sectors
  /\ screen \in Screens
  /\ wire \in Seq(Commands) /\ Len(wire) <= MaxInFlight
  /\ reconnecting \in BOOLEAN
  /\ epoch \in 0..MaxEpoch
  /\ lastSector \in Sectors \cup {None}
  /\ lastEpoch \in 0..MaxEpoch \cup {None}
  /\ sectorBeforeSend \in Sectors \cup {None}
  /\ driver \in {"nobody", "app", "human", "explore", "explore hops"}
  /\ seen \in Screens
  /\ polled \in [Pollers -> Screens]
  /\ landmarks \subseteq Sectors
  /\ astray \in BOOLEAN

-----------------------------------------------------------------------------
(* The memory *)

MemoryValid == lastEpoch = epoch

LastKnownSector == IF MemoryValid THEN lastSector ELSE None

\* Mutated form: a carry that survives the next send.
BumpKeepingCarry(carry) ==
  /\ epoch < MaxEpoch
  /\ sectorBeforeSend' = IF carry /\ MemoryValid THEN lastSector ELSE sectorBeforeSend
  /\ epoch' = epoch + 1
  /\ UNCHANGED <<lastSector, lastEpoch>>

\* Mutated form: every bump carries, those of human keys included.
BumpAlwaysCarrying(carry) ==
  /\ epoch < MaxEpoch
  /\ sectorBeforeSend' = LastKnownSector
  /\ epoch' = epoch + 1
  /\ UNCHANGED <<lastSector, lastEpoch>>

\* Mutated form: only the App's sends move the epoch.
BumpOnAppSendsOnly(carry) ==
  /\ epoch < MaxEpoch
  /\ sectorBeforeSend' = IF carry /\ MemoryValid THEN lastSector ELSE None
  /\ epoch' = IF carry THEN epoch + 1 ELSE epoch
  /\ UNCHANGED <<lastSector, lastEpoch>>

BumpSectorEpoch(carry) ==
  /\ epoch < MaxEpoch
  /\ sectorBeforeSend' = IF carry /\ MemoryValid THEN lastSector ELSE None
  /\ epoch' = epoch + 1
  /\ UNCHANGED <<lastSector, lastEpoch>>

\* Stamps the epoch of the call, not of the screen the sector was read from.
NoteSector(s) ==
  /\ lastSector' = s
  /\ lastEpoch' = epoch
  /\ UNCHANGED <<epoch, sectorBeforeSend>>

-----------------------------------------------------------------------------
(* The game *)

Reaction(command) ==
  CASE command[1] = "warp" /\ screen[1] = "sector" ->
         ship' = command[2] /\ screen' = AtSector(command[2])
    [] command[1] = "dock" /\ screen[1] = "sector" ->
         ship' = ship /\ screen' = IF ship = Dock THEN AtDock ELSE Opaque
    [] command[1] = "leave" ->
         ship' = ship /\ screen' = AtSector(ship)
    [] OTHER -> ship' = ship /\ screen' = screen

GameAnswers ==
  /\ wire # <<>>
  /\ Reaction(Head(wire))
  /\ wire' = Tail(wire)
  /\ UNCHANGED <<reconnecting, memoryVars, driver, seen, polled, landmarks, astray>>

-----------------------------------------------------------------------------
(* The driving seat *)

Drives(d) == driver = "nobody" /\ driver' = d

TakesSeat(d) ==
  /\ Drives(d)
  /\ UNCHANGED <<gameVars, memoryVars, seen, polled, landmarks, astray>>

\* A dispatch ends, the human detaches, or the run halts with nothing in hand:
\* stopped, its settle timed out, or a screen it cannot drive.
LeavesSeat ==
  /\ driver # "nobody" /\ seen = Opaque
  /\ driver' = "nobody"
  /\ UNCHANGED <<gameVars, memoryVars, seen, polled, landmarks, astray>>

Room(n) == Len(wire) + n <= MaxInFlight

\* Session.send: the epoch moves whether or not the bytes reach the game.
AppSends(command) ==
  /\ driver = "app"
  /\ Room(1)
  /\ BumpSectorEpoch(TRUE)
  /\ wire' \in {wire, Append(wire, command)}
  /\ UNCHANGED <<ship, screen, reconnecting, driver, seen, polled, landmarks, astray>>

\* Session.send_raw, beside a preempted run too, which may hold a screen it has
\* read and not acted on.
HumanSends(keys) ==
  /\ driver \in {"human", "explore", "explore hops"}
  /\ Room(Len(keys))
  /\ BumpSectorEpoch(FALSE)
  /\ wire' \in {wire, wire \o keys}
  /\ astray' = (astray \/ seen # Opaque)
  /\ UNCHANGED <<ship, screen, reconnecting, driver, seen, polled, landmarks>>

\* Session.reconnect: the bump comes first, while the old screen stands ...
ReconnectBumps ==
  /\ ~reconnecting
  /\ reconnecting' = TRUE
  /\ BumpSectorEpoch(FALSE)
  /\ UNCHANGED <<ship, screen, wire, driver, seen, polled, landmarks, astray>>

\* ... then a fresh screen and connection; what was on the wire is gone.
ReconnectReplaces ==
  /\ reconnecting
  /\ reconnecting' = FALSE
  /\ wire' = <<>>
  /\ screen' = Opaque
  /\ UNCHANGED <<ship, memoryVars, driver, seen, polled, landmarks, astray>>

-----------------------------------------------------------------------------
(* The explore run *)

ExploreLooks ==
  /\ driver = "explore"
  /\ seen = Opaque
  /\ wire = <<>>
  /\ screen # Opaque
  /\ seen' = screen
  /\ UNCHANGED <<gameVars, memoryVars, driver, polled, landmarks, astray>>

\* An ordinary tick: note the sector, then hop or stop.
ExploreNotes ==
  /\ driver = "explore"
  /\ seen[1] = "sector"
  /\ NoteSector(seen[2])
  /\ seen' = Opaque
  /\ driver' = "explore hops"
  /\ UNCHANGED <<gameVars, polled, landmarks, astray>>

\* The hop goes out, or raises and the run ends crashed.
ExploreHops(s) ==
  /\ driver = "explore hops"
  /\ Room(1)
  /\ BumpSectorEpoch(TRUE)
  /\ \/ wire' = Append(wire, <<"warp", s>>) /\ driver' = "explore"
     \/ UNCHANGED wire /\ driver' = "nobody"
  /\ UNCHANGED <<ship, screen, reconnecting, seen, polled, landmarks, astray>>

\* _attribute_landmark, the last thing a run does on a StarDock screen.
Attributed == IF LastKnownSector # None THEN LastKnownSector ELSE sectorBeforeSend

\* Mutated form: the refusal of a sector nobody knows is dropped.
ExploreAttributesUnasked ==
  /\ driver = "explore"
  /\ seen = AtDock
  /\ landmarks' = landmarks \cup {Attributed}
  /\ NoteSector(Attributed)
  /\ seen' = Opaque
  /\ driver' = "nobody"
  /\ UNCHANGED <<gameVars, polled, astray>>

ExploreAttributes ==
  /\ driver = "explore"
  /\ seen = AtDock
  /\ IF Attributed = None
     THEN UNCHANGED <<memoryVars, landmarks>>
     ELSE /\ landmarks' = landmarks \cup {Attributed}
          /\ NoteSector(Attributed)
  /\ seen' = Opaque
  /\ driver' = "nobody"
  /\ UNCHANGED <<gameVars, polled, astray>>

-----------------------------------------------------------------------------
(* The `state' verb: render, parse the prompt, note; no lock, no settle *)

PollRenders(p) ==
  /\ polled[p] = Opaque
  /\ screen[1] = "sector"
  /\ polled' = [polled EXCEPT ![p] = screen]
  /\ UNCHANGED <<gameVars, memoryVars, driver, seen, landmarks, astray>>

PollNotes(p) ==
  /\ polled[p] # Opaque
  /\ NoteSector(polled[p][2])
  /\ astray' = (astray \/ wire # <<>> \/ polled[p] # screen)
  /\ polled' = [polled EXCEPT ![p] = Opaque]
  /\ UNCHANGED <<gameVars, driver, seen, landmarks>>

-----------------------------------------------------------------------------

Next ==
  \/ GameAnswers
  \/ \E d \in {"app", "human", "explore"} : TakesSeat(d)
  \/ LeavesSeat
  \/ \E c \in Commands : AppSends(c)
  \/ \E keys \in Pastes : HumanSends(keys)
  \/ ReconnectBumps \/ ReconnectReplaces
  \/ ExploreLooks \/ ExploreNotes \/ ExploreAttributes
  \/ \E s \in Sectors : ExploreHops(s)
  \/ \E p \in Pollers : PollRenders(p) \/ PollNotes(p)

Spec == Init /\ [][Next]_vars

-----------------------------------------------------------------------------
(* Properties *)

\* No sector other than the one StarDock is in is ever recorded as StarDock.
LandmarkIsDock == landmarks \subseteq {Dock}

\* _attribute_landmark names the right sector or none, whatever was sent,
\* lost, typed or replaced since the sector was read, unless a reader of state
\* noted a sector the screen no longer showed or with an answer due, or a key
\* was typed on the screen a preempted run was about to act on.
LandmarkStands == ~astray => LandmarkIsDock

\* A sector that last_known_sector hands out is where the ship is, and no
\* command is on its way that could move it.
LastKnownIsHere ==
  LastKnownSector # None => LastKnownSector = ship /\ wire = <<>>

\* On a StarDock screen the carry of sector_before_last_send, when there is
\* one, is the sector the ship never left.
CarryIsDeparture ==
  screen = AtDock /\ wire = <<>> /\ sectorBeforeSend # None
    => sectorBeforeSend = ship

\* The memory is right in both of its forms, the reading and the carry, with
\* the same two exceptions.
MemoryInv == TypeOK /\ (~astray => LastKnownIsHere /\ CarryIsDeparture)

\* The strengthening that makes LandmarkIsDock inductive until a reading goes
\* astray: what the terminal shows and what the run has read are about where
\* the ship is, the carry survives at most one command, and no reading is
\* stamped with an epoch to come.
ScreenIsHere ==
  /\ screen = AtDock => ship = Dock
  /\ screen \notin {AtDock, Opaque} => screen = AtSector(ship)

SeenIsHere ==
  seen # Opaque => /\ driver = "explore" /\ wire = <<>>
                   /\ seen = AtDock =>
                        ship = Dock /\ sectorBeforeSend \in {None, ship}
                   /\ seen # AtDock => seen = AtSector(ship)

CarryHolds ==
  sectorBeforeSend # None =>
    /\ Len(wire) <= 1
    /\ wire # <<>> \/ screen = AtDock => sectorBeforeSend = ship

StampedInThePast == lastEpoch # None => lastEpoch <= epoch

TurnsInv ==
  /\ TypeOK
  /\ StampedInThePast
  /\ LandmarkIsDock
  /\ LastKnownIsHere
  /\ ScreenIsHere
  /\ SeenIsHere
  /\ CarryHolds
=============================================================================
