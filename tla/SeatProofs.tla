------------------------------- MODULE SeatProofs -------------------------------
(***************************************************************************)
(* Proofs about who may act: the sector memory the drivers share, the way  *)
(* from a rule to a running macro, and the play shell with the runs it     *)
(* starts and watches.  The last section takes the                         *)
(* theorems of the three to the composition the runs check.                *)
(***************************************************************************)
EXTENDS MCSeat, FiniteSetTheorems, SequenceTheorems, TLAPS

-----------------------------------------------------------------------------
(* The sector memory: until a reading goes astray - a reader of state notes a  *)
(* screen that is gone, or a key is typed on the screen a preempted run holds  *)
(* - a StarDock landmark is never wrong, for every set of sectors, every       *)
(* number of readers and of sends and every depth of the wire.                 *)

\* Only the StarDock screen is AtDock and only a sector prompt names a sector.
LEMMA ScreensDiffer ==
  /\ AtDock # Opaque
  /\ \A s : AtSector(s) # AtDock /\ AtSector(s) # Opaque /\ AtSector(s)[2] = s
  /\ \A s : AtSector(s)[1] = "sector"
  /\ AtDock[1] # "sector" /\ Opaque[1] # "sector"
  BY DEF AtDock, Opaque, AtSector

\* What a wire of commands is after one more, one less and a whole write.
LEMMA WireGrows ==
  ASSUME NEW w \in Seq(Commands), NEW c \in Commands
  PROVE  /\ Append(w, c) \in Seq(Commands)
         /\ Len(Append(w, c)) = Len(w) + 1
         /\ Append(w, c) # <<>>
  <1>1. Append(w, c) \in Seq(Commands) /\ Len(Append(w, c)) = Len(w) + 1
    OBVIOUS
  <1>2. Len(w) \in Nat
    OBVIOUS
  <1> QED BY <1>1, <1>2, EmptySeq

\* The first command on the wire taken off leaves the rest of them.
LEMMA WireShrinks ==
  ASSUME NEW w \in Seq(Commands), w # <<>>
  PROVE  /\ Head(w) \in Commands
         /\ Tail(w) \in Seq(Commands)
         /\ Len(Tail(w)) = Len(w) - 1
         /\ Len(w) \in Nat \ {0}
         /\ Len(w) <= 1 => Tail(w) = <<>>
  <1>1. /\ Head(w) \in Commands /\ Tail(w) \in Seq(Commands)
        /\ Len(Tail(w)) = Len(w) - 1
    BY HeadTailProperties
  <1>2. Len(w) \in Nat \ {0}
    BY EmptySeq
  <1>3. Len(w) <= 1 => Len(Tail(w)) = 0
    BY <1>1, <1>2
  <1>4. Len(w) <= 1 => Tail(w) = <<>>
    BY <1>1, <1>3, EmptySeq
  <1> QED BY <1>1, <1>2, <1>4

\* A paste goes to the end of the wire, key for key.
LEMMA PasteGrows ==
  ASSUME NEW w \in Seq(Commands), NEW keys \in Pastes
  PROVE  /\ w \o keys \in Seq(Commands)
         /\ Len(w \o keys) = Len(w) + Len(keys)
  <1>1. keys \in Seq(Commands)
    <2>1. CASE keys \in {<<c>> : c \in Commands}
      <3>1. PICK c \in Commands : keys = <<c>>
        BY <2>1
      <3> QED BY <3>1
    <2>2. CASE keys \in {<<c, d>> : c, d \in Commands}
      <3>1. PICK c \in Commands, d \in Commands : keys = <<c, d>>
        BY <2>2
      <3> QED BY <3>1
    <2> QED BY <2>1, <2>2 DEF Pastes
  <1> QED BY <1>1, ConcatProperties

\* The game keeps the ship where the screen says it is, and only a dock
\* command at StarDock, from that sector's own prompt, shows AtDock anew.
LEMMA ReactionTells ==
  ASSUME NEW c \in Commands, ship \in Sectors, screen \in Screens, ScreenIsHere,
         Reaction(c)
  PROVE  /\ ship' \in Sectors /\ screen' \in Screens
         /\ ScreenIsHere'
         /\ screen' = AtDock => ship' = ship
  <1> USE ScreensDiffer, SectorAssumption DEF ScreenIsHere, Screens
  <1>1. CASE c[1] = "warp" /\ screen[1] = "sector"
    <2>1. ship' = c[2] /\ screen' = AtSector(c[2])
      BY <1>1 DEF Reaction
    <2>2. c[2] \in Sectors
      BY <1>1 DEF Commands
    <2> QED BY <2>1, <2>2
  <1>2. CASE c[1] = "dock" /\ screen[1] = "sector"
    <2>1. ship' = ship /\ screen' = IF ship = Dock THEN AtDock ELSE Opaque
      BY <1>2 DEF Reaction
    <2> QED BY <2>1
  <1>3. CASE c[1] = "leave"
    <2>1. ship' = ship /\ screen' = AtSector(ship)
      BY <1>3 DEF Reaction
    <2> QED BY <2>1
  <1>4. CASE c[1] # "leave" /\ screen[1] # "sector"
    <2>1. ship' = ship /\ screen' = screen
      BY <1>4 DEF Reaction
    <2> QED BY <2>1
  <1>5. c[1] \in {"warp", "dock", "leave"}
    BY DEF Commands
  <1> QED BY <1>1, <1>2, <1>3, <1>4, <1>5

-----------------------------------------------------------------------------

\* Nothing is remembered at the start.
LEMMA InitTurns == Init => TurnsInv
<1> SUFFICES ASSUME Init PROVE TurnsInv
  OBVIOUS
<1> USE ScreensDiffer, SectorAssumption DEF Init
<1>1. TypeOK
  <2>1. wire \in Seq(Commands) /\ Len(wire) <= MaxInFlight
    BY EmptySeq
  <2>2. screen \in Screens /\ seen \in Screens /\ polled \in [Pollers -> Screens]
    BY DEF Screens
  <2>3. epoch \in 0..MaxEpoch
    OBVIOUS
  <2> QED BY <2>1, <2>2, <2>3 DEF TypeOK
<1>2. LastKnownSector = None
  BY DEF LastKnownSector
<1> QED BY <1>1, <1>2 DEF TurnsInv, LandmarkIsDock, LastKnownIsHere,
           ScreenIsHere, SeenIsHere, CarryHolds, StampedInThePast

\* A bump leaves nothing to hand out; a carry is filed only from a memory
\* that was good, hence from a wire that was empty.
LEMMA BumpSilences ==
  ASSUME TurnsInv, NEW carry \in BOOLEAN, BumpSectorEpoch(carry)
  PROVE  /\ epoch' \in 0..MaxEpoch
         /\ lastSector' \in Sectors \cup {None}
         /\ lastEpoch' \in 0..MaxEpoch \cup {None}
         /\ sectorBeforeSend' \in Sectors \cup {None}
         /\ LastKnownSector' = None /\ StampedInThePast'
         /\ sectorBeforeSend' # None =>
              carry /\ wire = <<>> /\ sectorBeforeSend' = ship
  <1>1. /\ epoch' = epoch + 1 /\ epoch < MaxEpoch
        /\ lastSector' = lastSector /\ lastEpoch' = lastEpoch
        /\ sectorBeforeSend' = IF carry /\ MemoryValid THEN lastSector ELSE None
    BY DEF BumpSectorEpoch
  <1>2. /\ epoch \in 0..MaxEpoch /\ MaxEpoch \in Nat
        /\ lastSector \in Sectors \cup {None}
        /\ lastEpoch \in 0..MaxEpoch \cup {None}
        /\ None \notin Nat
    BY SectorAssumption DEF TurnsInv, TypeOK
  <1>3. epoch' \in 0..MaxEpoch
    BY <1>1, <1>2
  <1>4. lastEpoch # epoch + 1
    BY <1>2 DEF TurnsInv, StampedInThePast
  <1>5. LastKnownSector' = None /\ StampedInThePast'
    BY <1>1, <1>2, <1>4 DEF LastKnownSector, MemoryValid, StampedInThePast, TurnsInv
  <1>6. sectorBeforeSend' # None =>
              carry /\ wire = <<>> /\ sectorBeforeSend' = ship
    BY <1>1 DEF TurnsInv, LastKnownIsHere, LastKnownSector
  <1> QED BY <1>1, <1>2, <1>3, <1>5, <1>6

\* An App send that reaches the game puts one command on a wire that was
\* empty, whenever it files a carry.
LEMMA OneCommandCarried ==
  ASSUME TurnsInv, NEW carry \in BOOLEAN, BumpSectorEpoch(carry), NEW c \in Commands,
         Room(1), wire' \in {wire, Append(wire, c)}, UNCHANGED <<ship, screen>>
  PROVE  /\ wire' \in Seq(Commands) /\ Len(wire') <= MaxInFlight
         /\ CarryHolds'
  <1>1. wire \in Seq(Commands) /\ Len(wire) <= MaxInFlight /\ MaxInFlight \in Nat
    BY SectorAssumption DEF TurnsInv, TypeOK
  <1>2. Len(wire) + 1 <= MaxInFlight
    BY DEF Room
  <1>3. wire' \in Seq(Commands) /\ Len(wire') <= MaxInFlight
    BY <1>1, <1>2, WireGrows
  <1>4. ASSUME sectorBeforeSend' # None
        PROVE  Len(wire') <= 1 /\ sectorBeforeSend' = ship'
    <2>1. wire = <<>> /\ sectorBeforeSend' = ship
      BY <1>4, BumpSilences
    <2>2. Len(wire) = 0
      BY <2>1
    <2>3. Len(Append(wire, c)) = 1
      BY <1>1, <2>2, WireGrows
    <2>4. ship' = ship
      OBVIOUS
    <2>5. Len(wire') <= 1
      BY <2>2, <2>3
    <2> QED BY <2>1, <2>4, <2>5
  <1>5. CarryHolds'
    BY <1>4 DEF CarryHolds
  <1> QED BY <1>3, <1>5

\* Whoever drives, nothing is read by a run that no longer drives.
LEMMA NothingSeen ==
  ASSUME TurnsInv, driver # "explore"
  PROVE  seen = Opaque
  BY DEF TurnsInv, SeenIsHere

\* Every step preserves TurnsInv unless a reading goes astray with it.
LEMMA NextTurns ==
  ASSUME TurnsInv, ~astray', [Next]_vars
  PROVE  TurnsInv'
<1> USE SectorAssumption
<1>1. CASE GameAnswers
  <2>1. /\ wire # <<>> /\ Reaction(Head(wire)) /\ wire' = Tail(wire)
        /\ UNCHANGED <<reconnecting, epoch, lastSector, lastEpoch, sectorBeforeSend,
                       driver, seen, polled, landmarks, astray>>
    BY <1>1 DEF GameAnswers, memoryVars
  <2>2. /\ wire \in Seq(Commands) /\ ship \in Sectors /\ screen \in Screens
        /\ ScreenIsHere /\ Len(wire) <= MaxInFlight /\ MaxInFlight \in Nat
    BY DEF TurnsInv, TypeOK
  <2>3. /\ Head(wire) \in Commands /\ wire' \in Seq(Commands)
        /\ Len(wire') = Len(wire) - 1 /\ Len(wire) \in Nat \ {0}
        /\ Len(wire) <= 1 => wire' = <<>>
    BY <2>1, <2>2, WireShrinks
  <2>4. /\ ship' \in Sectors /\ screen' \in Screens /\ ScreenIsHere'
        /\ screen' = AtDock => ship' = ship
    BY <2>1, <2>2, <2>3, ReactionTells
  <2>5. Len(wire') <= MaxInFlight
    BY <2>2, <2>3
  <2>6. TypeOK'
    BY <2>1, <2>3, <2>4, <2>5 DEF TurnsInv, TypeOK
  <2>7. LastKnownSector = None /\ LastKnownSector' = None
    BY <2>1 DEF TurnsInv, LastKnownIsHere, LastKnownSector, MemoryValid
  <2>8. seen = Opaque
    BY <2>1 DEF TurnsInv, SeenIsHere
  <2>9. CarryHolds'
    <3>1. ASSUME sectorBeforeSend # None
          PROVE  wire' = <<>> /\ (screen' = AtDock => sectorBeforeSend = ship')
      <4>1. Len(wire) <= 1 /\ sectorBeforeSend = ship
        BY <2>1, <3>1 DEF TurnsInv, CarryHolds
      <4> QED BY <2>3, <2>4, <4>1
    <3>2. Len(<<>>) = 0
      BY EmptySeq
    <3>3. sectorBeforeSend' = sectorBeforeSend
      BY <2>1
    <3>4. ASSUME sectorBeforeSend' # None
          PROVE  Len(wire') <= 1 /\ (wire' # <<>> \/ screen' = AtDock => sectorBeforeSend' = ship')
      BY <3>1, <3>2, <3>3, <3>4
    <3> QED BY <3>4 DEF CarryHolds
  <2> QED BY <2>1, <2>4, <2>6, <2>7, <2>8, <2>9
          DEF TurnsInv, LandmarkIsDock, LastKnownIsHere, SeenIsHere, StampedInThePast
<1>2. ASSUME NEW d \in {"app", "human", "explore"}, TakesSeat(d) PROVE TurnsInv'
  <2>1. /\ driver = "nobody" /\ driver' = d
        /\ UNCHANGED <<ship, screen, wire, reconnecting, epoch, lastSector, lastEpoch,
                       sectorBeforeSend, seen, polled, landmarks, astray>>
    BY <1>2 DEF TakesSeat, Drives, gameVars, memoryVars
  <2>2. seen = Opaque
    BY <2>1, NothingSeen
  <2> QED BY <2>1, <2>2
          DEF TurnsInv, TypeOK, LandmarkIsDock, LastKnownIsHere, LastKnownSector,
              MemoryValid, ScreenIsHere, SeenIsHere, CarryHolds, StampedInThePast
<1>3. CASE LeavesSeat
  <2>1. /\ seen = Opaque /\ driver' = "nobody"
        /\ UNCHANGED <<ship, screen, wire, reconnecting, epoch, lastSector, lastEpoch,
                       sectorBeforeSend, seen, polled, landmarks, astray>>
    BY <1>3 DEF LeavesSeat, gameVars, memoryVars
  <2> QED BY <2>1
          DEF TurnsInv, TypeOK, LandmarkIsDock, LastKnownIsHere, LastKnownSector,
              MemoryValid, ScreenIsHere, SeenIsHere, CarryHolds, StampedInThePast
<1>4. ASSUME NEW c \in Commands, AppSends(c) PROVE TurnsInv'
  <2>1. /\ driver = "app" /\ Room(1) /\ BumpSectorEpoch(TRUE)
        /\ wire' \in {wire, Append(wire, c)}
        /\ UNCHANGED <<ship, screen, reconnecting, driver, seen, polled, landmarks, astray>>
    BY <1>4 DEF AppSends
  <2>2. seen = Opaque
    BY <2>1, NothingSeen
  <2>3. wire' \in Seq(Commands) /\ Len(wire') <= MaxInFlight /\ CarryHolds'
    BY <2>1, OneCommandCarried
  <2> QED BY <2>1, <2>2, <2>3, BumpSilences
          DEF TurnsInv, TypeOK, LandmarkIsDock, LastKnownIsHere, ScreenIsHere, SeenIsHere
<1>5. ASSUME NEW keys \in Pastes, HumanSends(keys) PROVE TurnsInv'
  <2>1. /\ Room(Len(keys)) /\ BumpSectorEpoch(FALSE)
        /\ wire' \in {wire, wire \o keys}
        /\ UNCHANGED <<ship, screen, reconnecting, driver, seen, polled, landmarks>>
    BY <1>5 DEF HumanSends
  <2>2. seen = Opaque /\ astray' \in BOOLEAN
    BY <1>5 DEF HumanSends
  <2>3. wire' \in Seq(Commands) /\ Len(wire') <= MaxInFlight
    BY <2>1, PasteGrows DEF TurnsInv, TypeOK, Room
  <2>4. CarryHolds'
    BY <2>1, BumpSilences DEF CarryHolds
  <2> QED BY <2>1, <2>2, <2>3, <2>4, BumpSilences
          DEF TurnsInv, TypeOK, LandmarkIsDock, LastKnownIsHere, ScreenIsHere, SeenIsHere
<1>6. CASE ReconnectBumps
  <2>1. /\ BumpSectorEpoch(FALSE) /\ reconnecting' = TRUE
        /\ UNCHANGED <<ship, screen, wire, driver, seen, polled, landmarks, astray>>
    BY <1>6 DEF ReconnectBumps
  <2>2. sectorBeforeSend' = None
    BY <2>1, BumpSilences
  <2>3. TypeOK'
    BY <2>1, BumpSilences DEF TurnsInv, TypeOK
  <2> QED BY <2>1, <2>2, <2>3, BumpSilences
          DEF TurnsInv, LandmarkIsDock, LastKnownIsHere, ScreenIsHere, SeenIsHere, CarryHolds
<1>6a. CASE ReconnectReplaces
  <2>1. /\ wire' = <<>> /\ screen' = Opaque /\ reconnecting' = FALSE
        /\ UNCHANGED <<ship, epoch, lastSector, lastEpoch, sectorBeforeSend, driver,
                       seen, polled, landmarks, astray>>
    BY <1>6a DEF ReconnectReplaces, memoryVars
  <2>2. wire' \in Seq(Commands) /\ Len(wire') <= 1 /\ Len(wire') <= MaxInFlight
    BY <2>1, EmptySeq
  <2>3. screen' \in Screens /\ ScreenIsHere'
    BY <2>1, ScreensDiffer DEF Screens, ScreenIsHere
  <2>4. TypeOK'
    BY <2>1, <2>2, <2>3 DEF TurnsInv, TypeOK
  <2>5. CarryHolds'
    BY <2>1, <2>2, ScreensDiffer DEF TurnsInv, CarryHolds
  <2> QED BY <2>1, <2>3, <2>4, <2>5
          DEF TurnsInv, LandmarkIsDock, LastKnownIsHere, LastKnownSector, MemoryValid,
              SeenIsHere, StampedInThePast
<1>7. CASE ExploreLooks
  <2>1. /\ driver = "explore" /\ wire = <<>> /\ screen # Opaque /\ seen' = screen
        /\ UNCHANGED <<ship, screen, wire, reconnecting, epoch, lastSector, lastEpoch,
                       sectorBeforeSend, driver, polled, landmarks, astray>>
    BY <1>7 DEF ExploreLooks, gameVars, memoryVars
  <2> QED BY <2>1
          DEF TurnsInv, TypeOK, LandmarkIsDock, LastKnownIsHere, LastKnownSector,
              MemoryValid, ScreenIsHere, SeenIsHere, CarryHolds, StampedInThePast
<1>8. CASE ExploreNotes
  <2>1. /\ seen[1] = "sector" /\ lastSector' = seen[2] /\ lastEpoch' = epoch
        /\ seen' = Opaque /\ driver' = "explore hops"
        /\ UNCHANGED <<ship, screen, wire, reconnecting, epoch, sectorBeforeSend, polled, landmarks, astray>>
    BY <1>8 DEF ExploreNotes, NoteSector, gameVars
  <2>2. wire = <<>> /\ seen[2] = ship
    BY <2>1, ScreensDiffer DEF TurnsInv, SeenIsHere
  <2>3. seen' \in Screens
    BY <2>1 DEF Screens
  <2>4. TypeOK'
    BY <2>1, <2>2, <2>3 DEF TurnsInv, TypeOK
  <2>5. StampedInThePast'
    <3>1. epoch \in 0..MaxEpoch /\ MaxEpoch \in Nat
      BY DEF TurnsInv, TypeOK
    <3>2. epoch <= epoch
      BY <3>1
    <3> QED BY <2>1, <3>2 DEF TurnsInv, StampedInThePast
  <2> QED BY <2>1, <2>2, <2>4, <2>5
          DEF TurnsInv, LandmarkIsDock, LastKnownIsHere, LastKnownSector,
              MemoryValid, ScreenIsHere, SeenIsHere, CarryHolds
<1>9. ASSUME NEW s \in Sectors, ExploreHops(s) PROVE TurnsInv'
  <2>1. /\ driver = "explore hops" /\ Room(1) /\ BumpSectorEpoch(TRUE)
        /\ wire' \in {wire, Append(wire, <<"warp", s>>)}
        /\ driver' \in {"explore", "nobody"}
        /\ UNCHANGED <<ship, screen, reconnecting, seen, polled, landmarks, astray>>
    BY <1>9 DEF ExploreHops
  <2>2. seen = Opaque
    BY <2>1, NothingSeen
  <2>3. <<"warp", s>> \in Commands
    BY DEF Commands
  <2>4. wire' \in Seq(Commands) /\ Len(wire') <= MaxInFlight /\ CarryHolds'
    BY <2>1, <2>3, OneCommandCarried
  <2> QED BY <2>1, <2>2, <2>4, BumpSilences
          DEF TurnsInv, TypeOK, LandmarkIsDock, LastKnownIsHere, ScreenIsHere, SeenIsHere
<1>10. CASE ExploreAttributes
  <2>1. /\ seen = AtDock /\ seen' = Opaque /\ driver' = "nobody"
        /\ UNCHANGED <<ship, screen, wire, reconnecting, epoch, sectorBeforeSend, polled, astray>>
        /\ \/ UNCHANGED <<lastSector, lastEpoch, landmarks>>
           \/ /\ Attributed # None /\ landmarks' = landmarks \cup {Attributed}
              /\ lastSector' = Attributed /\ lastEpoch' = epoch
    BY <1>10 DEF ExploreAttributes, NoteSector, gameVars, memoryVars
  <2>2. wire = <<>> /\ ship = Dock
    BY <2>1, ScreensDiffer DEF TurnsInv, SeenIsHere
  <2>3. Attributed # None => Attributed = Dock
    BY <2>1, <2>2, ScreensDiffer DEF TurnsInv, SeenIsHere, LastKnownIsHere, Attributed
  <2>4. seen' \in Screens
    BY <2>1 DEF Screens
  <2>5. TypeOK'
    BY <2>1, <2>2, <2>3, <2>4 DEF TurnsInv, TypeOK
  <2>6. StampedInThePast'
    <3>1. epoch \in 0..MaxEpoch /\ MaxEpoch \in Nat
      BY DEF TurnsInv, TypeOK
    <3>2. epoch <= epoch
      BY <3>1
    <3> QED BY <2>1, <3>2 DEF TurnsInv, StampedInThePast
  <2>7. LandmarkIsDock' /\ LastKnownIsHere'
    BY <2>1, <2>2, <2>3
       DEF TurnsInv, LandmarkIsDock, LastKnownIsHere, LastKnownSector, MemoryValid
  <2> QED BY <2>1, <2>5, <2>6, <2>7 DEF TurnsInv, ScreenIsHere, SeenIsHere, CarryHolds
<1>11. ASSUME NEW p \in Pollers, PollRenders(p) PROVE TurnsInv'
  <2>1. /\ polled' = [polled EXCEPT ![p] = screen]
        /\ UNCHANGED <<ship, screen, wire, reconnecting, epoch, lastSector, lastEpoch,
                       sectorBeforeSend, driver, seen, landmarks, astray>>
    BY <1>11 DEF PollRenders, gameVars, memoryVars
  <2>2. polled' \in [Pollers -> Screens]
    BY <2>1 DEF TurnsInv, TypeOK
  <2>3. TypeOK'
    BY <2>1, <2>2 DEF TurnsInv, TypeOK
  <2>4. StampedInThePast' /\ LandmarkIsDock' /\ LastKnownIsHere'
    BY <2>1 DEF TurnsInv, StampedInThePast, LandmarkIsDock, LastKnownIsHere, LastKnownSector, MemoryValid
  <2>5. ScreenIsHere' /\ SeenIsHere' /\ CarryHolds'
    BY <2>1 DEF TurnsInv, ScreenIsHere, SeenIsHere, CarryHolds
  <2> QED BY <2>3, <2>4, <2>5 DEF TurnsInv
<1>11a. ASSUME NEW p \in Pollers, PollNotes(p) PROVE TurnsInv'
  <2>1. /\ polled[p] # Opaque /\ lastSector' = polled[p][2] /\ lastEpoch' = epoch
        /\ wire = <<>> /\ polled[p] = screen /\ astray' \in BOOLEAN
        /\ polled' = [polled EXCEPT ![p] = Opaque]
        /\ UNCHANGED <<ship, screen, wire, reconnecting, epoch, sectorBeforeSend, driver, seen, landmarks>>
    BY <1>11a DEF PollNotes, NoteSector, gameVars
  <2>2. lastSector' \in {ship, None}
    BY <2>1, ScreensDiffer DEF TurnsInv, ScreenIsHere, AtDock
  <2>3. polled' \in [Pollers -> Screens]
    BY <2>1 DEF TurnsInv, TypeOK, Screens
  <2>4. epoch \in 0..MaxEpoch /\ epoch <= epoch
    <3>1. epoch \in 0..MaxEpoch /\ MaxEpoch \in Nat
      BY DEF TurnsInv, TypeOK
    <3> QED BY <3>1
  <2>5. TypeOK'
    BY <2>1, <2>2, <2>3, <2>4 DEF TurnsInv, TypeOK
  <2>6. StampedInThePast'
    BY <2>1, <2>4 DEF StampedInThePast
  <2>7. LastKnownIsHere'
    BY <2>1, <2>2 DEF LastKnownIsHere, LastKnownSector
  <2> QED BY <2>1, <2>5, <2>6, <2>7
          DEF TurnsInv, LandmarkIsDock, ScreenIsHere, SeenIsHere, CarryHolds
<1>12. CASE UNCHANGED vars
  <2> USE <1>12 DEF vars
  <2>1. TypeOK' /\ LandmarkIsDock'
    BY DEF TurnsInv, TypeOK, LandmarkIsDock
  <2>2. LastKnownIsHere'
    BY DEF TurnsInv, LastKnownIsHere, LastKnownSector, MemoryValid
  <2>3. ScreenIsHere' /\ SeenIsHere'
    BY DEF TurnsInv, ScreenIsHere, SeenIsHere
  <2>4. CarryHolds' /\ StampedInThePast'
    BY DEF TurnsInv, CarryHolds, StampedInThePast
  <2> QED BY <2>1, <2>2, <2>3, <2>4 DEF TurnsInv
<1> QED BY <1>1, <1>2, <1>3, <1>4, <1>5, <1>6, <1>7, <1>8, <1>9, <1>10, <1>11, <1>11a, <1>12, <1>6a
        DEF Next

\* What the game does to a screen is a screen again.
LEMMA ReactionTyped ==
  ASSUME NEW c \in Commands, ship \in Sectors, screen \in Screens, Reaction(c)
  PROVE  ship' \in Sectors /\ screen' \in Screens
<1>1. CASE c[1] = "warp" /\ screen[1] = "sector"
  <2>1. ship' = c[2] /\ screen' = AtSector(c[2])
    BY <1>1 DEF Reaction
  <2>2. c[2] \in Sectors
    BY <1>1 DEF Commands
  <2> QED BY <2>1, <2>2 DEF Screens
<1>2. CASE c[1] = "dock" /\ screen[1] = "sector"
  BY <1>2 DEF Reaction, Screens
<1>3. CASE c[1] = "leave"
  BY <1>3 DEF Reaction, Screens
<1>4. CASE c[1] # "leave" /\ screen[1] # "sector"
  <2>1. ship' = ship /\ screen' = screen
    BY <1>4 DEF Reaction
  <2> QED BY <2>1
<1>5. c[1] \in {"warp", "dock", "leave"}
  BY DEF Commands
<1> QED BY <1>1, <1>2, <1>3, <1>4, <1>5

\* Every step keeps the types, whatever went astray.
LEMMA NextTyped == ASSUME TypeOK, [Next]_vars PROVE TypeOK'
<1> USE SectorAssumption
<1>1. CASE GameAnswers
  <2>1. /\ wire # <<>> /\ Reaction(Head(wire)) /\ wire' = Tail(wire)
        /\ UNCHANGED <<reconnecting, epoch, lastSector, lastEpoch, sectorBeforeSend,
                       driver, seen, polled, landmarks, astray>>
    BY <1>1 DEF GameAnswers, memoryVars
  <2>2. /\ wire \in Seq(Commands) /\ ship \in Sectors /\ screen \in Screens
        /\ Len(wire) <= MaxInFlight /\ MaxInFlight \in Nat
    BY DEF TypeOK
  <2>3. /\ Head(wire) \in Commands /\ wire' \in Seq(Commands)
        /\ Len(wire') = Len(wire) - 1 /\ Len(wire) \in Nat \ {0}
    BY <2>1, <2>2, WireShrinks
  <2>4. ship' \in Sectors /\ screen' \in Screens
    BY <2>1, <2>2, <2>3, ReactionTyped
  <2>5. Len(wire') <= MaxInFlight
    BY <2>2, <2>3
  <2> QED BY <2>1, <2>3, <2>4, <2>5 DEF TypeOK
<1>2. CASE LeavesSeat \/ \E d \in {"app", "human", "explore"} : TakesSeat(d)
  BY <1>2 DEF LeavesSeat, TakesSeat, Drives, gameVars, memoryVars, TypeOK
<1>3. ASSUME NEW carry \in BOOLEAN, BumpSectorEpoch(carry)
      PROVE  /\ epoch' \in 0..MaxEpoch /\ lastSector' \in Sectors \cup {None}
             /\ lastEpoch' \in 0..MaxEpoch \cup {None}
             /\ sectorBeforeSend' \in Sectors \cup {None}
  <2>1. /\ epoch' = epoch + 1 /\ epoch < MaxEpoch
        /\ lastSector' = lastSector /\ lastEpoch' = lastEpoch
        /\ sectorBeforeSend' = IF carry /\ MemoryValid THEN lastSector ELSE None
    BY <1>3 DEF BumpSectorEpoch
  <2>2. /\ epoch \in 0..MaxEpoch /\ MaxEpoch \in Nat
        /\ lastSector \in Sectors \cup {None} /\ lastEpoch \in 0..MaxEpoch \cup {None}
    BY DEF TypeOK
  <2>3. epoch' \in 0..MaxEpoch
    BY <2>1, <2>2
  <2> QED BY <2>1, <2>2, <2>3
<1>4. ASSUME NEW c \in Commands, Room(1), wire' \in {wire, Append(wire, c)}
      PROVE  wire' \in Seq(Commands) /\ Len(wire') <= MaxInFlight
  BY <1>4, WireGrows DEF Room, TypeOK
<1>5. ASSUME NEW c \in Commands, AppSends(c) PROVE TypeOK'
  <2>1. /\ BumpSectorEpoch(TRUE) /\ Room(1) /\ wire' \in {wire, Append(wire, c)}
        /\ UNCHANGED <<ship, screen, reconnecting, driver, seen, polled, landmarks, astray>>
    BY <1>5 DEF AppSends
  <2>2. wire' \in Seq(Commands) /\ Len(wire') <= MaxInFlight
    BY <1>4, <2>1
  <2> QED BY <1>3, <2>1, <2>2 DEF TypeOK
<1>6. ASSUME NEW keys \in Pastes, HumanSends(keys) PROVE TypeOK'
  <2>1. /\ BumpSectorEpoch(FALSE) /\ Room(Len(keys)) /\ wire' \in {wire, wire \o keys}
        /\ astray' \in BOOLEAN
        /\ UNCHANGED <<ship, screen, reconnecting, driver, seen, polled, landmarks>>
    BY <1>6 DEF HumanSends
  <2>2. wire' \in Seq(Commands) /\ Len(wire') <= MaxInFlight
    BY <2>1, PasteGrows DEF TypeOK, Room
  <2> QED BY <1>3, <2>1, <2>2 DEF TypeOK
<1>7. CASE ReconnectBumps
  <2>1. /\ BumpSectorEpoch(FALSE) /\ reconnecting' = TRUE
        /\ UNCHANGED <<ship, screen, wire, driver, seen, polled, landmarks, astray>>
    BY <1>7 DEF ReconnectBumps
  <2> QED BY <1>3, <2>1 DEF TypeOK
<1>8. CASE ReconnectReplaces
  <2>1. /\ wire' = <<>> /\ screen' = Opaque /\ reconnecting' = FALSE
        /\ UNCHANGED <<ship, epoch, lastSector, lastEpoch, sectorBeforeSend, driver,
                       seen, polled, landmarks, astray>>
    BY <1>8 DEF ReconnectReplaces, memoryVars
  <2>2. wire' \in Seq(Commands) /\ Len(wire') <= MaxInFlight
    BY <2>1, EmptySeq
  <2>3. screen' \in Screens
    BY <2>1 DEF Screens
  <2> QED BY <2>1, <2>2, <2>3 DEF TypeOK
<1>9. CASE ExploreLooks
  BY <1>9 DEF ExploreLooks, gameVars, memoryVars, TypeOK
<1>10. ASSUME NEW s \in Screens PROVE s[2] \in Sectors \cup {None}
  BY <1>10, ScreensDiffer DEF Screens, AtDock, Opaque
<1>11. CASE ExploreNotes
  BY <1>10, <1>11 DEF ExploreNotes, NoteSector, gameVars, TypeOK, Screens
<1>12. CASE ExploreAttributes
  <2>1. Attributed \in Sectors \cup {None}
    BY DEF Attributed, LastKnownSector, TypeOK
  <2>2. /\ seen' = Opaque /\ driver' = "nobody"
        /\ UNCHANGED <<ship, screen, wire, reconnecting, epoch, sectorBeforeSend, polled, astray>>
        /\ \/ UNCHANGED <<lastSector, lastEpoch, landmarks>>
           \/ /\ Attributed # None /\ landmarks' = landmarks \cup {Attributed}
              /\ lastSector' = Attributed /\ lastEpoch' = epoch
    BY <1>12 DEF ExploreAttributes, NoteSector, gameVars, memoryVars
  <2> QED BY <2>1, <2>2 DEF TypeOK, Screens
<1>13. ASSUME NEW s \in Sectors, ExploreHops(s) PROVE TypeOK'
  <2>1. /\ BumpSectorEpoch(TRUE) /\ Room(1) /\ wire' \in {wire, Append(wire, <<"warp", s>>)}
        /\ driver' \in {"explore", "nobody"}
        /\ UNCHANGED <<ship, screen, reconnecting, seen, polled, landmarks, astray>>
    BY <1>13 DEF ExploreHops
  <2>2. wire' \in Seq(Commands) /\ Len(wire') <= MaxInFlight
    BY <1>4, <2>1 DEF Commands
  <2> QED BY <1>3, <2>1, <2>2 DEF TypeOK
<1>14. ASSUME NEW p \in Pollers, PollRenders(p) PROVE TypeOK'
  BY <1>14 DEF PollRenders, gameVars, memoryVars, TypeOK
<1>15. ASSUME NEW p \in Pollers, PollNotes(p) PROVE TypeOK'
  BY <1>10, <1>15 DEF PollNotes, NoteSector, gameVars, TypeOK, Screens
<1>16. CASE UNCHANGED vars
  BY <1>16 DEF vars, TypeOK
<1> QED BY <1>1, <1>2, <1>5, <1>6, <1>7, <1>8, <1>9, <1>11, <1>12, <1>13, <1>14, <1>15, <1>16 DEF Next

-----------------------------------------------------------------------------

\* The types always, and the strengthened invariant until a reading goes
\* astray.
THEOREM TurnsKept == Spec => [](TypeOK /\ (~astray => TurnsInv))
<1>1. Init => TypeOK /\ (~astray => TurnsInv)
  BY InitTurns DEF TurnsInv
<1>2. ASSUME ~astray', [Next]_vars PROVE ~astray
  <2>1. astray' = astray \/ \E b : astray' = (astray \/ b)
    BY <1>2 DEF Next, vars, GameAnswers, TakesSeat, LeavesSeat, AppSends, HumanSends, ReconnectBumps, ReconnectReplaces,
       ExploreLooks, ExploreNotes, ExploreAttributes, ExploreHops, PollRenders, PollNotes
  <2> QED BY <1>2, <2>1
<1>3. (TypeOK /\ (~astray => TurnsInv)) /\ [Next]_vars => (TypeOK /\ (~astray => TurnsInv))'
  BY <1>2, NextTurns, NextTyped
<1> QED BY <1>1, <1>3, PTL DEF Spec

\* No run records StarDock in a sector it is not in, unless a reader of state
\* noted what was gone or a key met a run that held a screen.
THEOREM LandmarksRight == Spec => []LandmarkStands
<1>1. (~astray => TurnsInv) => LandmarkStands
  BY DEF TurnsInv, LandmarkStands
<1> QED BY <1>1, TurnsKept, PTL

\* What last_known_sector hands out is where the ship is, and on a StarDock
\* screen the carry is the sector the ship never left, with the same two
\* exceptions.
THEOREM MemoryKept == Spec => []MemoryInv
<1>1. TurnsInv => LastKnownIsHere /\ CarryIsDeparture
  BY DEF TurnsInv, CarryHolds, CarryIsDeparture
<1>2. TypeOK /\ (~astray => TurnsInv) => MemoryInv
  BY <1>1 DEF MemoryInv
<1> QED BY <1>2, TurnsKept, PTL

-----------------------------------------------------------------------------
(* From a proposal to a run *)

\* A proposal comes from one rule: approved and eligible on that screen, no
\* other rule for it says stop, and every other eligible one has less priority.
LEMMA Selected ==
  ASSUME NEW lib \in Libraries, NEW c, NEW known, Select(lib, c, known) # NoProposal
  PROVE  \E r \in lib.rules :
           /\ Select(lib, c, known) = [macro |-> r.macro, rule |-> r.id, class |-> c, scope |-> r.scope]
           /\ r.approved /\ r.match = c /\ Eligible(r, known)
           /\ \A o \in lib.rules : o.approved /\ o.match = c =>
                /\ ~Stops(o, known)
                /\ o = r \/ o.priority < r.priority \/ ~Eligible(o, known)
<1> DEFINE candidates == {r \in lib.rules : r.approved /\ r.match = c}
           eligible == {r \in candidates : Eligible(r, known)}
           winners == {r \in eligible : \A o \in eligible : o.priority <= r.priority}
           chosen == CHOOSE r \in winners : TRUE
<1>1. /\ \A r \in candidates : ~Stops(r, known)
      /\ Cardinality(winners) = 1
      /\ Select(lib, c, known) = [macro |-> chosen.macro, rule |-> chosen.id, class |-> c, scope |-> chosen.scope]
  BY Zenon DEF Select
<1>2. PICK w : winners = {w}
  <2>1. IsFiniteSet(lib.rules) /\ winners \subseteq lib.rules
    BY ArmingAssumption
  <2>2. IsFiniteSet(winners)
    BY <2>1, FS_Subset
  <2> HIDE DEF winners
  <2> QED
    BY <1>1, <2>2, FS_Singleton
<1>3. chosen \in winners /\ chosen = w
  <2> HIDE DEF winners
  <2> QED
    BY <1>2
<1>4. ASSUME NEW o \in eligible, o # chosen PROVE o.priority < chosen.priority
  <2>1. o.priority \in Int /\ chosen.priority \in Int /\ o.priority <= chosen.priority
    BY <1>3, ArmingAssumption
  <2>2. o \notin winners
    <3> HIDE DEF winners
    <3> QED
      BY <1>2, <1>3, <1>4
  <2>3. PICK p \in eligible : ~(p.priority <= o.priority)
    BY <2>2
  <2>4. p.priority \in Int /\ p.priority <= chosen.priority
    BY <1>3, ArmingAssumption
  <2> QED
    BY <2>1, <2>3, <2>4
<1>5. chosen \in eligible
  BY <1>3
<1>6. chosen \in lib.rules /\ chosen \in candidates /\ Eligible(chosen, known)
  BY <1>5
<1>7. \A o \in lib.rules : o.approved /\ o.match = c =>
        ~Stops(o, known) /\ (o = chosen \/ o.priority < chosen.priority \/ ~Eligible(o, known))
  BY <1>1, <1>4
<1> HIDE DEF chosen, winners, eligible
<1> QED
  BY <1>1, <1>6, <1>7

ReportFields == {"macro", "floor", "target", "cycles", "pass"}
\* A run report, read or kept: bounded cycles, no more passes than cycles.
Reported(r) ==
  DOMAIN r = ReportFields /\ r.cycles \in 1..PassCeiling /\ r.pass \in 0..r.cycles /\ r = [f \in DOMAIN r |-> r[f]]
\* The macro on its way to a start belongs to a promise, and while there is a
\* promise there is nothing else to agree to.
PromiseInv ==
  /\ promised # NoProposal => proposal = NoProposal
  /\ status.read => promised # NoProposal
  /\ arming # NotArmed => status.read
  /\ arming.cycles \in 1..PassCeiling
  /\ Reported(runReport) /\ Reported(paused)
ArmingInv == ArmInv /\ PromiseInv

\* The report of a seat that never armed anything is complete.
LEMMA EmptyReport == Reported(NoArmReport)
  BY ArmingAssumption DEF Reported, NoArmReport, ReportFields

\* The seat begins stood down, with nothing armed.
LEMMA ArmingBegins == ArmInit => ArmingInv
<1> SUFFICES ASSUME ArmInit PROVE ArmingInv
  OBVIOUS
<1>1. ArmTypeOK
  <2>1. runReport.cycles \in 1..PassCeiling /\ runReport.pass \in 0..runReport.cycles
    BY EmptyReport DEF ArmInit, Reported
  <2>2. status.read = FALSE /\ facts \in [Facts -> {"yes", "no", "unknown"}]
    BY DEF ArmInit, NoStatus
  <2> QED
    BY <2>1, <2>2 DEF ArmInit, ArmTypeOK
<1>2. PromiseInv
  BY ArmingAssumption, EmptyReport DEF ArmInit, PromiseInv, NoStatus, NotArmed
<1>3. ArmedIsPromised
  BY DEF ArmInit, ArmedIsPromised
<1> QED
  BY <1>1, <1>2, <1>3 DEF ArmingInv, ArmInv

\* A start takes up a report that is in order.
LEMMA BeginsReport ==
  ASSUME NEW macro, NEW floor, NEW goal, NEW cycles \in Nat \ {0}, Begins(macro, floor, goal, cycles)
  PROVE  Reported(runReport') /\ running' = TRUE /\ stopEvent' = FALSE /\ standing' = "none"
<1> DEFINE n == IF cycles < PassCeiling THEN cycles ELSE PassCeiling
<1>1. n \in 1..PassCeiling /\ 1 \in 0..n
  BY ArmingAssumption
<1>2. runReport' = [macro |-> macro, floor |-> floor, target |-> goal, pass |-> 1, cycles |-> n]
  BY DEF Begins
<1> HIDE DEF n
<1> QED
  BY <1>1, <1>2 DEF Begins, Reported, ReportFields

\* What the runner does leaves the promise alone.
LEMMA RunnerKeeps ==
  ASSUME ArmingInv, UNCHANGED <<armScreenVars, humanVars, status, arming>>, Reported(runReport'), Reported(paused'),
         running' \in BOOLEAN, stopEvent' \in BOOLEAN, stopEvent' => running', standing' \in {"none", "pause", "stop"}
  PROVE  ArmingInv'
<1>1. ArmTypeOK'
  BY DEF ArmingInv, ArmInv, ArmTypeOK, armScreenVars, Reported
<1>2. PromiseInv'
  BY DEF ArmingInv, PromiseInv, humanVars
<1>3. ArmedIsPromised'
  BY DEF ArmingInv, ArmInv, ArmedIsPromised, humanVars
<1> QED
  BY <1>1, <1>2, <1>3 DEF ArmingInv, ArmInv

\* What happens before the start leaves the runner alone.
LEMMA PromiseKeeps ==
  ASSUME ArmingInv, UNCHANGED <<runnerVars, paused>>, PromiseInv', ArmedIsPromised',
         class' \in ScreenClasses, facts' \in [Facts -> {"yes", "no", "unknown"}], ruleStore' \in Libraries, status'.read \in BOOLEAN
  PROVE  ArmingInv'
<1>1. ArmTypeOK'
  BY DEF ArmingInv, ArmInv, ArmTypeOK, runnerVars
<1> QED
  BY <1>1 DEF ArmingInv, ArmInv

\* Every decision, press and runner step keeps the arming honest.
LEMMA ArmingKept == ArmingInv /\ [ArmNext]_armVars => ArmingInv'
<1> SUFFICES ASSUME ArmingInv, [ArmNext]_armVars PROVE ArmingInv'
  OBVIOUS
<1> USE ArmingAssumption
<1>a. ArmTypeOK /\ ArmedIsPromised /\ PromiseInv
  BY DEF ArmingInv, ArmInv
<1>b. running \in BOOLEAN /\ stopEvent \in BOOLEAN /\ (stopEvent => running) /\ standing \in {"none", "pause", "stop"}
  BY <1>a DEF ArmTypeOK
<1>c. class \in ScreenClasses /\ facts \in [Facts -> {"yes", "no", "unknown"}] /\ ruleStore \in Libraries /\ status.read \in BOOLEAN
  BY <1>a DEF ArmTypeOK
<1>d. Reported(runReport) /\ Reported(paused)
  BY <1>a DEF PromiseInv
<1>1. CASE Changes
  <2>1. UNCHANGED <<humanVars, status, arming, runnerVars, paused>>
    BY <1>1 DEF Changes
  <2>2. class' \in ScreenClasses /\ facts' \in [Facts -> {"yes", "no", "unknown"}] /\ ruleStore' \in Libraries
    BY <1>1, <1>c DEF Changes
  <2>3. PromiseInv' /\ ArmedIsPromised'
    BY <1>a, <2>1 DEF PromiseInv, ArmedIsPromised, humanVars, runnerVars
  <2> QED
    BY <1>c, <2>1, <2>2, <2>3, PromiseKeeps
<1>2. CASE Proposes
  <2>1. promised = NoProposal /\ UNCHANGED <<class, facts, ruleStore, promised, status, arming, runnerVars, paused>>
    BY <1>2 DEF Proposes, armScreenVars
  <2>2. PromiseInv' /\ ArmedIsPromised'
    BY <1>a, <2>1 DEF PromiseInv, ArmedIsPromised, runnerVars
  <2> QED
    BY <1>c, <2>1, <2>2, PromiseKeeps
<1>3. CASE Agrees
  <2>1. proposal # NoProposal /\ proposal' = NoProposal
        /\ UNCHANGED <<class, facts, ruleStore, status, arming, runnerVars, paused>>
    BY <1>3 DEF Agrees, armScreenVars
  <2>2. ~status.read /\ arming = NotArmed
    BY <1>a, <2>1 DEF PromiseInv
  <2>3. PromiseInv' /\ ArmedIsPromised'
    BY <1>a, <2>1, <2>2 DEF PromiseInv, ArmedIsPromised, runnerVars
  <2> QED
    BY <1>c, <2>1, <2>3, PromiseKeeps
<1>4. CASE ReadsStatus
  <2>1. promised # NoProposal /\ ~status.read /\ status' = [read |-> TRUE, class |-> class, facts |-> facts]
        /\ UNCHANGED <<class, facts, ruleStore, proposal, promised, arming, runnerVars, paused>>
    BY <1>4 DEF ReadsStatus, armScreenVars, humanVars
  <2>2. arming = NotArmed /\ status'.read
    BY <1>a, <2>1 DEF PromiseInv
  <2>3. PromiseInv' /\ ArmedIsPromised'
    BY <1>a, <2>1, <2>2 DEF PromiseInv, ArmedIsPromised, runnerVars
  <2> QED
    BY <1>c, <2>1, <2>2, <2>3, PromiseKeeps
<1>5. CASE Derives
  <2> DEFINE fresh == Select(ruleStore, status.class, status.facts)
  <2>1. status.read /\ arming = NotArmed /\ UNCHANGED <<class, facts, ruleStore, proposal, runnerVars, paused>>
    BY <1>5 DEF Derives, armScreenVars
  <2>2. CASE NotDrifted(fresh)
    <3>1. arming' = [macro |-> fresh.macro, cycles |-> IF fresh.scope = "repeating" THEN PassCeiling ELSE 1]
          /\ UNCHANGED <<promised, status>>
      BY <1>5, <2>2 DEF Derives
    <3>2. fresh # NoProposal /\ fresh.macro = promised.macro /\ fresh.class = promised.class
      BY <2>2 DEF NotDrifted, Identity
    <3>3. fresh.class = status.class
      BY <1>c, <3>2, Selected
    <3> HIDE DEF fresh
    <3>4. arming'.macro = fresh.macro /\ arming'.cycles \in 1..PassCeiling
      BY <3>1
    <3>5. PromiseInv'
      BY <1>a, <2>1, <3>1, <3>4 DEF PromiseInv, runnerVars
    <3>6. ArmedIsPromised'
      BY <3>1, <3>2, <3>3, <3>4 DEF ArmedIsPromised
    <3> QED
      BY <1>c, <2>1, <3>1, <3>5, <3>6, PromiseKeeps
  <2>3. CASE ~NotDrifted(fresh)
    <3>1. promised' = NoProposal /\ status' = NoStatus /\ UNCHANGED arming
      BY <1>5, <2>3 DEF Derives
    <3>2. status'.read = FALSE /\ arming' = NotArmed
      BY <2>1, <3>1 DEF NoStatus
    <3>3. PromiseInv' /\ ArmedIsPromised'
      BY <1>a, <2>1, <3>1, <3>2 DEF PromiseInv, ArmedIsPromised, runnerVars
    <3> QED
      BY <1>c, <2>1, <3>2, <3>3, PromiseKeeps
  <2> QED
    BY <2>2, <2>3
<1>6. CASE ArmStarts
  <2>1. arming' = NotArmed /\ promised' = NoProposal /\ status' = NoStatus /\ UNCHANGED <<class, facts, ruleStore, proposal, paused>>
    BY <1>6 DEF ArmStarts, armScreenVars
  <2>2. Reported(runReport') /\ running' \in BOOLEAN /\ stopEvent' \in BOOLEAN /\ (stopEvent' => running')
        /\ standing' \in {"none", "pause", "stop"}
    <3>1. CASE Begins(arming.macro, 0, 0, arming.cycles)
      <4>1. arming.cycles \in Nat \ {0}
        BY <1>a DEF PromiseInv
      <4> QED
        BY <3>1, <4>1, BeginsReport
    <3>2. CASE UNCHANGED runnerVars
      BY <1>b, <1>d, <3>2 DEF runnerVars
    <3> QED
      BY <1>6, <3>1, <3>2 DEF ArmStarts
  <2>3. ArmTypeOK'
    BY <1>c, <2>1, <2>2 DEF ArmTypeOK, Reported, NoStatus
  <2>4. PromiseInv' /\ ArmedIsPromised'
    BY <1>a, <2>1, <2>2 DEF PromiseInv, ArmedIsPromised, NoStatus, NotArmed
  <2> QED
    BY <2>3, <2>4 DEF ArmingInv, ArmInv
<1>7. CASE StartsByHand
  <2>1. PICK m \in {r.macro : r \in UNION {l.rules : l \in Libraries}}, rails \in Rails, c \in Asked :
          Begins(m, rails.floor, rails.target, c)
    BY <1>7 DEF StartsByHand
  <2>2. c \in Nat \ {0} /\ UNCHANGED <<armScreenVars, humanVars, status, arming, paused>>
    BY <1>7 DEF StartsByHand
  <2>3. Reported(runReport') /\ running' = TRUE /\ stopEvent' = FALSE /\ standing' = "none"
    BY <2>1, <2>2, BeginsReport
  <2> QED
    BY <1>d, <2>2, <2>3, RunnerKeeps
<1>8. CASE PassEnds
  <2>1. running /\ stopEvent' = (stopEvent /\ running') /\ UNCHANGED <<armScreenVars, humanVars, status, arming, standing, paused>>
    BY <1>8 DEF PassEnds
  <2>2. CASE runReport.pass < runReport.cycles /\ runReport' = [runReport EXCEPT !.pass = @ + 1] /\ UNCHANGED running
    <3> DEFINE n == runReport.pass + 1
    <3>1. n \in 0..runReport.cycles /\ DOMAIN runReport = ReportFields
      BY <1>d, <2>2 DEF Reported
    <3>2. runReport' = [runReport EXCEPT !.pass = n]
      BY <2>2
    <3> HIDE DEF n
    <3>3. DOMAIN runReport' = ReportFields /\ runReport'.pass = n /\ runReport'.cycles = runReport.cycles
          /\ runReport' = [f \in DOMAIN runReport' |-> runReport'[f]]
      BY <3>1, <3>2 DEF ReportFields
    <3>4. Reported(runReport')
      BY <1>d, <3>1, <3>3 DEF Reported
    <3> QED
      BY <1>b, <1>d, <2>1, <2>2, <3>4, RunnerKeeps
  <2>3. CASE running' = FALSE /\ UNCHANGED runReport
    BY <1>b, <1>d, <2>1, <2>3, RunnerKeeps
  <2> QED
    BY <1>8, <2>2, <2>3 DEF PassEnds
<1>9. ASSUME NEW intent \in {"pause", "stop"}, IsStoodDown(intent) PROVE ArmingInv'
  <2>1. standing' = intent /\ stopEvent' = running /\ UNCHANGED <<armScreenVars, humanVars, status, arming, running, runReport, paused>>
    BY <1>9 DEF IsStoodDown
  <2> QED
    BY <1>b, <1>d, <2>1, RunnerKeeps
<1>10. CASE ReadsPaused
  BY <1>10, <1>b, <1>d, RunnerKeeps DEF ReadsPaused, runnerVars
<1>11. CASE Relaunches
  <2>1. paused' = NoArmReport /\ UNCHANGED <<armScreenVars, humanVars, status, arming>>
    BY <1>11 DEF Relaunches
  <2>2. CASE Begins(paused.macro, paused.floor, 0, paused.cycles)
    <3>1. paused.cycles \in Nat \ {0}
      BY <1>d DEF Reported
    <3> QED
      BY <2>1, <2>2, <3>1, BeginsReport, RunnerKeeps, EmptyReport
  <2>3. CASE UNCHANGED runnerVars
    BY <1>b, <1>d, <2>1, <2>3, RunnerKeeps, EmptyReport DEF runnerVars
  <2> QED
    BY <1>11, <2>2, <2>3 DEF Relaunches
<1>12. CASE UNCHANGED armVars
  BY <1>12, <1>b, <1>d, RunnerKeeps DEF armVars, runnerVars
<1> QED
  BY <1>1, <1>2, <1>3, <1>4, <1>5, <1>6, <1>7, <1>8, <1>9, <1>10, <1>11, <1>12 DEF ArmNext

\* What is armed is the macro the human said yes to, on the screen it was said
\* of (ArmInv), whatever rules are approved or withdrawn in between.
THEOREM ArmsWhatWasPromised == ArmSpec => []ArmInv
<1>1. ArmingInv => ArmInv
  BY DEF ArmingInv
<1> QED
  BY <1>1, ArmingBegins, ArmingKept, PTL DEF ArmSpec

\* No rule is armed over another that says stop or is at least as urgent
\* (NoRuleOverridden, which NothingUnapproved checks), in any rule store.
THEOREM StopsWin == ArmSpec => [][NoRuleOverridden]_armVars
<1>1. ArmingInv /\ [ArmNext]_armVars => [NoRuleOverridden]_armVars
  <2> SUFFICES ASSUME ArmingInv, ArmNext, arming = NotArmed, arming' # NotArmed PROVE NoRuleOverridden
    BY DEF NoRuleOverridden, armVars
  <2> DEFINE fresh == Select(ruleStore, status.class, status.facts)
  <2>1. Derives
    BY DEF ArmNext, Changes, Proposes, Agrees, ReadsStatus, ArmStarts, StartsByHand, PassEnds, IsStoodDown, ReadsPaused, Relaunches
  <2>2. NotDrifted(fresh)
    BY <2>1 DEF Derives
  <2>3. fresh # NoProposal /\ fresh.rule = promised.rule
    BY <2>2 DEF NotDrifted, Identity
  <2>4. ruleStore \in Libraries
    BY DEF ArmingInv, ArmInv, ArmTypeOK
  <2>5. PICK r \in ruleStore.rules :
           /\ fresh = [macro |-> r.macro, rule |-> r.id, class |-> status.class, scope |-> r.scope]
           /\ r.approved /\ r.match = status.class /\ Eligible(r, status.facts)
           /\ \A o \in ruleStore.rules : o.approved /\ o.match = status.class =>
                /\ ~Stops(o, status.facts)
                /\ o = r \/ o.priority < r.priority \/ ~Eligible(o, status.facts)
    <3>1. Select(ruleStore, status.class, status.facts) # NoProposal
      BY <2>3
    <3> QED BY ONLY <2>4, <3>1, Selected
  <2>6. r.id = promised.rule
    BY <2>3, <2>5
  <2> HIDE DEF fresh
  <2> QED
    BY <2>5, <2>6 DEF NoRuleOverridden, Stops, Eligible, GuardHolds
<1> QED
  BY <1>1, ArmingBegins, ArmingKept, PTL DEF ArmSpec

-----------------------------------------------------------------------------
(* The play shell *)

Runners4 == {"explore", "trade", "loop", "hold"}
SeatTypes ==
  /\ shell \in {"idle", "loop"} /\ loopArm \in {"none", "discovered", "taught"}
  /\ conn \in BOOLEAN /\ analyzing \in BOOLEAN /\ attached \in BOOLEAN /\ spectating \in BOOLEAN
GateTypes ==
  /\ gates \subseteq {"arm", "genesis", "identity", "draft"} /\ dock \in BOOLEAN
  /\ pendingConfirm \in {"none", "explore", "trade", "hold", "relaunch", "reflex", "genesis"}
  /\ slots \in [Slots -> Offers \cup {NoPlan}]
DaemonTypes ==
  /\ polls \subseteq {"explore", "trade", "autoloop", "hold"} /\ runner \in Runners4 \cup {"none"}
  /\ ending \in BOOLEAN /\ unseen \in BOOLEAN /\ stopFailed \in BOOLEAN

\* A shell that is left has no connection, and an attach has one: a key that
\* is not for the game can come only from a shell without an attached human.
SeatInv == SeatTypes /\ (shell = "idle" => ~conn) /\ (attached => conn)
GateInv == GateTypes /\ ApprovedIsShown
DaemonInv == DaemonTypes /\ RunWatched
ShellInv == SeatInv /\ GateInv /\ DaemonInv /\ HumanAlone

\* The shell's type invariant is that of the seat, the gates and the daemon.
LEMMA ShellTyped == ShellTypeOK <=> SeatTypes /\ GateTypes /\ DaemonTypes
  BY DEF ShellTypeOK, SeatTypes, GateTypes, DaemonTypes, Runners4

\* The shell begins outside the cockpit, with no gate up and no run known.
LEMMA ShellBegins == ShellInit => ShellInv
<1> SUFFICES ASSUME ShellInit PROVE ShellInv
  OBVIOUS
<1>1. SeatInv
  BY DEF ShellInit, SeatInv, SeatTypes
<1>2. GateInv
  BY DEF ShellInit, GateInv, GateTypes, ApprovedIsShown, NoneHeld
<1>3. DaemonInv
  BY DEF ShellInit, DaemonInv, DaemonTypes, RunWatched
<1>4. HumanAlone
  BY DEF ShellInit, HumanAlone
<1> QED
  BY <1>1, <1>2, <1>3, <1>4 DEF ShellInv

-----------------------------------------------------------------------------
\* One key takes the arm confirm down, whatever else is up.
LEMMA NoArmLeft == Left \subseteq gates /\ "arm" \notin Left
  BY DEF Left, TopGate

\* While the arm confirm is up a key means y to it, or nothing.
LEMMA ArmTakesAll == ASSUME NEW k, Intent(k) \notin {"arm_confirm", "none"} PROVE "arm" \notin gates
  BY DEF Intent, IntentUnder, TopGate

\* Lowering gates keeps the gate invariant.
LEMMA GateLowers ==
  ASSUME GateTypes, gates' \subseteq {"arm", "genesis", "identity", "draft"}, "arm" \notin gates',
         pendingConfirm' \in {"none", "explore", "trade", "hold", "relaunch", "reflex", "genesis"},
         slots' \in [Slots -> Offers \cup {NoPlan}], dock' \in BOOLEAN
  PROVE  GateInv'
  BY DEF GateInv, GateTypes, ApprovedIsShown

\* Raising the confirm gate over an action shows the plan it will start.
LEMMA Asking ==
  ASSUME GateTypes, NEW action \in {"explore", "trade", "hold"}, NEW slot \in Slots \cup {"none"}, NEW plan \in Offers \cup {NoPlan},
         slot # "none" => action = slot, slot = "none" => plan = NoPlan /\ action \notin Slots,
         AsksConfirm(action, slot, plan), dock' = dock
  PROVE  GateInv'
<1>1. gates' \subseteq {"arm", "genesis", "identity", "draft"}
  BY NoArmLeft DEF AsksConfirm, GateTypes
<1>2. slots' \in [Slots -> Offers \cup {NoPlan}]
  BY DEF AsksConfirm
<1>3. action \in Slots => slots'[action] = plan
  BY DEF AsksConfirm, Slots
<1>4. ApprovedIsShown'
  BY <1>3 DEF AsksConfirm, ApprovedIsShown, ConfirmedStart, Slot, Slots
<1> QED
  BY <1>1, <1>2, <1>4 DEF GateInv, GateTypes, AsksConfirm

\* Keeping a plan keeps the slots well-formed.
LEMMA KeepingType ==
  ASSUME GateTypes, NEW slot \in Slots, NEW plan \in Offers \cup {NoPlan}, Keeping(slot, plan)
  PROVE  slots' \in [Slots -> Offers \cup {NoPlan}] /\ slots'[slot] = plan
<1>1. slots' = [NoneHeld EXCEPT !["trade"] = slots["trade"], ![slot] = plan] /\ slots["trade"] \in Offers \cup {NoPlan}
  BY DEF Keeping, GateTypes, Slots
<1>2. NoneHeld \in [Slots -> Offers \cup {NoPlan}]
  BY DEF NoneHeld
<1> QED
  BY <1>1, <1>2

\* Every key, poll and answer keeps the gates honest.
LEMMA GateKept == ShellInv /\ [ShellNext]_shellVars => GateInv'
<1> SUFFICES ASSUME ShellInv, [ShellNext]_shellVars PROVE GateInv'
  OBVIOUS
<1>a. GateTypes /\ ApprovedIsShown
  BY DEF ShellInv, GateInv
<1>b. /\ gates \subseteq {"arm", "genesis", "identity", "draft"} /\ dock \in BOOLEAN
      /\ pendingConfirm \in {"none", "explore", "trade", "hold", "relaunch", "reflex", "genesis"}
      /\ slots \in [Slots -> Offers \cup {NoPlan}]
  BY <1>a DEF GateTypes
<1>c. Left \subseteq {"arm", "genesis", "identity", "draft"} /\ "arm" \notin Left
  BY <1>b, NoArmLeft
<1>1. CASE \/ Enters \/ Idles \/ RunnerEnds \/ KeyToGame \/ Pauses \/ StopsLoop("trade", "trade")
           \/ StopsLoop("autoloop", "loop") \/ StartsLoop \/ Attaches \/ Browses \/ Analyzes \/ UNCHANGED shellVars
  <2>1. UNCHANGED <<gates, pendingConfirm, slots, confirmText, dock>>
    BY <1>1 DEF Enters, Idles, RunnerEnds, KeyToGame, Pauses, StopsLoop, StartsLoop, Attaches, Browses, Analyzes, shellVars, gateVars
  <2> QED
    BY <1>a, <2>1 DEF GateInv, GateTypes, ApprovedIsShown, ConfirmedStart, Slot
<1>2. CASE Drops
  BY <1>a, <1>b, <1>c, <1>2, GateLowers DEF Drops, Lowers, Still
<1>3. CASE Leaves
  BY <1>a, <1>3, GateLowers DEF Leaves, NoneHeld
<1>4. ASSUME NEW k, Drafts(k) PROVE GateInv'
  <2>1. "arm" \notin gates
    BY <1>4, ArmTakesAll DEF Drafts, Handles
  <2> QED
    BY <1>a, <1>b, <1>4, <2>1, GateLowers DEF Drafts
<1>5. ASSUME NEW k, DraftDecided(k) PROVE GateInv'
  <2>1. "arm" \notin gates
    BY <1>5, ArmTakesAll DEF DraftDecided, Handles
  <2> QED
    BY <1>a, <1>b, <1>5, <2>1, GateLowers DEF DraftDecided
<1>6. CASE OffersAutonomy \/ OffersHold
  <2>1. dock' = dock
    BY <1>6 DEF OffersAutonomy, OffersHold, Still
  <2>2. CASE Lowers /\ UNCHANGED <<pendingConfirm, slots>>
    BY <1>a, <1>b, <1>c, <2>1, <2>2, GateLowers DEF Lowers
  <2>3. CASE AsksConfirm("explore", "none", NoPlan)
    BY <1>a, <2>1, <2>3, Asking DEF Slots
  <2>4. ASSUME NEW p \in Offers, AsksConfirm("trade", "trade", p) \/ AsksConfirm("hold", "hold", p) PROVE GateInv'
    BY <1>a, <2>1, <2>4, Asking DEF Slots
  <2> QED
    BY <1>6, <2>2, <2>3, <2>4 DEF OffersAutonomy, OffersHold
<1>7. CASE OffersRelaunch
  <2>1. gates' = Left \cup {"arm"} /\ pendingConfirm' = "relaunch" /\ Keeping("hold", NoPlan) /\ dock' = dock
        /\ confirmText' = [kind |-> "relaunch", plan |-> NoPlan, dock |-> dock]
    BY <1>7 DEF OffersRelaunch, Still
  <2>2. slots' \in [Slots -> Offers \cup {NoPlan}]
    BY <1>a, <2>1, KeepingType DEF Slots
  <2> QED
    BY <1>b, <1>c, <2>1, <2>2 DEF GateInv, GateTypes, ApprovedIsShown, ConfirmedStart, Slot, Slots
<1>8. CASE OffersReflex
  <2>1. dock' = dock /\ "arm" \notin gates
    BY <1>8, ArmTakesAll DEF OffersReflex, Still, Handles
  <2>2. CASE Keeping("hold", NoPlan) /\ UNCHANGED <<gates, pendingConfirm, confirmText>>
    <3>1. slots' \in [Slots -> Offers \cup {NoPlan}]
      BY <1>a, <2>2, KeepingType DEF Slots
    <3> QED
      BY <1>a, <1>b, <2>1, <2>2, <3>1, GateLowers
  <2>3. ASSUME NEW p \in Offers, gates' = Left \cup {"arm"}, pendingConfirm' = "reflex", Keeping("reflex", p),
               confirmText' = [kind |-> "reflex", plan |-> p, dock |-> dock]
        PROVE  GateInv'
    <3>1. slots' \in [Slots -> Offers \cup {NoPlan}] /\ slots'["reflex"] = p
      BY <1>a, <2>3, KeepingType DEF Slots
    <3> QED
      BY <1>b, <1>c, <2>1, <2>3, <3>1 DEF GateInv, GateTypes, ApprovedIsShown, ConfirmedStart, Slot, Slots
  <2> QED
    BY <1>8, <2>2, <2>3 DEF OffersReflex
<1>9. CASE OffersGenesis
  <2>1. gates' = Left \cup {"genesis"} /\ pendingConfirm' = "genesis" /\ Keeping("hold", NoPlan) /\ dock' = dock
    BY <1>9 DEF OffersGenesis, Still
  <2>2. slots' \in [Slots -> Offers \cup {NoPlan}]
    BY <1>a, <2>1, KeepingType DEF Slots
  <2> QED
    BY <1>a, <1>b, <1>c, <2>1, <2>2, GateLowers
<1>10. CASE RefusesGenesis
  BY <1>a, <1>b, <1>c, <1>10, GateLowers DEF RefusesGenesis, Lowers, Still
<1>11. CASE TogglesDock
  BY <1>a, <1>b, <1>c, <1>11, GateLowers DEF TogglesDock, Lowers
<1>12. CASE StartsExplore
  BY <1>a, <1>b, <1>c, <1>12, GateLowers DEF StartsExplore, Lowers
<1>13. CASE ArmConfirmed
  <2>1. gates' = Left /\ pendingConfirm' = "none" /\ dock' = dock
    BY <1>13 DEF ArmConfirmed, Lowers
  <2>2. slots' = NoneHeld \/ slots' = [slots EXCEPT !["hold"] = NoPlan]
        \/ slots' = [slots EXCEPT !["hold"] = NoPlan, !["reflex"] = NoPlan]
    BY <1>13 DEF ArmConfirmed
  <2>3. slots' \in [Slots -> Offers \cup {NoPlan}]
    BY <1>b, <2>2 DEF NoneHeld
  <2> QED
    BY <1>a, <1>c, <1>b, <2>1, <2>3, GateLowers
<1> QED
  BY <1>1, <1>2, <1>3, <1>4, <1>5, <1>6, <1>7, <1>8, <1>9, <1>10, <1>11, <1>12, <1>13 DEF ShellNext

-----------------------------------------------------------------------------
\* A granted start is of the kind that was asked for, and known unless its
\* answer was lost.
LEMMA Starting ==
  ASSUME DaemonInv, NEW kind \in Runners4, NEW ok \in BOOLEAN, StartCall(kind, ok),
         polls' \subseteq {"explore", "trade", "autoloop", "hold"},
         ok => Flag(kind) \in polls', ~ok => polls \subseteq polls' \/ runner = "none" \/ Flag(runner) \in polls'
  PROVE  DaemonInv'
  BY DEF DaemonInv, DaemonTypes, RunWatched, StartCall

\* The explore policy keeps every run watched.
LEMMA Exploring ==
  ASSUME DaemonInv, NEW ok \in BOOLEAN, PolicyExplore(ok)
  PROVE  DaemonInv'
<1>1. CASE ok /\ StartCall("explore", TRUE) /\ polls' = polls \cup {"explore"}
  BY <1>1, Starting DEF Flag, Runners4, DaemonInv, DaemonTypes
<1>2. CASE /\ ~ok /\ polls' = polls \ {"explore"} /\ runner # "explore" /\ StartCall("explore", FALSE)
  <2>1. runner = "none" \/ Flag(runner) \in polls' \/ ending \/ unseen
    BY <1>2 DEF DaemonInv, RunWatched, Flag
  <2>2. stopFailed' = stopFailed /\ polls' \subseteq polls
    BY <1>2 DEF StartCall
  <2>3. CASE UNCHANGED <<runner, ending, unseen>>
    BY <2>1, <2>2, <2>3 DEF DaemonInv, DaemonTypes, RunWatched
  <2>4. CASE runner' = "explore" /\ ending' = FALSE /\ unseen' = TRUE
    BY <2>2, <2>4 DEF DaemonInv, DaemonTypes, RunWatched, Runners4
  <2> QED
    BY <1>2, <2>3, <2>4 DEF StartCall
<1>3. CASE polls' = polls \ {"explore"} /\ unseen' = TRUE /\ UNCHANGED <<runner, ending, stopFailed>>
  BY <1>3 DEF DaemonInv, DaemonTypes, RunWatched
<1> QED
  BY <1>1, <1>2, <1>3 DEF PolicyExplore

\* A run of these kinds was asked to stop, or the shell does not know.
LEMMA Stopping ==
  ASSUME DaemonInv, NEW kinds, NEW ok \in BOOLEAN, StopCall(kinds, ok), unseen' \in BOOLEAN, stopFailed' \in BOOLEAN,
         polls' \subseteq {"explore", "trade", "autoloop", "hold"},
         unseen => unseen', ~ok /\ runner \in kinds => unseen' \/ Flag(runner) \in polls',
         runner # "none" /\ runner \notin kinds /\ Flag(runner) \in polls => Flag(runner) \in polls'
  PROVE  DaemonInv'
  BY DEF DaemonInv, DaemonTypes, RunWatched, StopCall

\* Every key, poll and answer keeps every run watched.
LEMMA DaemonKept == ShellInv /\ [ShellNext]_shellVars => DaemonInv'
<1> SUFFICES ASSUME ShellInv, [ShellNext]_shellVars PROVE DaemonInv'
  OBVIOUS
<1>a. DaemonInv /\ DaemonTypes /\ RunWatched
  BY DEF ShellInv, DaemonInv
<1>b. polls \subseteq {"explore", "trade", "autoloop", "hold"} /\ runner \in Runners4 \cup {"none"}
      /\ ending \in BOOLEAN /\ unseen \in BOOLEAN /\ stopFailed \in BOOLEAN
  BY <1>a DEF DaemonTypes
<1>1. CASE \/ Drops \/ OffersAutonomy \/ OffersHold \/ OffersRelaunch \/ OffersReflex \/ OffersGenesis
           \/ RefusesGenesis \/ TogglesDock \/ Browses \/ Analyzes \/ UNCHANGED shellVars
           \/ (\E k \in {"esc", "a"} : Drafts(k)) \/ (\E k \in {"y", "enter", "esc", "n"} : DraftDecided(k))
  <2>1. UNCHANGED <<polls, runner, ending, unseen, stopFailed>>
    BY <1>1 DEF Drops, OffersAutonomy, OffersHold, OffersRelaunch, OffersReflex, OffersGenesis, RefusesGenesis, TogglesDock,
       Browses, Analyzes, Drafts, DraftDecided, Still, shellVars, daemonVars
  <2> QED
    BY <1>a, <2>1 DEF DaemonInv, DaemonTypes, RunWatched
<1>2. CASE Enters
  BY <1>a, <1>2, Exploring DEF Enters, daemonVars, DaemonInv, DaemonTypes, RunWatched
<1>3. CASE Idles
  <2>1. ASSUME NEW lamp \in {"explore", "trade", "autoloop", "hold"}, NEW others, TickPolls(lamp, others) PROVE DaemonInv'
    <3>2. CASE polls' = (IF Flag(runner) = lamp THEN polls ELSE polls \ {lamp}) /\ UNCHANGED unseen
      <4>1. Flag(runner) \in polls => Flag(runner) \in polls'
        BY <3>2
      <4> QED
        BY <1>a, <2>1, <3>2, <4>1 DEF TickPolls, DaemonInv, DaemonTypes, RunWatched
    <3>3. CASE polls' = polls \ {lamp} /\ unseen' = (unseen \/ Flag(runner) = lamp)
      <4>1. Flag(runner) \in polls => Flag(runner) \in polls' \/ unseen'
        BY <3>3
      <4>2. unseen' \in BOOLEAN /\ (unseen => unseen') /\ polls' \subseteq polls
        BY <1>b, <3>3
      <4> QED
        BY <1>a, <2>1, <4>1, <4>2 DEF TickPolls, DaemonInv, DaemonTypes, RunWatched
    <3> QED
      BY <2>1, <3>2, <3>3 DEF TickPolls
  <2>2. CASE AutoFires
    <3>1. PICK ok \in BOOLEAN : StartCall("hold", ok) /\ polls' = IF ok THEN {"hold"} ELSE {}
      BY <2>2 DEF AutoFires
    <3>2. polls = {}
      BY <2>2 DEF AutoFires
    <3> QED
      BY <1>a, <3>1, <3>2, Starting DEF Flag, Runners4
  <2> QED
    BY <1>3, <2>1, <2>2 DEF Idles
<1>4. CASE RunnerEnds
  BY <1>a, <1>4 DEF RunnerEnds, DaemonInv, DaemonTypes, RunWatched
<1>5. CASE KeyToGame
  BY <1>a, <1>5 DEF KeyToGame, DaemonInv, DaemonTypes, RunWatched
<1>6. CASE Leaves
  BY <1>a, <1>6 DEF Leaves, DaemonInv, DaemonTypes, RunWatched
<1>7. CASE StartsExplore
  BY <1>a, <1>7, Exploring DEF StartsExplore
<1>8. CASE ArmConfirmed
  <2>1. CASE UNCHANGED <<polls, daemonVars>>
    BY <1>a, <2>1 DEF daemonVars, DaemonInv, DaemonTypes, RunWatched
  <2>2. CASE ~UNCHANGED <<polls, daemonVars>>
    <3>1. PICK ok \in BOOLEAN : StartCall(Runs(pendingConfirm), ok)
                /\ polls' = IF ok THEN polls \cup {Flag(Runs(pendingConfirm))} ELSE polls
      BY <1>8, <2>2 DEF ArmConfirmed
    <3>2. Runs(pendingConfirm) \in Runners4 /\ Flag(Runs(pendingConfirm)) \in {"explore", "trade", "autoloop", "hold"}
      BY <1>8 DEF ArmConfirmed, Runs, Flag, Runners4
    <3> QED
      BY <1>a, <1>b, <3>1, <3>2, Starting
  <2> QED
    BY <2>1, <2>2
<1>9. CASE Pauses
  <2>1. PICK ok \in BOOLEAN : StopCall({"loop"}, ok) /\ polls' = IF ok THEN polls \ {"autoloop"} ELSE polls
    BY <1>9 DEF Pauses
  <2>2. UNCHANGED <<unseen, stopFailed>>
    BY <1>9 DEF Pauses
  <2> QED
    BY <1>a, <2>1, <2>2 DEF DaemonInv, DaemonTypes, RunWatched, StopCall, Flag, Runners4
<1>10. CASE StopsLoop("trade", "trade") \/ StopsLoop("autoloop", "loop")
  <2>1. PICK lamp \in {"trade", "autoloop"}, kind \in {"trade", "loop"} : Flag(kind) = lamp /\ StopsLoop(lamp, kind)
    BY <1>10 DEF Flag
  <2>2. PICK ok \in BOOLEAN : StopCall({kind}, ok) /\ unseen' = (unseen \/ (~ok /\ runner = kind))
    BY <2>1 DEF StopsLoop
  <2>3. polls' = polls \ {lamp} /\ UNCHANGED stopFailed
    BY <2>1 DEF StopsLoop
  <2> QED
    BY <1>a, <2>1, <2>2, <2>3 DEF DaemonInv, DaemonTypes, RunWatched, StopCall, Flag, Runners4
<1>11. CASE StartsLoop
  <2>1. CASE UNCHANGED <<polls, daemonVars>>
    BY <1>a, <2>1 DEF daemonVars, DaemonInv, DaemonTypes, RunWatched
  <2>2. CASE ~UNCHANGED <<polls, daemonVars>>
    <3> DEFINE kind == IF loopArm = "discovered" THEN "trade" ELSE "loop"
    <3>1. PICK ok \in BOOLEAN :
             IF runner = "none"
                THEN /\ StartCall(kind, ok)
                     /\ polls' = (polls \ {"explore"}) \cup (IF ok THEN {Flag(kind)} ELSE {})
                ELSE /\ StopCall({"explore"}, ok) /\ UNCHANGED stopFailed
                     /\ unseen' = (unseen \/ (~ok /\ runner = "explore"))
                     /\ polls' = polls \ {"explore"}
      BY <1>11, <2>2 DEF StartsLoop
    <3>2. kind \in Runners4 /\ Flag(kind) \in {"trade", "autoloop"}
      BY DEF Flag, Runners4
    <3> HIDE DEF kind
    <3>3. CASE runner = "none"
      BY <1>a, <1>b, <3>1, <3>2, <3>3, Starting
    <3>4. CASE runner # "none"
      BY <1>a, <3>1, <3>4 DEF DaemonInv, DaemonTypes, RunWatched, StopCall, Flag, Runners4
    <3> QED
      BY <3>3, <3>4
  <2> QED
    BY <2>1, <2>2
<1>12. CASE Attaches
  <2>1. PICK ok \in BOOLEAN : /\ StopCall({"explore", "trade", "loop", "hold"}, ok)
                              /\ stopFailed' = (~ok /\ conn') /\ unseen' = (unseen \/ (~ok /\ runner # "none"))
    BY <1>12 DEF Attaches
  <2>2. polls' = {} /\ conn' \in BOOLEAN
    BY <1>12 DEF Attaches, ShellInv, SeatInv, SeatTypes, seatVars
  <2> QED
    BY <1>a, <2>1, <2>2 DEF DaemonInv, DaemonTypes, RunWatched, StopCall, Runners4
<1> QED
  BY <1>1, <1>2, <1>3, <1>4, <1>5, <1>6, <1>7, <1>8, <1>9, <1>10, <1>11, <1>12 DEF ShellNext

-----------------------------------------------------------------------------
\* Every key, poll and answer keeps the seat well-formed.
LEMMA SeatKept == ShellInv /\ [ShellNext]_shellVars => SeatInv'
<1> SUFFICES ASSUME ShellInv, [ShellNext]_shellVars PROVE SeatInv'
  OBVIOUS
<1>a. SeatInv
  BY DEF ShellInv
<1> USE DEF SeatInv, SeatTypes
<1>1. CASE \/ Drops \/ OffersAutonomy \/ OffersHold \/ OffersRelaunch \/ OffersReflex \/ OffersGenesis
           \/ RefusesGenesis \/ TogglesDock \/ UNCHANGED shellVars \/ Idles \/ RunnerEnds \/ StartsExplore \/ ArmConfirmed
           \/ Pauses \/ StopsLoop("trade", "trade") \/ StopsLoop("autoloop", "loop") \/ StartsLoop
           \/ (\E k \in {"y", "enter", "esc", "n"} : DraftDecided(k))
  <2>1. UNCHANGED <<shell, conn, attached, spectating, analyzing, loopArm>>
    BY ONLY <1>1 DEF Drops, OffersAutonomy, OffersHold, OffersRelaunch, OffersReflex, OffersGenesis, RefusesGenesis, TogglesDock,
       Idles, RunnerEnds, StartsExplore, ArmConfirmed, Pauses, StopsLoop, StartsLoop,
       DraftDecided, Still, shellVars, seatVars
  <2> QED
    BY <1>a, <2>1
<1>2. CASE Enters
  BY <1>a, <1>2 DEF Enters, seatVars
<1>3. CASE KeyToGame
  BY <1>a, <1>3 DEF KeyToGame, seatVars
<1>4. CASE Leaves
  BY <1>a, <1>4 DEF Leaves
<1>5. CASE Attaches
  <2>1. shell = "loop" /\ UNCHANGED <<shell, analyzing, loopArm>>
    BY <1>5 DEF Attaches, Handles
  <2>2. (conn' = TRUE /\ attached' = TRUE /\ spectating' = FALSE) \/ UNCHANGED <<conn, attached, spectating>>
    BY <1>5 DEF Attaches, seatVars
  <2>3. CASE conn' = TRUE /\ attached' = TRUE /\ spectating' = FALSE
    BY ONLY <1>a, <2>1, <2>3
  <2>4. CASE UNCHANGED <<conn, attached, spectating>>
    BY ONLY <1>a, <2>1, <2>4
  <2> QED
    BY <2>2, <2>3, <2>4
<1>6. CASE Browses \/ Analyzes \/ (\E k \in {"esc", "a"} : Drafts(k))
  <2>1. UNCHANGED <<shell, conn, attached, spectating>> /\ (analyzing' = analyzing \/ analyzing' = TRUE \/ analyzing' = FALSE)
    BY ONLY <1>6 DEF Browses, Analyzes, Drafts, seatVars
  <2>2. loopArm' = loopArm \/ loopArm' \in Armable
    BY ONLY <1>6 DEF Browses, Analyzes, Drafts
  <2>3. loopArm' \in {"none", "discovered", "taught"}
    BY <1>a, <2>2, ShellAssumption
  <2>4. analyzing' \in BOOLEAN
    BY <1>a, <2>1
  <2>5. UNCHANGED <<shell, conn, attached, spectating>>
    BY <2>1
  <2> QED
    BY ONLY <1>a, <2>3, <2>4, <2>5
<1> QED
  BY <1>1, <1>2, <1>3, <1>4, <1>5, <1>6 DEF ShellNext

\* No key but esc gets past an attached human, and esc starts nothing.
LEMMA HandsOff == ShellInv /\ [ShellNext]_shellVars => HandsOffWhileAttached
<1> SUFFICES ASSUME ShellInv, ShellNext, runner' # runner, runner' # "none" PROVE ~conn /\ ~attached
  BY DEF HandsOffWhileAttached, shellVars, daemonVars
<1>1. SUFFICES ~conn
  BY DEF ShellInv, SeatInv
<1>2. CASE Enters
  BY <1>2 DEF Enters, ShellInv, SeatInv
<1>3. CASE Idles
  BY <1>3 DEF Idles, TickPolls, AutoFires
<1>4. CASE StartsExplore \/ ArmConfirmed \/ StartsLoop
  BY <1>4 DEF StartsExplore, ArmConfirmed, StartsLoop, Handles
<1> QED
  BY <1>2, <1>3, <1>4 DEF ShellNext, Drops, OffersAutonomy, OffersHold, OffersRelaunch, OffersReflex, OffersGenesis, RefusesGenesis,
     TogglesDock, Browses, Analyzes, Drafts, DraftDecided, Still, daemonVars, RunnerEnds, KeyToGame, Leaves, Pauses, StopsLoop,
     StopCall, Attaches

\* Every key, poll and answer leaves a human alone at the game.
LEMMA AloneKept == ShellInv /\ [ShellNext]_shellVars => HumanAlone'
<1> SUFFICES ASSUME ShellInv, [ShellNext]_shellVars, attached' PROVE runner' = "none" \/ ending' \/ stopFailed'
  BY DEF HumanAlone
<1>a. HumanAlone /\ SeatInv /\ runner \in Runners4 \cup {"none"}
  BY DEF ShellInv, DaemonInv, DaemonTypes
<1>1. CASE Attaches
  <2>1. PICK ok \in BOOLEAN : StopCall({"explore", "trade", "loop", "hold"}, ok) /\ stopFailed' = (~ok /\ conn')
    BY <1>1 DEF Attaches
  <2>2. ~attached /\ ~conn
    BY <1>a, <1>1 DEF Attaches, SeatInv
  <2>3. conn' = TRUE
    BY <1>1, <2>2 DEF Attaches, seatVars
  <2> QED
    BY <1>a, <2>1, <2>3 DEF StopCall, Runners4
<1>2. CASE KeyToGame
  <2>1. UNCHANGED <<attached, conn, runner, ending>> /\ stopFailed' = (stopFailed /\ conn')
    BY <1>2 DEF KeyToGame, seatVars
  <2> QED
    BY <1>a, <2>1 DEF HumanAlone, SeatInv
<1>3. CASE RunnerEnds \/ Leaves
  BY <1>3 DEF RunnerEnds, Leaves
<1>4. CASE ~Attaches /\ ~KeyToGame /\ ~RunnerEnds /\ ~Leaves
  <2>1. attached' = attached
    BY <1>4 DEF ShellNext, Drops, OffersAutonomy, OffersHold, OffersRelaunch, OffersReflex, OffersGenesis, RefusesGenesis, TogglesDock,
       Idles, StartsExplore, ArmConfirmed, Pauses, StopsLoop, StartsLoop, DraftDecided, Still, shellVars, seatVars,
       Enters, Browses, Analyzes, Drafts
  <2>2. stopFailed' = stopFailed /\ (ending => ending' \/ runner' # runner)
    <3>1. ASSUME NEW kind \in Runners4, NEW ok \in BOOLEAN, StartCall(kind, ok) PROVE stopFailed' = stopFailed /\ (ending => ending' \/ runner' # runner)
      <4>1. kind # "none"
        BY DEF Runners4
      <4> QED
        BY <3>1, <4>1 DEF StartCall
    <3>2. ASSUME NEW kinds, NEW ok, StopCall(kinds, ok) PROVE ending => ending'
      BY <3>2 DEF StopCall
    <3>3. ASSUME NEW ok \in BOOLEAN, PolicyExplore(ok) PROVE stopFailed' = stopFailed /\ (ending => ending' \/ runner' # runner)
      BY <3>1, <3>3 DEF PolicyExplore, Runners4
    <3>4. CASE Enters \/ StartsExplore
      BY <3>3, <3>4 DEF Enters, StartsExplore, daemonVars
    <3>5. CASE Idles
      BY <3>1, <3>5 DEF Idles, TickPolls, AutoFires, Runners4
    <3>6. CASE ArmConfirmed
      <4>1. Runs(pendingConfirm) \in Runners4
        BY <3>6 DEF ArmConfirmed, Runs, Runners4
      <4> QED
        BY <3>1, <3>6, <4>1 DEF ArmConfirmed, daemonVars
    <3>7. CASE Pauses \/ StopsLoop("trade", "trade") \/ StopsLoop("autoloop", "loop")
      BY <3>2, <3>7 DEF Pauses, StopsLoop
    <3>8. CASE StartsLoop
      BY <3>1, <3>2, <3>8 DEF StartsLoop, daemonVars, Runners4
    <3>9. CASE \/ Drops \/ OffersAutonomy \/ OffersHold \/ OffersRelaunch \/ OffersReflex \/ OffersGenesis
               \/ RefusesGenesis \/ TogglesDock \/ Browses \/ Analyzes \/ UNCHANGED shellVars
               \/ (\E k \in {"esc", "a"} : Drafts(k)) \/ (\E k \in {"y", "enter", "esc", "n"} : DraftDecided(k))
      BY <3>9 DEF Drops, OffersAutonomy, OffersHold, OffersRelaunch, OffersReflex, OffersGenesis, RefusesGenesis, TogglesDock,
         Browses, Analyzes, Drafts, DraftDecided, Still, shellVars, daemonVars
    <3> QED
      BY <1>4, <3>4, <3>5, <3>6, <3>7, <3>8, <3>9 DEF ShellNext
  <2> QED
    BY <1>a, <2>1, <2>2, HandsOff DEF HumanAlone, HandsOffWhileAttached
<1> QED
  BY <1>1, <1>2, <1>3, <1>4

\* No run goes on that the shell neither watches nor has asked to stop, an
\* attached human is alone, and a y starts what the screen names
\* (RunsAccountedFor), with any offers.
THEOREM RunsWatched == ShellSpec => []RunsAccountedFor
<1>1. ShellInv => RunsAccountedFor
  BY ShellTyped DEF ShellInv, SeatInv, GateInv, DaemonInv, RunsAccountedFor
<1>2. ShellInv /\ [ShellNext]_shellVars => ShellInv'
  BY SeatKept, GateKept, DaemonKept, AloneKept DEF ShellInv
<1> QED
  BY <1>1, <1>2, ShellBegins, PTL DEF ShellSpec

\* Nothing is started from a shell whose human is attached
\* (HandsOffWhileAttached, which NothingUnapproved checks).
THEOREM AttachedStartsNothing == ShellSpec => [][HandsOffWhileAttached]_shellVars
<1>1. ShellInv /\ [ShellNext]_shellVars => ShellInv'
  BY SeatKept, GateKept, DaemonKept, AloneKept DEF ShellInv
<1> QED
  BY <1>1, HandsOff, ShellBegins, PTL DEF ShellSpec

-----------------------------------------------------------------------------
(* The three, composed *)

\* A part at work takes a step of its own and the others rest.
LEMMA SeatPartMoves ==
  ASSUME [PartsNext]_partVars
  PROVE  [Next]_vars /\ [ShellNext]_shellVars /\ [ArmNext]_armVars
<1>1. [Next]_vars
  BY DEF PartsNext, OthersRest, partVars
<1>2. [ShellNext]_shellVars
  BY DEF PartsNext, OthersRest, partVars
<1>3. [ArmNext]_armVars
  BY DEF PartsNext, OthersRest, partVars
<1> QED
  BY <1>1, <1>2, <1>3

\* Every behaviour of the composition is one of every part: what is proved of a
\* part by itself holds in the run that checks the three together.
THEOREM SeatPartsAreParts == PartsSpec => Spec /\ ShellSpec /\ ArmSpec
<1>1. PartsInit => Init /\ ShellInit /\ ArmInit
  BY DEF PartsInit
<1> QED
  BY <1>1, SeatPartMoves, PTL DEF PartsSpec, Spec, ShellSpec, ArmSpec

\* What the operator did not say y to is not started (NothingUnapproved):
\* nothing starts under a human, and no rule is armed over another that says
\* stop.
THEOREM NothingStartsUnapproved == PartsSpec => NothingUnapproved
<1>1. UNCHANGED shellVars => HandsOffWhileAttached
  BY DEF shellVars, daemonVars, HandsOffWhileAttached
<1>2. UNCHANGED armVars => NoRuleOverridden
  BY DEF armVars, NoRuleOverridden
<1>3. [HandsOffWhileAttached]_shellVars /\ [NoRuleOverridden]_armVars
        => [HandsOffWhileAttached /\ NoRuleOverridden]_partVars
  BY <1>1, <1>2
<1> QED
  BY <1>3, SeatPartsAreParts, AttachedStartsNothing, StopsWin, PTL DEF NothingUnapproved
================================================================================
