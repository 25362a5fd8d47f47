-------------------------- MODULE CheckpointsProofs --------------------------
(***************************************************************************)
(* What a turn has changed can be taken back, rewinds step back, and each   *)
(* restores the files: proved of Checkpoints for any set of files and       *)
(* contents, any number of groups to keep, and any number of turns and      *)
(* faults.                                                                  *)
(***************************************************************************)
EXTENDS Checkpoints, WellFoundedInduction, FiniteSetTheorems, TLAPS

\* The turn is under way; a rewind of the Textual interface interrupts it.
InTurn == pc \in {"turn", "open", "copy", "meta", "edit"} \/ back # "idle"

\* The files that the turn has dealt with: the copy of the target is on its way.
Settled == IF pc \in {"open", "copy", "meta"} THEN recorded \ {target} ELSE recorded

\* Where the process is, and what belongs to it.
Phases ==
    /\ InTurn => turn # 0
    /\ ~InTurn => ~disturbed /\ strayed = {}
    /\ pc \in {"open", "copy", "meta", "edit"} => target \in recorded
    /\ pc = "restore" => /\ Latest # NoGroup /\ groups[Latest].meta = "ok"
                         /\ todo \subseteq DOMAIN groups[Latest].entries
    /\ back # "idle" => pc = "restore" /\ disturbed
    /\ back = "edit" => target \in recorded

\* A higher number is a later turn's, and no number is above its turn.
NumbersGrow ==
    /\ \A s \in DOMAIN groups : s <= turn
    /\ \A s, t \in DOMAIN groups : s < t => past[s].turn < past[t].turn
    /\ InTurn => \A s \in DOMAIN groups :
                    IF current = NoGroup THEN s < turn /\ past[s].turn < turn ELSE s <= current

\* A file that nothing has touched in the turn is as it was.
UntouchedAsBefore ==
    InTurn => \A f \in Files \ strayed : f \notin Settled => disk[f] = began[f]

\* The group of the turn deals with the files of the turn.
GroupOfTheTurn ==
    InTurn /\ current \in DOMAIN groups =>
        LET g == groups[current]
        IN /\ DOMAIN g.entries \subseteq Settled
           /\ pc # "meta" => DOMAIN g.blobs \subseteq Settled
           /\ pc = "meta" => /\ DOMAIN g.blobs \subseteq recorded
                             /\ \/ target \in past[current].lost \cup strayed
                                \/ IF target \in DOMAIN g.blobs THEN g.blobs[target] = began[target]
                                   ELSE began[target] = Absent

\* What the group of the turn says of a file.
BackedUp(f) ==
    LET g == groups[current]
    IN /\ g.meta = "ok" /\ f \in DOMAIN g.entries
       /\ f \notin strayed => /\ g.entries[f] = (began[f] # Absent)
                              /\ began[f] # Absent => f \in DOMAIN g.blobs /\ g.blobs[f] = began[f]

CopiesAreMade ==
    InTurn /\ ~disturbed =>
        /\ current = NoGroup => Settled = {}
        /\ current # NoGroup => current \in DOMAIN groups
        /\ \A f \in Settled : BackedUp(f)
        /\ pc = "meta" /\ target \notin strayed =>
             LET g == groups[current]
             IN /\ (target \in DOMAIN g.blobs) <=> (began[target] # Absent)
                /\ began[target] # Absent => g.blobs[target] = began[target]

\* What any group says of a file, it says of the file as it was before the turn.
Tells(s, f) ==
    LET g == groups[s]
    IN \/ past[s].was[f] = Unknown \/ f \in past[s].lost
       \/ ~g.entries[f] /\ past[s].was[f] = Absent
       \/ g.entries[f] /\ (f \in DOMAIN g.blobs => g.blobs[f] = past[s].was[f])
GroupsTellThePast ==
    \A s \in DOMAIN groups : \A f \in DOMAIN groups[s].entries : f \in DOMAIN past[s].was /\ Tells(s, f)

\* The files that the restore has come to are restored.
RestoredSoFar ==
    pc = "restore" => \A f \in DOMAIN groups[Latest].entries \ todo : disk[f] = Restored(f)

IInv == /\ TypeOK /\ Phases /\ NumbersGrow /\ UntouchedAsBefore /\ GroupOfTheTurn
        /\ CopiesAreMade /\ GroupsTellThePast /\ RestoredSoFar
-----------------------------------------------------------------------------
\* A non-empty set of numbers has a least one.
LEMMA LeastNumber == ASSUME NEW S, S # {}, S \subseteq Nat PROVE \E x \in S : \A y \in S : x <= y
<1>1. IsWellFoundedOn(OpToRel(<, Nat), Nat)
  BY NatLessThanWellFounded
<1>2. PICK x \in S : \A y \in S : ~(<<y, x>> \in OpToRel(<, Nat))
  BY <1>1, WFMin
<1>3. \A y \in S : ~(y < x)
  BY <1>2, Zenon DEF OpToRel
<1> QED BY <1>3, SMT

\* One that is bounded has a greatest one, which Max returns.
LEMMA GreatestNumber ==
    ASSUME NEW S, S # {}, NEW n \in Nat, S \subseteq 0..n
    PROVE  Max(S) \in S /\ \A y \in S : y <= Max(S)
<1> DEFINE T == {n - s : s \in S}
<1>1. \A s \in S : n - s \in Nat /\ n - s \in T
  OBVIOUS
<1>2. T # {} /\ T \subseteq Nat
  BY <1>1
<1>3. PICK t \in T : \A y \in T : t <= y
  BY <1>2, LeastNumber
<1>4. PICK x \in S : t = n - x
  OBVIOUS
<1>5. \A y \in S : x >= y
  BY <1>1, <1>3, <1>4
<1> QED BY <1>5 DEF Max

-----------------------------------------------------------------------------
\* What a group holds, said of its parts.
LEMMA PartsOfAGroup ==
    ASSUME NEW g \in Group
    PROVE  /\ g.meta \in {"none", "ok", "torn"}
           /\ DOMAIN g.entries \subseteq Files /\ \A f \in DOMAIN g.entries : g.entries[f] \in BOOLEAN
           /\ DOMAIN g.blobs \subseteq Files /\ \A f \in DOMAIN g.blobs : g.blobs[f] \in Contents
<1>1. /\ g.meta \in {"none", "ok", "torn"}
      /\ g.entries \in UNION {[S -> BOOLEAN] : S \in SUBSET Files}
      /\ g.blobs \in UNION {[S -> Contents] : S \in SUBSET Files}
  BY DEF Group
<1>2. PICK S \in SUBSET Files : g.entries \in [S -> BOOLEAN]
  BY <1>1, Zenon
<1>3. PICK R \in SUBSET Files : g.blobs \in [R -> Contents]
  BY <1>1, Zenon
<1>4. DOMAIN g.entries \subseteq Files /\ \A f \in DOMAIN g.entries : g.entries[f] \in BOOLEAN
  BY <1>2, Zenon
<1> QED BY <1>1, <1>3, <1>4, Zenon

\* A file more, and the empty functions.
LEMMA PutIsTyped ==
    ASSUME NEW T, NEW S \in SUBSET Files, NEW F \in [S -> T], NEW f \in Files, NEW v \in T
    PROVE  Put(F, f, v) \in UNION {[R -> T] : R \in SUBSET Files}
<1>1. Put(F, f, v) \in [S \cup {f} -> T]
  BY DEF Put
<1>2. S \cup {f} \in SUBSET Files
  OBVIOUS
<1> QED BY <1>1, <1>2, Zenon

LEMMA EmptyIsTyped == ASSUME NEW T PROVE <<>> \in UNION {[S -> T] : S \in SUBSET Files}
<1>1. <<>> \in [{} -> T]
  OBVIOUS
<1> QED BY <1>1, Zenon

LEMMA EntryPut ==
    ASSUME NEW g \in Group, NEW f \in Files, NEW v \in BOOLEAN
    PROVE  Put(g.entries, f, v) \in UNION {[S -> BOOLEAN] : S \in SUBSET Files}
<1>1. PICK S \in SUBSET Files : g.entries \in [S -> BOOLEAN]
  <2>1. g.entries \in UNION {[S -> BOOLEAN] : S \in SUBSET Files}
    BY DEF Group
  <2> QED BY <2>1, Zenon
<1> QED BY <1>1, PutIsTyped, Zenon

LEMMA BlobPut ==
    ASSUME NEW g \in Group, NEW f \in Files, NEW v \in Contents
    PROVE  Put(g.blobs, f, v) \in UNION {[S -> Contents] : S \in SUBSET Files}
<1>1. PICK S \in SUBSET Files : g.blobs \in [S -> Contents]
  <2>1. g.blobs \in UNION {[S -> Contents] : S \in SUBSET Files}
    BY DEF Group
  <2> QED BY <2>1, Zenon
<1> QED BY <1>1, PutIsTyped, Zenon

\* Groups that are made of others are groups.
LEMMA MadeGroups ==
    /\ NewGroup \in Group
    /\ \A g \in Group : Remains(g) \subseteq Group
<1>1. NewGroup \in Group
  BY EmptyIsTyped DEF NewGroup, Group
<1>2. ASSUME NEW g \in Group, NEW h \in Remains(g) PROVE h \in Group
  <2>1. <<>> \in UNION {[S -> BOOLEAN] : S \in SUBSET Files} /\ <<>> \in UNION {[S -> Contents] : S \in SUBSET Files}
    BY EmptyIsTyped, Zenon
  <2>2. CASE h = [g EXCEPT !.blobs = <<>>]
    BY <2>1, <2>2 DEF Group
  <2>3. CASE h = [g EXCEPT !.meta = "none", !.entries = <<>>]
    BY <2>1, <2>3 DEF Group
  <2> QED BY <1>2, <2>2, <2>3, Zenon DEF Remains
<1> QED BY <1>1, <1>2

LEMMA PutApplied ==
    ASSUME NEW F, NEW x, NEW v
    PROVE  /\ DOMAIN Put(F, x, v) = DOMAIN F \cup {x}
           /\ Put(F, x, v)[x] = v
           /\ \A y \in DOMAIN F \ {x} : Put(F, x, v)[y] = F[y]
BY DEF Put

LEMMA WithoutApplied ==
    ASSUME NEW F, NEW S
    PROVE  /\ DOMAIN Without(F, S) = DOMAIN F \ S
           /\ \A y \in DOMAIN F \ S : Without(F, S)[y] = F[y]
BY DEF Without

\* What is left of groups that are removed.
LEMMA GroupsRemoved ==
    ASSUME NEW gs, NEW S, S \subseteq DOMAIN gs, RemoveGroups(gs, S)
    PROVE  /\ DOMAIN gs \ S \subseteq DOMAIN groups' /\ DOMAIN groups' \subseteq DOMAIN gs
           /\ \A s \in DOMAIN groups' \ S : groups'[s] = gs[s]
           /\ \A s \in DOMAIN groups' \cap S : groups'[s] \in Remains(gs[s])
           /\ faults' = faults \/ (faults < MaxFaults /\ faults' = faults + 1)
<1>0. /\ DOMAIN Without(gs, S) = DOMAIN gs \ S
      /\ \A y \in DOMAIN gs \ S : Without(gs, S)[y] = gs[y]
  BY WithoutApplied, Zenon
<1>1. CASE groups' = Without(gs, S) /\ UNCHANGED faults
  BY <1>0, <1>1
<1>2. CASE Fault /\ \E s \in S : \E g \in Remains(gs[s]) : groups' = Put(Without(gs, S), s, g)
  <2>0. PICK s \in S : \E g \in Remains(gs[s]) : groups' = Put(Without(gs, S), s, g)
    BY <1>2
  <2>1. PICK g \in Remains(gs[s]) : groups' = Put(Without(gs, S), s, g)
    BY <2>0
  <2> DEFINE W == Without(gs, S)
  <2>5. /\ DOMAIN Put(W, s, g) = DOMAIN W \cup {s}
        /\ Put(W, s, g)[s] = g
        /\ \A y \in DOMAIN W \ {s} : Put(W, s, g)[y] = W[y]
    <3> HIDE DEF W
    <3> QED BY DEF Put
  <2>2. DOMAIN groups' = (DOMAIN gs \ S) \cup {s}
    BY <1>0, <2>1, <2>5
  <2>3. groups'[s] = g
    BY <2>1, <2>5
  <2>4. \A t \in DOMAIN gs \ S : groups'[t] = gs[t]
    BY <1>0, <2>1, <2>5
  <2> QED BY <1>2, <2>2, <2>3, <2>4 DEF Fault
<1> QED BY <1>1, <1>2 DEF RemoveGroups

\* What a removed group keeps of its copies and entries is as it was.
LEMMA PartsOfRemains ==
    ASSUME NEW g \in Group, NEW h \in Remains(g)
    PROVE  /\ h.meta \in {g.meta, "none"}
           /\ \/ h.meta = g.meta /\ h.entries = g.entries /\ h.blobs = <<>>
              \/ h.meta = "none" /\ h.entries = <<>> /\ h.blobs = g.blobs
BY DEF Remains, Group
LEMMA EmptyHasNone == DOMAIN <<>> = {}
OBVIOUS

-----------------------------------------------------------------------------
\* The group that a rewind takes has the highest number of those with a meta.json.
LEMMA LatestIsGreatest ==
    ASSUME TypeOK, NumbersGrow
    PROVE  /\ Latest # NoGroup <=> WithMeta # {}
           /\ WithMeta # {} => Latest \in WithMeta /\ \A s \in WithMeta : s <= Latest
<1>1. WithMeta \subseteq 0..turn /\ turn \in Nat /\ NoGroup \notin WithMeta
  BY DEF WithMeta, TypeOK, NumbersGrow
<1>2. ASSUME WithMeta # {} PROVE Max(WithMeta) \in WithMeta /\ \A s \in WithMeta : s <= Max(WithMeta)
  BY <1>1, <1>2, GreatestNumber
<1> QED BY <1>1, <1>2 DEF Latest

\* The number of a new group is higher than the others, and not above its turn.
LEMMA NumberIsNew ==
    ASSUME TypeOK, Phases, NumbersGrow, InTurn, current = NoGroup
    PROVE  NextNumber(groups) \in 1..turn /\ \A s \in DOMAIN groups : s < NextNumber(groups)
<1> DEFINE D == DOMAIN groups \cup {0}
<1>1. turn \in Nat \ {0} /\ D \subseteq 0..(turn - 1)
  BY DEF TypeOK, Phases, NumbersGrow, NoGroup
<1>2. Max(D) \in D /\ \A s \in D : s <= Max(D)
  <2>1. D # {} /\ turn - 1 \in Nat
    BY <1>1
  <2> HIDE DEF D
  <2> QED BY <1>1, <2>1, GreatestNumber
<1>3. NextNumber(groups) = 1 + Max(D)
  BY DEF NextNumber
<1>4. Max(D) \in 0..(turn - 1)
  BY <1>1, <1>2
<1>5. \A s \in DOMAIN groups : s <= Max(D) /\ s \in Nat
  BY <1>1, <1>2
<1> HIDE DEF D
<1> QED BY <1>1, <1>3, <1>4, <1>5

\* The greatest of the groups is never stale.
LEMMA GreatestStays ==
    ASSUME NEW gs, DOMAIN gs \subseteq Nat, NEW s \in DOMAIN gs, \A t \in DOMAIN gs : t <= s
    PROVE  s \notin Stale(gs)
<1>1. {t \in DOMAIN gs : t > s} = {}
  OBVIOUS
<1>2. Cardinality({t \in DOMAIN gs : t > s}) = 0
  BY <1>1, FS_EmptySet
<1> QED BY <1>2, ConstantsAssumption DEF Stale

-----------------------------------------------------------------------------
LEMMA InitInvariant == Init => IInv
<1> SUFFICES ASSUME Init PROVE IInv
  OBVIOUS
<1> USE ConstantsAssumption, EmptyHasNone DEF Init, NoGroup
<1>0. DOMAIN groups = {} /\ DOMAIN past = {} /\ began \in [Files -> State \cup {Unknown}]
  BY DEF NoTurn
<1>1. TypeOK
  <2>1. turn \in 0..MaxTurns /\ faults \in 0..MaxFaults /\ current \in Nat
    OBVIOUS
  <2> QED BY <1>0, <2>1, Zenon DEF TypeOK
<1>2. Phases /\ NumbersGrow /\ UntouchedAsBefore /\ GroupOfTheTurn /\ CopiesAreMade
      /\ GroupsTellThePast /\ RestoredSoFar
  BY DEF InTurn, Phases, NumbersGrow, UntouchedAsBefore, GroupOfTheTurn, CopiesAreMade, GroupsTellThePast, RestoredSoFar
<1> QED BY <1>1, <1>2 DEF IInv

\* The parts of the invariant that speak of groups alone.
LEMMA GroupsKept ==
    ASSUME IInv, UNCHANGED <<groups, past>>
    PROVE  GroupsTellThePast' /\ WithMeta' = WithMeta /\ Latest' = Latest
BY DEF IInv, GroupsTellThePast, Tells, WithMeta, Latest

LEMMA BeginTurnStep == IInv /\ BeginTurn => IInv'
<1> SUFFICES ASSUME IInv, BeginTurn PROVE IInv'
  OBVIOUS
<1> USE ConstantsAssumption DEF IInv, BeginTurn, NoGroup
<1>1. TypeOK'
  BY DEF TypeOK
<1>2. Phases'
  BY DEF TypeOK, Phases, InTurn
<1>3. NumbersGrow'
  BY DEF TypeOK, Phases, NumbersGrow, InTurn
<1>4. UntouchedAsBefore'
  BY DEF UntouchedAsBefore
<1>5. GroupOfTheTurn' /\ CopiesAreMade' /\ RestoredSoFar'
  BY DEF TypeOK, GroupOfTheTurn, CopiesAreMade, RestoredSoFar, Settled
<1>6. GroupsTellThePast'
  BY GroupsKept
<1> QED BY <1>1, <1>2, <1>3, <1>4, <1>5, <1>6

\* The end of a turn, and a crash.
LEMMA StopStep == IInv /\ Stop /\ UNCHANGED <<groups, past>> /\ faults' \in 0..MaxFaults /\ disk' \in [Files -> State] => IInv'
<1> SUFFICES ASSUME IInv, Stop, UNCHANGED <<groups, past>>, faults' \in 0..MaxFaults, disk' \in [Files -> State]
             PROVE  IInv'
  OBVIOUS
<1> USE ConstantsAssumption DEF IInv, Stop
<1>1. TypeOK'
  BY DEF TypeOK, NoTurn
<1>2. Phases' /\ NumbersGrow' /\ UntouchedAsBefore' /\ GroupOfTheTurn' /\ CopiesAreMade' /\ RestoredSoFar'
  BY DEF Phases, InTurn, NumbersGrow, UntouchedAsBefore, GroupOfTheTurn, CopiesAreMade, RestoredSoFar
<1>3. GroupsTellThePast'
  BY GroupsKept
<1> QED BY <1>1, <1>2, <1>3

LEMMA EndTurnStep == IInv /\ EndTurn => IInv'
<1> SUFFICES ASSUME IInv, EndTurn PROVE IInv'
  OBVIOUS
<1>1. faults' \in 0..MaxFaults /\ disk' \in [Files -> State]
  BY DEF IInv, TypeOK, EndTurn
<1> QED BY <1>1, StopStep DEF EndTurn

LEMMA CrashStep == IInv /\ Crash => IInv'
<1> SUFFICES ASSUME IInv, Crash PROVE IInv'
  OBVIOUS
<1>1. faults' \in 0..MaxFaults
  BY ConstantsAssumption DEF IInv, TypeOK, Crash, Fault
<1>2. disk' \in [Files -> State]
  BY DEF IInv, TypeOK, Crash, State
<1> QED BY <1>1, <1>2, StopStep DEF Crash

LEMMA CallStep == ASSUME NEW f \in Files PROVE IInv /\ Call(f) => IInv'
<1> SUFFICES ASSUME IInv, Call(f) PROVE IInv'
  OBVIOUS
<1> USE ConstantsAssumption DEF IInv, Call, NoGroup, turnHistory
<1>1. TypeOK'
  BY DEF TypeOK
<1>2. Phases' /\ NumbersGrow'
  BY DEF TypeOK, Phases, NumbersGrow, InTurn
<1>3. UntouchedAsBefore' /\ GroupOfTheTurn'
  BY DEF UntouchedAsBefore, GroupOfTheTurn, InTurn, Settled
<1>4. CopiesAreMade'
  BY DEF CopiesAreMade, BackedUp, InTurn, Settled
<1>5. RestoredSoFar'
  BY DEF RestoredSoFar
<1>6. GroupsTellThePast'
  BY GroupsKept
<1> QED BY <1>1, <1>2, <1>3, <1>4, <1>5, <1>6

LEMMA EditStep == ASSUME NEW c \in State PROVE IInv /\ Edit(c) => IInv'
<1> SUFFICES ASSUME IInv, Edit(c) PROVE IInv'
  OBVIOUS
<1> USE ConstantsAssumption DEF IInv, Edit, NoGroup, turnHistory
<1>1. TypeOK'
  BY DEF TypeOK
<1>2. Phases' /\ NumbersGrow'
  BY DEF TypeOK, Phases, NumbersGrow, InTurn
<1>3. UntouchedAsBefore' /\ GroupOfTheTurn'
  BY DEF TypeOK, Phases, UntouchedAsBefore, GroupOfTheTurn, InTurn, Settled
<1>4. CopiesAreMade'
  BY DEF CopiesAreMade, BackedUp, InTurn, Settled
<1>5. RestoredSoFar'
  BY DEF RestoredSoFar
<1>6. GroupsTellThePast'
  BY GroupsKept
<1> QED BY <1>1, <1>2, <1>3, <1>4, <1>5, <1>6

LEMMA OthersEditStep == ASSUME NEW f \in Files, NEW c \in State PROVE IInv /\ OthersEdit(f, c) => IInv'
<1> SUFFICES ASSUME IInv, OthersEdit(f, c) PROVE IInv'
  OBVIOUS
<1> USE ConstantsAssumption DEF IInv, OthersEdit, NoGroup
<1>1. TypeOK'
  BY DEF TypeOK, Fault
<1>2. Phases' /\ NumbersGrow'
  BY DEF TypeOK, Phases, NumbersGrow, InTurn
<1>3. UntouchedAsBefore' /\ GroupOfTheTurn'
  BY DEF TypeOK, Phases, UntouchedAsBefore, GroupOfTheTurn, InTurn, Settled
<1>4. CopiesAreMade'
  BY DEF CopiesAreMade, BackedUp, InTurn, Settled
<1>5. RestoredSoFar'
  BY DEF RestoredSoFar
<1>6. GroupsTellThePast'
  BY GroupsKept
<1> QED BY <1>1, <1>2, <1>3, <1>4, <1>5, <1>6

LEMMA RewindStep == IInv /\ Rewind => IInv'
<1> SUFFICES ASSUME IInv, Rewind PROVE IInv'
  OBVIOUS
<1> USE ConstantsAssumption DEF IInv, Rewind, NoGroup
<1>0. /\ Latest' = Latest /\ WithMeta' = WithMeta /\ Latest \in WithMeta /\ Latest \in DOMAIN groups
      /\ DOMAIN groups[Latest].entries \subseteq Files
  <2>1. Latest \in WithMeta
    BY LatestIsGreatest
  <2>2. Latest \in DOMAIN groups /\ groups[Latest] \in Group
    BY <2>1 DEF WithMeta, TypeOK
  <2> QED BY <2>1, <2>2, GroupsKept, PartsOfAGroup
<1>1. TypeOK'
  BY <1>0 DEF TypeOK
<1>2. Phases'
  BY <1>0 DEF TypeOK, Phases, InTurn
<1>3. NumbersGrow' /\ UntouchedAsBefore' /\ GroupOfTheTurn'
  BY <1>0 DEF TypeOK, Phases, NumbersGrow, UntouchedAsBefore, GroupOfTheTurn, InTurn, Settled
<1>4. CopiesAreMade'
  BY DEF CopiesAreMade, InTurn
<1>5. RestoredSoFar'
  BY <1>0 DEF RestoredSoFar
<1>6. GroupsTellThePast'
  BY GroupsKept
<1> QED BY <1>1, <1>2, <1>3, <1>4, <1>5, <1>6

LEMMA RestoreEntryStep == ASSUME NEW f \in Files PROVE IInv /\ RestoreEntry(f) => IInv'
<1> SUFFICES ASSUME IInv, RestoreEntry(f) PROVE IInv'
  OBVIOUS
<1> USE ConstantsAssumption DEF IInv, RestoreEntry, NoGroup
<1>0. /\ Latest' = Latest /\ WithMeta' = WithMeta /\ Latest \in WithMeta /\ Latest \in DOMAIN groups
      /\ groups[Latest] \in Group /\ Restored(f) \in State
  <2>1. Latest \in WithMeta
    BY LatestIsGreatest DEF Phases
  <2>2. Latest \in DOMAIN groups /\ groups[Latest] \in Group
    BY <2>1 DEF WithMeta, TypeOK
  <2>3. Restored(f) \in State
    BY <2>2, PartsOfAGroup DEF Restored, State, TypeOK
  <2> QED BY <2>1, <2>2, <2>3, GroupsKept
<1>1. TypeOK'
  BY <1>0 DEF TypeOK
<1>2. Phases'
  BY <1>0 DEF TypeOK, Phases, InTurn
<1>3. NumbersGrow' /\ UntouchedAsBefore' /\ GroupOfTheTurn'
  BY <1>0 DEF TypeOK, Phases, NumbersGrow, UntouchedAsBefore, GroupOfTheTurn, InTurn, Settled
<1>4. CopiesAreMade'
  BY DEF CopiesAreMade, InTurn, Phases
<1>5. RestoredSoFar'
  BY <1>0, PartsOfAGroup DEF RestoredSoFar, Restored, TypeOK
<1>6. GroupsTellThePast'
  BY GroupsKept
<1> QED BY <1>1, <1>2, <1>3, <1>4, <1>5, <1>6

-----------------------------------------------------------------------------
\* Groups that go leave the rest of the invariant as it was.
LEMMA OpenStep == IInv /\ Open => IInv'
<1> SUFFICES ASSUME IInv, Open PROVE IInv'
  OBVIOUS
<1> USE ConstantsAssumption DEF NoGroup
<1>a. TypeOK /\ Phases /\ NumbersGrow /\ UntouchedAsBefore /\ GroupOfTheTurn /\ CopiesAreMade /\ GroupsTellThePast
  BY DEF IInv
<1>b. /\ pc = "open" /\ back = "idle" /\ InTurn /\ target \in Files /\ turn \in Nat \ {0}
      /\ UNCHANGED <<disk, recorded, target, todo, back, turn, began, strayed>>
  BY <1>a DEF Open, InTurn, Phases, TypeOK
\* The turn has its group already.
<1>1. CASE current # NoGroup /\ pc' = "copy" /\ UNCHANGED <<groups, current, disturbed, past, faults>>
  <2> USE <1>1, <1>b, <1>a
  <2>1. TypeOK' /\ Phases'
    BY DEF TypeOK, Phases, InTurn
  <2>2. NumbersGrow' /\ UntouchedAsBefore' /\ GroupOfTheTurn' /\ RestoredSoFar'
    BY DEF NumbersGrow, UntouchedAsBefore, GroupOfTheTurn, RestoredSoFar, InTurn, Settled
  <2>3. CopiesAreMade'
    BY DEF CopiesAreMade, BackedUp, InTurn, Settled
  <2>4. GroupsTellThePast'
    BY GroupsKept
  <2> QED BY <2>1, <2>2, <2>3, <2>4 DEF IInv
\* The group cannot be made.
<1>2. CASE current = NoGroup /\ Fault /\ SnapshotFails
  <2> USE <1>2, <1>b, <1>a DEF SnapshotFails
  <2>1. TypeOK' /\ Phases'
    BY DEF TypeOK, Phases, InTurn, Fault
  <2>2. NumbersGrow' /\ UntouchedAsBefore' /\ GroupOfTheTurn' /\ RestoredSoFar'
    BY DEF TypeOK, NumbersGrow, UntouchedAsBefore, GroupOfTheTurn, RestoredSoFar, InTurn, Settled
  <2>3. CopiesAreMade'
    BY DEF CopiesAreMade
  <2>4. GroupsTellThePast'
    BY GroupsKept
  <2> QED BY <2>1, <2>2, <2>3, <2>4 DEF IInv
\* A new group; what is too old goes.
<1>3. CASE /\ current = NoGroup /\ pc' = "copy" /\ UNCHANGED disturbed
           /\ LET s == NextNumber(groups)
                  gs == Put(groups, s, NewGroup)
                  p == Put(past, s, [turn |-> turn, was |-> <<>>, lost |-> {}])
              IN /\ current' = s
                 /\ RemoveGroups(gs, Stale(gs))
                 /\ past' = Without(p, DOMAIN p \ DOMAIN groups')
  <2> DEFINE s == NextNumber(groups)
             new == [turn |-> turn, was |-> <<>>, lost |-> {}]
             gs == Put(groups, s, NewGroup)
             p == Put(past, s, new)
  <2>1. s \in 1..turn /\ \A t \in DOMAIN groups : t < s
    BY <1>3, <1>a, <1>b, NumberIsNew
  <2>2. current' = s /\ RemoveGroups(gs, Stale(gs)) /\ past' = Without(p, DOMAIN p \ DOMAIN groups')
    BY <1>3
  <2> HIDE DEF s
  <2>3. /\ DOMAIN gs = DOMAIN groups \cup {s} /\ gs[s] = NewGroup
        /\ \A t \in DOMAIN groups : gs[t] = groups[t]
        /\ DOMAIN p = DOMAIN groups \cup {s} /\ p[s] = new
        /\ \A t \in DOMAIN groups : p[t] = past[t]
    <3>1. s \notin DOMAIN groups /\ DOMAIN past = DOMAIN groups
      BY <2>1, <1>a DEF TypeOK
    <3> HIDE DEF new
    <3> QED BY <3>1 DEF Put
  <2> HIDE DEF gs, p
  <2>4. s \notin Stale(gs) /\ Stale(gs) \subseteq DOMAIN gs
    <3>1. DOMAIN gs \subseteq Nat /\ s \in DOMAIN gs /\ \A t \in DOMAIN gs : t <= s
      BY <2>1, <2>3, <1>a DEF TypeOK
    <3> QED BY <3>1, GreatestStays DEF Stale
  <2>5. /\ s \in DOMAIN groups' /\ groups'[s] = NewGroup /\ DOMAIN groups' \subseteq DOMAIN groups \cup {s}
        /\ \A t \in DOMAIN groups' \ {s} : groups'[t] \in {groups[t]} \cup Remains(groups[t])
        /\ faults' = faults \/ (faults < MaxFaults /\ faults' = faults + 1)
    <3>1. /\ DOMAIN gs \ Stale(gs) \subseteq DOMAIN groups' /\ DOMAIN groups' \subseteq DOMAIN gs
          /\ \A t \in DOMAIN groups' \ Stale(gs) : groups'[t] = gs[t]
          /\ \A t \in DOMAIN groups' \cap Stale(gs) : groups'[t] \in Remains(gs[t])
          /\ faults' = faults \/ (faults < MaxFaults /\ faults' = faults + 1)
      BY <2>2, <2>4, GroupsRemoved
    <3> QED BY <3>1, <2>3, <2>4, Zenon
  <2>6. /\ DOMAIN past' = DOMAIN groups' /\ past'[s] = new
        /\ \A t \in DOMAIN groups' \ {s} : past'[t] = past[t]
    <3>1. /\ DOMAIN past' = DOMAIN p \ (DOMAIN p \ DOMAIN groups')
          /\ \A t \in DOMAIN p \ (DOMAIN p \ DOMAIN groups') : past'[t] = p[t]
      BY <2>2, WithoutApplied
    <3> QED BY <3>1, <2>3, <2>5
  <2>7. \A t \in DOMAIN groups' \ {s} : t \in DOMAIN groups /\ groups[t] \in Group /\ groups'[t] \in Group
    BY <2>5, <1>a, MadeGroups DEF TypeOK
  <2>8. TypeOK'
    <3>1. \A t \in DOMAIN groups' : groups'[t] \in Group
      BY <2>5, <2>7, MadeGroups
    <3>2. \A t \in DOMAIN past' : /\ past'[t].turn \in 1..turn /\ past'[t].lost \subseteq Files
                                  /\ \A f \in DOMAIN past'[t].was : past'[t].was[f] \in State \cup {Unknown}
      BY <2>6, <2>7, <1>a, <1>b, EmptyHasNone DEF TypeOK
    <3>3. DOMAIN groups' \subseteq Nat \ {NoGroup} /\ current' \in Nat \ {NoGroup}
      BY <2>1, <2>2, <2>5, <1>a DEF TypeOK
    <3>4. faults' \in 0..MaxFaults
      BY <2>5, <1>a DEF TypeOK
    <3> QED BY <3>1, <3>2, <3>3, <3>4, <2>6, <1>3, <1>a, <1>b DEF TypeOK
  <2>9. Phases'
    BY <1>3, <1>a, <1>b DEF Phases, InTurn
  <2>10. NumbersGrow'
    <3>1. \A t \in DOMAIN groups' : t \in Nat /\ t <= s /\ t <= turn
      BY <2>1, <2>5, <1>a, <1>b DEF TypeOK
    <3>2. past'[s].turn = turn
      BY <2>6 DEF new
    <3>3. \A t \in DOMAIN groups' \ {s} : past'[t].turn = past[t].turn /\ past[t].turn < turn
      BY <2>6, <2>7, <1>3, <1>a, <1>b DEF NumbersGrow
    <3>4. ASSUME NEW a \in DOMAIN groups', NEW b \in DOMAIN groups', a < b
          PROVE  past'[a].turn < past'[b].turn
      <4>1. a # s
        BY <3>1, <3>4, <2>1
      <4>2. CASE b = s
        BY <4>1, <4>2, <3>2, <3>3
      <4>3. CASE b # s
        BY <4>1, <4>3, <3>3, <3>4, <2>7, <1>a DEF NumbersGrow
      <4> QED BY <4>2, <4>3
    <3>5. current' = s /\ s # NoGroup /\ turn' = turn
      BY <2>1, <2>2, <1>b
    <3> QED BY <3>1, <3>4, <3>5 DEF NumbersGrow
  <2>11. UntouchedAsBefore'
    BY <1>3, <1>a, <1>b DEF UntouchedAsBefore, InTurn, Settled
  <2>12. DOMAIN NewGroup.entries = {} /\ DOMAIN NewGroup.blobs = {}
    BY EmptyHasNone DEF NewGroup
  <2>13. GroupOfTheTurn'
    BY <1>3, <2>2, <2>5, <2>12 DEF GroupOfTheTurn
  <2>14. CopiesAreMade'
    BY <1>3, <1>a, <1>b, <2>1, <2>2, <2>5 DEF CopiesAreMade, Settled, InTurn
  <2>15. GroupsTellThePast'
    <3> SUFFICES ASSUME NEW t \in DOMAIN groups', NEW f \in DOMAIN groups'[t].entries
                 PROVE  f \in DOMAIN past'[t].was /\ Tells(t, f)'
      BY DEF GroupsTellThePast
    <3>1. t # s
      BY <2>5, <2>12
    <3>2. past'[t] = past[t] /\ t \in DOMAIN groups /\ groups[t] \in Group
      BY <3>1, <2>6, <2>7
    <3>3. groups'[t].entries = groups[t].entries /\ groups'[t].blobs \in {groups[t].blobs, <<>>}
      BY <3>1, <3>2, <2>5, PartsOfRemains, EmptyHasNone
    <3>4. f \in DOMAIN past[t].was /\ Tells(t, f)
      BY <3>2, <3>3, <1>a DEF GroupsTellThePast
    <3> QED BY <3>2, <3>3, <3>4, EmptyHasNone DEF Tells
  <2>16. RestoredSoFar'
    BY <1>3 DEF RestoredSoFar
  <2> QED BY <2>8, <2>9, <2>10, <2>11, <2>13, <2>14, <2>15, <2>16 DEF IInv
<1> QED BY <1>1, <1>2, <1>3 DEF Open

-----------------------------------------------------------------------------
LEMMA CopyStep == IInv /\ Copy => IInv'
<1> SUFFICES ASSUME IInv, Copy PROVE IInv'
  OBVIOUS
<1> USE ConstantsAssumption DEF NoGroup
<1>a. TypeOK /\ Phases /\ NumbersGrow /\ UntouchedAsBefore /\ GroupOfTheTurn /\ CopiesAreMade /\ GroupsTellThePast
  BY DEF IInv
<1>b. /\ pc = "copy" /\ pc' = "meta" /\ InTurn /\ InTurn' /\ target \in Files /\ target \in recorded
      /\ current # NoGroup /\ Settled' = Settled /\ target \notin Settled
      /\ UNCHANGED <<disk, current, recorded, target, todo, back, turn, began, strayed>>
  BY <1>a DEF Copy, InTurn, Phases, TypeOK, Settled
<1>c. disk[target] \in State /\ (target \notin strayed => disk[target] = began[target])
  BY <1>a, <1>b DEF TypeOK, UntouchedAsBefore
\* What no case disturbs.
<1>d. UntouchedAsBefore' /\ RestoredSoFar'
  BY <1>a, <1>b DEF UntouchedAsBefore, RestoredSoFar
\* Nothing to copy, or nowhere to.
<1>1. CASE /\ UNCHANGED <<groups, disturbed, past, faults>>
           /\ disk[target] = Absent \/ current \notin DOMAIN groups
  <2> USE <1>1, <1>a, <1>b, <1>c
  <2>1. TypeOK' /\ Phases' /\ NumbersGrow'
    BY DEF TypeOK, Phases, NumbersGrow, InTurn
  <2>2. GroupOfTheTurn'
    <3> SUFFICES ASSUME current \in DOMAIN groups
                 PROVE  GroupOfTheTurn'
      BY DEF GroupOfTheTurn
    <3>1. DOMAIN groups[current].blobs \subseteq Settled /\ DOMAIN groups[current].entries \subseteq Settled
      BY DEF GroupOfTheTurn
    <3>2. target \in strayed \/ began[target] = Absent
      OBVIOUS
    <3> QED BY <3>1, <3>2 DEF GroupOfTheTurn, Settled
  <2>3. CopiesAreMade'
    BY DEF CopiesAreMade, BackedUp, GroupOfTheTurn
  <2>4. GroupsTellThePast'
    BY GroupsKept
  <2> QED BY <2>1, <2>2, <2>3, <2>4, <1>d DEF IInv
\* The copy is made.
<1>2. CASE /\ disk[target] # Absent /\ current \in DOMAIN groups
           /\ groups' = [groups EXCEPT ![current].blobs = Put(@, target, disk[target])]
           /\ UNCHANGED <<disturbed, past, faults>>
  <2> DEFINE g == groups[current]
             h == groups'[current]
  <2>1. /\ g \in Group /\ DOMAIN groups' = DOMAIN groups /\ \A s \in DOMAIN groups \ {current} : groups'[s] = groups[s]
        /\ h = [g EXCEPT !.blobs = Put(@, target, disk[target])]
    BY <1>2, <1>a DEF TypeOK
  <2>2. disk[target] \in Contents
    BY <1>2, <1>c DEF State
  <2>3. h \in Group /\ h.meta = g.meta /\ h.entries = g.entries /\ h.blobs = Put(g.blobs, target, disk[target])
    <3>1. Put(g.blobs, target, disk[target]) \in UNION {[S -> Contents] : S \in SUBSET Files}
      BY <2>1, <2>2, <1>b, BlobPut
    <3> HIDE DEF g, h
    <3> QED BY <3>1, <2>1 DEF Group
  <2>4. /\ DOMAIN h.blobs = DOMAIN g.blobs \cup {target} /\ h.blobs[target] = disk[target]
        /\ \A f \in DOMAIN g.blobs \ {target} : h.blobs[f] = g.blobs[f]
    <3> HIDE DEF g, h
    <3> QED BY <2>3 DEF Put
  <2> HIDE DEF g, h
  <2>5. DOMAIN g.blobs \subseteq Settled /\ DOMAIN g.entries \subseteq Settled
    BY <1>2, <1>a, <1>b DEF GroupOfTheTurn, g
  <2>6. TypeOK'
    <3>1. \A s \in DOMAIN groups' : groups'[s] \in Group
      BY <2>1, <2>3, <1>a DEF TypeOK, h
    <3> QED BY <3>1, <2>1, <1>2, <1>a, <1>b DEF TypeOK
  <2>7. Phases' /\ NumbersGrow'
    BY <2>1, <1>2, <1>a, <1>b DEF Phases, NumbersGrow
  <2>8. GroupOfTheTurn'
    BY <2>1, <2>3, <2>4, <2>5, <1>2, <1>b, <1>c DEF GroupOfTheTurn, h, Settled
  <2>9. CopiesAreMade'
    <3> SUFFICES ASSUME ~disturbed
                 PROVE  CopiesAreMade'
      BY <1>2 DEF CopiesAreMade
    <3>1. \A f \in Settled : BackedUp(f)'
      <4> TAKE f \in Settled
      <4>1. BackedUp(f) /\ f # target
        BY <1>a, <1>b DEF CopiesAreMade
      <4> QED BY <4>1, <2>3, <2>4, <1>b DEF BackedUp, g, h
    <3>2. target \notin strayed => target \in DOMAIN h.blobs /\ began[target] # Absent /\ h.blobs[target] = began[target]
      BY <2>4, <1>2, <1>c
    <3> QED BY <3>1, <3>2, <2>1, <1>2, <1>b DEF CopiesAreMade, h
  <2>10. GroupsTellThePast'
    <3> SUFFICES ASSUME NEW s \in DOMAIN groups', NEW f \in DOMAIN groups'[s].entries
                 PROVE  f \in DOMAIN past'[s].was /\ Tells(s, f)'
      BY DEF GroupsTellThePast
    <3>1. CASE s # current
      BY <3>1, <2>1, <1>2, <1>a DEF GroupsTellThePast, Tells
    <3>2. CASE s = current
      <4>1. f \in DOMAIN g.entries /\ f # target /\ f \in DOMAIN past[s].was /\ Tells(s, f)
        BY <3>2, <2>3, <2>5, <1>2, <1>a, <1>b DEF GroupsTellThePast, g, h
      <4> QED BY <4>1, <3>2, <2>3, <2>4, <1>2 DEF Tells, g, h
    <3> QED BY <3>1, <3>2
  <2> QED BY <2>6, <2>7, <2>8, <2>9, <2>10, <1>d DEF IInv
\* The copy fails.
<1>3. CASE /\ disk[target] # Absent /\ current \in DOMAIN groups
           /\ Fault
           /\ past' = [past EXCEPT ![current].lost = @ \cup {target}]
           /\ disturbed' = TRUE
           /\ UNCHANGED groups
  <2>1. /\ DOMAIN past' = DOMAIN past /\ current \in DOMAIN past
        /\ \A s \in DOMAIN past : /\ past'[s].turn = past[s].turn /\ past'[s].was = past[s].was
                                  /\ past[s].lost \subseteq past'[s].lost /\ past'[s].lost \subseteq Files
        /\ target \in past'[current].lost
    <3>1. DOMAIN past = DOMAIN groups /\ \A s \in DOMAIN past : past[s].lost \subseteq Files
      BY <1>a DEF TypeOK
    <3>2. /\ past'[current].turn = past[current].turn /\ past'[current].was = past[current].was
          /\ past'[current].lost = past[current].lost \cup {target}
      BY <1>3, <3>1
    <3> QED BY <1>3, <1>b, <3>1, <3>2
  <2>2. TypeOK'
    BY <2>1, <1>3, <1>a, <1>b DEF TypeOK, Fault
  <2>3. Phases' /\ NumbersGrow'
    BY <2>1, <1>3, <1>a, <1>b DEF TypeOK, Phases, NumbersGrow
  <2>4. GroupOfTheTurn'
    BY <2>1, <1>3, <1>a, <1>b DEF GroupOfTheTurn, Settled
  <2>5. CopiesAreMade'
    BY <1>3 DEF CopiesAreMade
  <2>6. GroupsTellThePast'
    BY <2>1, <1>3, <1>a DEF TypeOK, GroupsTellThePast, Tells
  <2> QED BY <2>2, <2>3, <2>4, <2>5, <2>6, <1>d DEF IInv
<1> QED BY <1>1, <1>2, <1>3 DEF Copy

-----------------------------------------------------------------------------
LEMMA WriteMetaStep == IInv /\ WriteMeta => IInv'
<1> SUFFICES ASSUME IInv, WriteMeta PROVE IInv'
  OBVIOUS
<1> USE ConstantsAssumption DEF NoGroup
<1>a. TypeOK /\ Phases /\ NumbersGrow /\ UntouchedAsBefore /\ GroupOfTheTurn /\ CopiesAreMade /\ GroupsTellThePast
  BY DEF IInv
<1>b. /\ pc = "meta" /\ pc' = "edit" /\ InTurn /\ InTurn' /\ target \in Files /\ target \in recorded
      /\ back = "idle"
      /\ current # NoGroup /\ Settled = recorded \ {target} /\ Settled' = recorded
      /\ UNCHANGED <<disk, current, recorded, target, todo, back, turn, began, strayed>>
  BY <1>a DEF WriteMeta, SnapshotFails, InTurn, Phases, TypeOK, Settled
<1>d. UntouchedAsBefore' /\ RestoredSoFar'
  BY <1>a, <1>b DEF UntouchedAsBefore, RestoredSoFar
\* It is written.
<1>1. CASE /\ current \in DOMAIN groups
           /\ groups' = [groups EXCEPT ![current].meta = "ok",
                             ![current].entries = Put(@, target, target \in DOMAIN groups[current].blobs)]
           /\ past' = [past EXCEPT ![current].was =
                             Put(@, target, IF target \in strayed THEN Unknown ELSE began[target])]
           /\ UNCHANGED <<current, disturbed, faults>>
  <2> DEFINE g == groups[current]
             h == groups'[current]
             b == target \in DOMAIN g.blobs
             v == IF target \in strayed THEN Unknown ELSE began[target]
  <2>1. /\ g \in Group /\ DOMAIN groups' = DOMAIN groups /\ \A s \in DOMAIN groups \ {current} : groups'[s] = groups[s]
        /\ h = [g EXCEPT !.meta = "ok", !.entries = Put(@, target, b)]
    BY <1>1, <1>a DEF TypeOK
  <2>2. /\ DOMAIN past' = DOMAIN past /\ current \in DOMAIN past /\ \A s \in DOMAIN past \ {current} : past'[s] = past[s]
        /\ past'[current].turn = past[current].turn /\ past'[current].lost = past[current].lost
        /\ past'[current].was = Put(past[current].was, target, v)
    BY <1>1, <1>a DEF TypeOK
  <2>3. h \in Group /\ h.meta = "ok" /\ h.blobs = g.blobs /\ h.entries = Put(g.entries, target, b)
    <3>1. Put(g.entries, target, b) \in UNION {[S -> BOOLEAN] : S \in SUBSET Files}
      <4>1. b \in BOOLEAN
        OBVIOUS
      <4> HIDE DEF b, g
      <4> QED BY <4>1, <2>1, <1>b, EntryPut
    <3> HIDE DEF g, h, b
    <3> QED BY <3>1, <2>1 DEF Group
  <2>4. /\ DOMAIN h.entries = DOMAIN g.entries \cup {target} /\ h.entries[target] = b
        /\ \A f \in DOMAIN g.entries \ {target} : h.entries[f] = g.entries[f]
    <3> HIDE DEF g, h, b
    <3>1. /\ DOMAIN Put(g.entries, target, b) = DOMAIN g.entries \cup {target}
          /\ Put(g.entries, target, b)[target] = b
          /\ \A f \in DOMAIN g.entries \ {target} : Put(g.entries, target, b)[f] = g.entries[f]
      BY DEF Put
    <3> QED BY <3>1, <2>3, Zenon
  <2>5. /\ DOMAIN past'[current].was = DOMAIN past[current].was \cup {target} /\ past'[current].was[target] = v
        /\ \A f \in DOMAIN past[current].was \ {target} : past'[current].was[f] = past[current].was[f]
    <3> HIDE DEF v
    <3> QED BY <2>2 DEF Put
  <2>6. v \in State \cup {Unknown} /\ (target \notin strayed => v = began[target])
    BY <1>a, <1>b DEF TypeOK
  <2>7. b \in BOOLEAN /\ (b <=> target \in DOMAIN g.blobs)
    OBVIOUS
  <2>8. \/ target \in past[current].lost \cup strayed
        \/ b /\ g.blobs[target] = began[target]
        \/ ~b /\ began[target] = Absent
    BY <1>1, <1>a, <1>b DEF GroupOfTheTurn
  <2>9. DOMAIN g.entries \subseteq Settled /\ DOMAIN g.blobs \subseteq recorded
    BY <1>1, <1>a, <1>b DEF GroupOfTheTurn
  <2>10. ~disturbed => /\ \A f \in Settled : BackedUp(f)
                       /\ target \notin strayed => /\ b <=> (began[target] # Absent)
                                                   /\ began[target] # Absent => g.blobs[target] = began[target]
    BY <1>1, <1>a, <1>b DEF CopiesAreMade
  <2>11. \A f \in DOMAIN g.entries : f \in DOMAIN past[current].was /\ Tells(current, f)
    BY <1>1, <1>a DEF GroupsTellThePast
  <2>12. h = groups'[current] /\ g = groups[current] /\ (target \in strayed => v = Unknown)
    OBVIOUS
  <2> HIDE DEF g, h, b, v
  <2>13. TypeOK'
    <3>1. \A s \in DOMAIN groups' : groups'[s] \in Group
      BY <2>1, <2>3, <2>12, <1>a DEF TypeOK
    <3>2. \A s \in DOMAIN past' : /\ past'[s].turn \in 1..turn /\ past'[s].lost \subseteq Files
                                  /\ \A f \in DOMAIN past'[s].was : past'[s].was[f] \in State \cup {Unknown}
      BY <2>2, <2>5, <2>6, <1>a DEF TypeOK
    <3> QED BY <3>1, <3>2, <2>1, <2>2, <1>1, <1>a, <1>b DEF TypeOK
  <2>14. Phases'
    BY <1>1, <1>a, <1>b DEF Phases
  <2>15. NumbersGrow'
    <3>1. \A s \in DOMAIN groups : past'[s].turn = past[s].turn
      BY <2>2, <1>a DEF TypeOK
    <3> QED BY <3>1, <2>1, <1>1, <1>a, <1>b DEF NumbersGrow
  <2>16. GroupOfTheTurn'
    <3>1. DOMAIN h.entries \subseteq recorded /\ DOMAIN h.blobs \subseteq recorded
      BY <2>3, <2>4, <2>9, <1>b
    <3> QED BY <3>1, <2>12, <1>b DEF GroupOfTheTurn
  <2>17. CopiesAreMade'
    <3> SUFFICES ASSUME ~disturbed
                 PROVE  CopiesAreMade'
      BY <1>1 DEF CopiesAreMade
    <3>1. \A f \in Settled : BackedUp(f)'
      <4> TAKE f \in Settled
      <4>1. BackedUp(f) /\ f # target
        BY <1>b, <2>10
      <4>2. f \in DOMAIN g.entries /\ h.entries[f] = g.entries[f]
        BY <4>1, <2>4, <2>12 DEF BackedUp
      <4> QED BY <4>1, <4>2, <2>3, <2>4, <2>12, <1>b DEF BackedUp
    <3>2. BackedUp(target)'
      <4>1. target \notin strayed => /\ h.entries[target] = (began[target] # Absent)
                                     /\ began[target] # Absent => target \in DOMAIN h.blobs /\ h.blobs[target] = began[target]
        BY <2>3, <2>4, <2>7, <2>10
      <4> QED BY <4>1, <2>3, <2>4, <2>12, <1>b DEF BackedUp
    <3> QED BY <3>1, <3>2, <2>1, <1>1, <1>b DEF CopiesAreMade
  <2>18. GroupsTellThePast'
    <3> SUFFICES ASSUME NEW s \in DOMAIN groups', NEW f \in DOMAIN groups'[s].entries
                 PROVE  f \in DOMAIN past'[s].was /\ Tells(s, f)'
      BY DEF GroupsTellThePast
    <3>1. CASE s # current
      BY <3>1, <2>1, <2>2, <1>a DEF GroupsTellThePast, Tells, TypeOK
    <3>2. CASE s = current /\ f # target
      <4>1. f \in DOMAIN g.entries /\ f \in DOMAIN past[s].was /\ Tells(s, f)
        BY <3>2, <2>4, <2>11, <2>12
      <4> QED BY <4>1, <3>2, <2>2, <2>3, <2>4, <2>5, <2>12 DEF Tells
    <3>3. CASE s = current /\ f = target
      <4>1. past'[s].was[f] = v /\ past'[s].lost = past[s].lost /\ groups'[s].blobs = g.blobs
        BY <3>3, <2>2, <2>3, <2>5, <2>12
      <4>2. groups'[s].entries[f] <=> b
        BY <3>3, <2>4, <2>12
      <4>3. Tells(s, f)'
        BY <3>3, <4>1, <4>2, <2>6, <2>7, <2>8, <2>12 DEF Tells
      <4> QED BY <4>3, <3>3, <2>5
    <3> QED BY <3>1, <3>2, <3>3
  <2> QED BY <2>13, <2>14, <2>15, <2>16, <2>17, <2>18, <1>d DEF IInv
\* It is cut short.
<1>2. CASE /\ current \in DOMAIN groups
           /\ Fault
           /\ groups' = [groups EXCEPT ![current].meta = "torn", ![current].entries = <<>>]
           /\ disturbed' = TRUE
           /\ UNCHANGED <<current, past>>
  <2> DEFINE g == groups[current]
             h == groups'[current]
  <2>1. /\ g \in Group /\ DOMAIN groups' = DOMAIN groups /\ \A s \in DOMAIN groups \ {current} : groups'[s] = groups[s]
        /\ h = [g EXCEPT !.meta = "torn", !.entries = <<>>]
    BY <1>2, <1>a DEF TypeOK
  <2>2. h \in Group /\ h.blobs = g.blobs /\ DOMAIN h.entries = {}
    <3>1. <<>> \in UNION {[S -> BOOLEAN] : S \in SUBSET Files}
      BY EmptyIsTyped, Zenon
    <3>2. h.entries = <<>>
      BY <2>1 DEF Group
    <3> HIDE DEF g, h
    <3> QED BY <3>1, <3>2, <2>1, EmptyHasNone DEF Group
  <2>3. TypeOK'
    <3>1. \A s \in DOMAIN groups' : groups'[s] \in Group
      BY <2>1, <2>2, <1>a DEF TypeOK
    <3> HIDE DEF g, h
    <3> QED BY <3>1, <2>1, <1>2, <1>a, <1>b DEF TypeOK, Fault
  <2>4. Phases' /\ NumbersGrow'
    BY <2>1, <1>2, <1>a, <1>b DEF Phases, NumbersGrow
  <2>5. GroupOfTheTurn'
    BY <2>1, <2>2, <1>2, <1>a, <1>b DEF GroupOfTheTurn
  <2>6. CopiesAreMade'
    BY <1>2 DEF CopiesAreMade
  <2>7. GroupsTellThePast'
    BY <2>1, <2>2, <1>2, <1>a DEF GroupsTellThePast, Tells
  <2> QED BY <2>3, <2>4, <2>5, <2>6, <2>7, <1>d DEF IInv
\* It is not written, for want of its directory or otherwise.
<1>3. CASE SnapshotFails /\ (UNCHANGED faults \/ Fault)
  <2> USE <1>3, <1>a, <1>b DEF SnapshotFails
  <2>1. TypeOK' /\ Phases' /\ NumbersGrow'
    BY DEF TypeOK, Phases, NumbersGrow, Fault
  <2>2. GroupOfTheTurn'
    BY DEF GroupOfTheTurn
  <2>3. CopiesAreMade'
    BY DEF CopiesAreMade
  <2>4. GroupsTellThePast'
    BY GroupsKept
  <2> QED BY <2>1, <2>2, <2>3, <2>4, <1>d DEF IInv
<1> QED BY <1>1, <1>2, <1>3 DEF WriteMeta

-----------------------------------------------------------------------------
\* Of a restore that ends: its group is among those there are.
LEMMA RestoreHasLatest ==
    ASSUME IInv, pc = "restore"
    PROVE  /\ Latest \in WithMeta /\ Latest \in DOMAIN groups /\ groups[Latest] \in Group
           /\ \A s \in WithMeta : s <= Latest
<1>1. TypeOK /\ NumbersGrow /\ Latest # NoGroup
  BY DEF IInv, Phases
<1>2. Latest \in WithMeta /\ \A s \in WithMeta : s <= Latest
  BY <1>1, LatestIsGreatest
<1> QED BY <1>1, <1>2 DEF WithMeta, TypeOK

LEMMA RestoreRemoves ==
    ASSUME IInv, RestoreEnds
    PROVE  /\ DOMAIN groups \ {Latest} \subseteq DOMAIN groups' /\ DOMAIN groups' \subseteq DOMAIN groups
           /\ \A s \in DOMAIN groups' \ {Latest} : groups'[s] = groups[s]
           /\ \A s \in DOMAIN groups' \cap {Latest} : groups'[s] \in Remains(groups[s])
           /\ faults' = faults \/ (faults < MaxFaults /\ faults' = faults + 1)
           /\ DOMAIN past' = DOMAIN groups' /\ \A s \in DOMAIN groups' : past'[s] = past[s]
<1>1. {Latest} \subseteq DOMAIN groups /\ RemoveGroups(groups, {Latest})
  BY RestoreHasLatest DEF RestoreEnds
<1>2. /\ DOMAIN groups \ {Latest} \subseteq DOMAIN groups' /\ DOMAIN groups' \subseteq DOMAIN groups
      /\ \A s \in DOMAIN groups' \ {Latest} : groups'[s] = groups[s]
      /\ \A s \in DOMAIN groups' \cap {Latest} : groups'[s] \in Remains(groups[s])
      /\ faults' = faults \/ (faults < MaxFaults /\ faults' = faults + 1)
  <2> DEFINE S == {Latest}
  <2>1. S \subseteq DOMAIN groups /\ RemoveGroups(groups, S)
    BY <1>1
  <2> HIDE DEF S
  <2>2. /\ DOMAIN groups \ S \subseteq DOMAIN groups' /\ DOMAIN groups' \subseteq DOMAIN groups
        /\ \A s \in DOMAIN groups' \ S : groups'[s] = groups[s]
        /\ \A s \in DOMAIN groups' \cap S : groups'[s] \in Remains(groups[s])
        /\ faults' = faults \/ (faults < MaxFaults /\ faults' = faults + 1)
    BY <2>1, GroupsRemoved
  <2> QED BY <2>2 DEF S
<1>3. DOMAIN past = DOMAIN groups
  BY DEF IInv, TypeOK
<1>4. /\ DOMAIN past' = DOMAIN past \ (DOMAIN past \ DOMAIN groups')
      /\ \A s \in DOMAIN past \ (DOMAIN past \ DOMAIN groups') : past'[s] = past[s]
  BY WithoutApplied DEF RestoreEnds
<1> QED BY <1>2, <1>3, <1>4

LEMMA RestoreEndsStep == IInv /\ RestoreEnds => IInv'
<1> SUFFICES ASSUME IInv, RestoreEnds PROVE IInv'
  OBVIOUS
<1> USE ConstantsAssumption DEF NoGroup
<1>a. /\ TypeOK /\ Phases /\ NumbersGrow /\ UntouchedAsBefore /\ GroupOfTheTurn /\ CopiesAreMade /\ GroupsTellThePast
      /\ pc = "restore" /\ pc' = back /\ back' = "idle"
      /\ UNCHANGED <<disk, current, recorded, target, todo, turn, began, strayed, disturbed>>
  BY DEF IInv, RestoreEnds, turnHistory
<1>b. /\ DOMAIN groups' \subseteq DOMAIN groups
      /\ \A s \in DOMAIN groups' : /\ groups[s] \in Group
                                   /\ groups'[s] \in {groups[s]} \cup Remains(groups[s])
      /\ DOMAIN past' = DOMAIN groups' /\ \A s \in DOMAIN groups' : past'[s] = past[s]
      /\ faults' = faults \/ (faults < MaxFaults /\ faults' = faults + 1)
  <2>1. \A s \in DOMAIN groups : groups[s] \in Group
    BY <1>a DEF TypeOK
  <2> QED BY <2>1, RestoreRemoves, Zenon
<1>c. InTurn' <=> InTurn
  BY <1>a DEF InTurn, TypeOK
<1>d. \A s \in DOMAIN groups' : /\ DOMAIN groups'[s].entries \subseteq DOMAIN groups[s].entries
                                /\ DOMAIN groups'[s].blobs \subseteq DOMAIN groups[s].blobs
                                /\ \A f \in DOMAIN groups'[s].entries : groups'[s].entries[f] = groups[s].entries[f]
                                /\ \A f \in DOMAIN groups'[s].blobs : groups'[s].blobs[f] = groups[s].blobs[f]
  BY <1>b, PartsOfRemains, EmptyHasNone
<1>1. TypeOK'
  <2>1. \A s \in DOMAIN groups' : groups'[s] \in Group
    BY <1>b, MadeGroups
  <2>2. pc' \notin {"open", "copy", "meta"} /\ (pc' = "edit" => target \in Files)
    BY <1>a DEF TypeOK, Phases
  <2>3. faults' \in 0..MaxFaults
    BY <1>a, <1>b DEF TypeOK
  <2> QED BY <1>a, <1>b, <2>1, <2>2, <2>3 DEF TypeOK
<1>2. Phases'
  BY <1>a, <1>c DEF Phases, TypeOK
<1>3. NumbersGrow'
  BY <1>a, <1>b, <1>c DEF NumbersGrow
<1>4. UntouchedAsBefore'
  BY <1>a, <1>c DEF UntouchedAsBefore, Settled, TypeOK
<1>5. GroupOfTheTurn'
  BY <1>a, <1>b, <1>c, <1>d DEF GroupOfTheTurn, Settled, TypeOK
<1>6. CopiesAreMade'
  BY <1>a, <1>c DEF CopiesAreMade, Phases, InTurn
<1>7. GroupsTellThePast'
  BY <1>a, <1>b, <1>d DEF GroupsTellThePast, Tells
<1>8. RestoredSoFar'
  BY <1>a DEF RestoredSoFar, TypeOK
<1> QED BY <1>1, <1>2, <1>3, <1>4, <1>5, <1>6, <1>7, <1>8 DEF IInv

LEMMA InvariantStep == IInv /\ [Next]_vars => IInv'
<1> SUFFICES ASSUME IInv, [Next]_vars PROVE IInv'
  OBVIOUS
<1>1. CASE UNCHANGED vars
  <2>1. UNCHANGED <<disk, groups, current, recorded, pc, target, todo, back, turn, began, strayed, disturbed, past, faults>>
    BY <1>1 DEF vars, turnHistory
  <2>2. InTurn' = InTurn /\ Settled' = Settled /\ WithMeta' = WithMeta /\ Latest' = Latest
    BY <2>1 DEF InTurn, Settled, WithMeta, Latest
  <2>3. TypeOK' /\ Phases' /\ NumbersGrow'
    BY <2>1, <2>2 DEF IInv, TypeOK, Phases, NumbersGrow
  <2>4. UntouchedAsBefore' /\ GroupOfTheTurn'
    BY <2>1, <2>2 DEF IInv, UntouchedAsBefore, GroupOfTheTurn
  <2>5. CopiesAreMade'
    BY <2>1, <2>2 DEF IInv, CopiesAreMade, BackedUp
  <2>6. GroupsTellThePast'
    BY <2>1, GroupsKept
  <2>7. RestoredSoFar'
    BY <2>1, <2>2 DEF IInv, RestoredSoFar, Restored
  <2> QED BY <2>3, <2>4, <2>5, <2>6, <2>7 DEF IInv
<1>2. CASE Next
  BY <1>1, <1>2, BeginTurnStep, EndTurnStep, OpenStep, CopyStep, WriteMetaStep, RewindStep, RestoreEndsStep,
     CrashStep, CallStep, RestoreEntryStep, OthersEditStep, EditStep, Zenon DEF Next, Done
<1> QED BY <1>1, <1>2

LEMMA InvariantHolds == Spec => []IInv
BY InitInvariant, InvariantStep, PTL DEF Spec

-----------------------------------------------------------------------------
\* Every variable has its type, the groups and what is remembered of them included.
THEOREM CheckpointsTypeCorrect == Spec => []TypeOK
<1>1. IInv => TypeOK
  BY DEF IInv
<1> QED BY <1>1, InvariantHolds, PTL

\* What the checkpointed tools have changed in the running turn can be taken back, for
\* any number of turns, files and groups that are kept (Undoable).
THEOREM UndoableCorrect == Spec => []Undoable
<1>1. IInv => Undoable
  <2> SUFFICES ASSUME IInv, pc = "turn", ~disturbed, NEW f \in Files \ strayed, disk[f] # began[f]
               PROVE  /\ current \in WithMeta /\ current = Latest
                      /\ groups[current].meta = "ok" /\ f \in DOMAIN groups[current].entries
                      /\ groups[current].entries[f] = (began[f] # Absent)
                      /\ began[f] # Absent => groups[current].blobs[f] = began[f]
    BY DEF Undoable
  <2>1. InTurn /\ f \in Settled
    BY DEF IInv, UntouchedAsBefore, InTurn
  <2>2. BackedUp(f) /\ current \in DOMAIN groups /\ current # NoGroup
    BY <2>1 DEF IInv, CopiesAreMade
  <2>3. current \in WithMeta
    BY <2>2 DEF BackedUp, WithMeta
  <2>4. \A s \in DOMAIN groups : s <= current
    BY <2>1, <2>2 DEF IInv, NumbersGrow
  <2>5. Latest \in WithMeta /\ current <= Latest
    BY <2>3, LatestIsGreatest DEF IInv
  <2>6. current = Latest
    BY <2>4, <2>5, <2>2 DEF WithMeta, IInv, TypeOK
  <2> QED BY <2>2, <2>3, <2>6 DEF BackedUp
<1> QED BY <1>1, InvariantHolds, PTL

-----------------------------------------------------------------------------
\* Only three steps are taken from within a restore.
LEMMA StepOfRestore ==
    ASSUME IInv, Next, pc = "restore"
    PROVE  \/ RestoreEnds
           \/ UNCHANGED groups /\ (todo = {} => UNCHANGED disk)
<1>1. CASE Crash
  BY <1>1 DEF Crash
<1>2. CASE \E f \in Files : RestoreEntry(f)
  BY <1>2 DEF RestoreEntry
<1> QED BY <1>1, <1>2 DEF Next, BeginTurn, EndTurn, Open, Copy, WriteMeta, Rewind, Done, Call, OthersEdit, Edit

\* Repeated rewinds step further back (RewindStepsBack).
THEOREM RewindStepsBackCorrect == Spec => RewindStepsBack
<1>1. IInv /\ [Next]_vars =>
        [pc = "restore" /\ Latest \notin DOMAIN groups' => \A s \in WithMeta' : past[s].turn < past[Latest].turn]_vars
  <2> SUFFICES ASSUME IInv, Next, pc = "restore", Latest \notin DOMAIN groups', NEW s \in WithMeta'
               PROVE  past[s].turn < past[Latest].turn
    OBVIOUS
  <2>1. Latest \in DOMAIN groups /\ \A t \in WithMeta : t <= Latest
    BY RestoreHasLatest
  <2>2. RestoreEnds
    BY <2>1, StepOfRestore
  <2>3. s \in DOMAIN groups' /\ s # Latest /\ groups'[s] = groups[s] /\ s \in DOMAIN groups
    BY <2>2, RestoreRemoves DEF WithMeta
  <2>4. s \in WithMeta
    BY <2>3 DEF WithMeta
  <2>5. s \in Nat /\ Latest \in Nat
    BY <2>1, <2>3 DEF IInv, TypeOK
  <2>6. s < Latest
    BY <2>1, <2>3, <2>4, <2>5
  <2> QED BY <2>1, <2>3, <2>6 DEF IInv, NumbersGrow
<1> QED BY <1>1, InvariantHolds, PTL DEF Spec, RewindStepsBack

\* A rewind that comes to its end has put every file of the checkpoint back, after any
\* number of crashed attempts (RewindRestores).
THEOREM RewindRestoresCorrect == Spec => RewindRestores
<1>1. IInv /\ [Next]_vars =>
        [pc = "restore" /\ todo = {} =>
           LET g == groups[Latest]
           IN \A f \in DOMAIN g.entries :
                \/ past[Latest].was[f] \in {Unknown, disk'[f]}
                \/ f \in past[Latest].lost
                \/ g.entries[f] /\ f \notin DOMAIN g.blobs]_vars
  <2> SUFFICES ASSUME IInv, Next, pc = "restore", todo = {}, NEW f \in DOMAIN groups[Latest].entries
               PROVE  \/ past[Latest].was[f] \in {Unknown, disk'[f]}
                      \/ f \in past[Latest].lost
                      \/ groups[Latest].entries[f] /\ f \notin DOMAIN groups[Latest].blobs
    BY Zenon
  <2>1. Latest \in DOMAIN groups
    BY RestoreHasLatest
  <2>2. disk'[f] = disk[f]
    BY StepOfRestore DEF RestoreEnds
  <2>3. disk[f] = Restored(f)
    BY DEF IInv, RestoredSoFar
  <2>4. Tells(Latest, f)
    BY <2>1 DEF IInv, GroupsTellThePast
  <2> QED BY <2>2, <2>3, <2>4 DEF Tells, Restored
<1> QED BY <1>1, InvariantHolds, PTL DEF Spec, RewindRestores
=============================================================================
