------------------------- MODULE PlaylistStore_proofs -------------------------
(***************************************************************************)
(* Proofs about PlaylistStore, for any number of playlists, names, clients *)
(* and versions.                                                           *)
(*                                                                         *)
(* Each action is first shown to keep the types.  Then the two invariants  *)
(* that the runs check, and the steps of PlaylistVault, are proved from    *)
(* the types and from what is free: Fresh says that nothing is left of an  *)
(* id that was not issued yet, in memory or on disk.                       *)
(***************************************************************************)
EXTENDS PlaylistStore, TLAPS, FiniteSetTheorems, WellFoundedInduction

-----------------------------------------------------------------------------
(* The invariants.                                                         *)

(* Nothing has an id that was not issued yet.                              *)
Fresh ==
  phase # "down" =>
    \A i \in Id : i >= lastId =>
      /\ i \notin live /\ \A c \in Client : holders[c][i] = 0
      /\ disk[i] = NoFile /\ tmp[i] \notin Rec

(* A client knows of the holds the daemon knows of.                        *)
Believed ==
  phase = "up" =>
    \A i \in live : \A c \in Client : holders[c][i] <= claims[c][i]

(* Only an exit has playlists left to save.                                *)
NoneLeft == phase # "saving" => left = {}

Typed == TypeOK /\ Fresh /\ Believed /\ NoneLeft

(* The names are one to one with the playlists.                            *)
OneToOne ==
  /\ \A i \in live : byName[name[i]] = i
  /\ \A n \in Name : FreeName(n) \/ (byName[n] \in live /\ name[byName[n]] = n)

(* While nothing was torn the files are those of the playlists, one each,  *)
(* and those that are not running are saved.                               *)
Whole ==
  ~torn =>
    /\ OneToOne
    /\ \A i \in Id : tmp[i] = NoFile /\ (i \notin live => disk[i] = NoFile)
    /\ phase = "saving" => \A i \in live \ left : disk[i] = Saved(i)
    /\ phase = "down" => \A i \in live : disk[i] = Saved(i)

Counted == phase = "up" /\ ~stale => \A i \in live : use[i] = Holds(i)
-----------------------------------------------------------------------------
(* Types.                                                                  *)

LEMMA Names == AnyName \in Name
BY ValueAssumption DEF AnyName

LEMMA Sizes ==
  MaxId \in Nat /\ MaxRev \in Nat /\ MaxHold \in Nat /\ UseMod \in Nat \ {0}
BY SizeAssumption

LEMMA RemainderTyped ==
  ASSUME NEW n \in Int PROVE Unsigned(n) \in 0 .. UseMod - 1
BY SizeAssumption DEF Unsigned

LEMMA SmallRemainder ==
  ASSUME NEW n \in 0 .. UseMod - 1 PROVE Unsigned(n) = n
BY SizeAssumption DEF Unsigned

LEMMA SavedTyped == ASSUME TypeOK, NEW i \in Id PROVE Saved(i) \in Rec
BY DEF TypeOK, Saved, Rec

(* A nonempty set of ids has a greatest one.                               *)
LEMMA GreatestId ==
  ASSUME NEW n \in Nat, NEW S \in SUBSET (1 .. n), S # {}
  PROVE  \E m \in S : \A k \in S : k <= m
<1> DEFINE T == {n - m : m \in S}
<1>1. T \subseteq Nat /\ T # {}
  <2>1. \A m \in S : m \in Int /\ n - m \in Nat
    OBVIOUS
  <2> QED BY <2>1
<1>2. \E t \in T : \A u \in T : <<u, t>> \notin OpToRel(<, Nat)
  BY <1>1, WFMin, NatLessThanWellFounded
<1>3. PICK t \in T : \A u \in T : ~ (u < t)
  BY <1>1, <1>2 DEF OpToRel
<1>4. PICK m \in S : t = n - m
  OBVIOUS
<1>5. \A k \in S : k <= m
  BY <1>3, <1>4
<1> QED
  BY <1>5

LEMMA BoundTyped ==
  ASSUME TypeOK
  PROVE  bound.ids \in 1 .. MaxId /\ bound.revs \in 0 .. MaxRev
BY SizeAssumption DEF TypeOK


LEMMA InitTyped == Init => Typed
<1> SUFFICES ASSUME Init PROVE Typed
  OBVIOUS
<1>1. ZeroHolds \in [Client -> [Id -> 0 .. MaxHold]]
  BY Sizes DEF ZeroHolds
<1>2. TypeOK
  <2>1. /\ 1 \in 1 .. MaxId + 1 /\ 0 \in 0 .. MaxRev
        /\ 0 \in 0 .. UseMod - 1
    BY Sizes
  <2> QED BY <1>1, <2>1, Names DEF Init, TypeOK
<1>3. Fresh
  BY ValueAssumption DEF Init, Fresh, ZeroHolds
<1>4. Believed /\ NoneLeft
  BY DEF Init, Believed, NoneLeft
<1> QED BY <1>2, <1>3, <1>4 DEF Typed

LEMMA MadeTyped ==
  ASSUME Typed, NEW n \in Name, Made(n), phase = "up", UNCHANGED bound
  PROVE  Typed'
<1>1. lastId \in Id
  <2>1. lastId \in 1 .. MaxId + 1 /\ lastId <= bound.ids
    BY DEF Typed, TypeOK, Made
  <2>2. bound.ids \in 1 .. MaxId
    BY BoundTyped DEF Typed
  <2> QED BY <2>1, <2>2, Sizes DEF Id
<1>2. TypeOK'
  <2>1. lastId + 1 \in 1 .. MaxId + 1
    BY <1>1, Sizes DEF Id
  <2> QED BY <1>1, <2>1, Sizes DEF Typed, TypeOK, Made, Dirtied
<1>3. Fresh'
  BY <1>1 DEF Typed, TypeOK, Made, Fresh, Id
<1>4. Believed' /\ NoneLeft'
  <2>1. \A c \in Client : holders[c][lastId] = 0 /\ claims[c][lastId] \in Nat
    BY <1>1, Sizes DEF Typed, TypeOK, Fresh, Id
  <2> QED BY <2>1 DEF Typed, Made, Believed, NoneLeft
<1> QED BY <1>2, <1>3, <1>4 DEF Typed

LEMMA EditTyped ==
  ASSUME Typed, NEW i \in Id, Edit(i), UNCHANGED bound PROVE Typed'
<1>1. rev[i] + 1 \in 0 .. MaxRev
  BY BoundTyped, Sizes DEF Typed, TypeOK, Edit
<1>2. TypeOK'
  BY <1>1, Sizes DEF Typed, TypeOK, Edit, Dirtied
<1>3. Fresh' /\ Believed' /\ NoneLeft'
  BY DEF Typed, Edit, Fresh, Believed, NoneLeft
<1> QED BY <1>2, <1>3 DEF Typed

LEMMA RenameTyped ==
  ASSUME Typed, NEW i \in Id, NEW n \in Name, Rename(i, n), UNCHANGED bound
  PROVE  Typed'
<1>1. rev[i] + 1 \in 0 .. MaxRev
  BY BoundTyped, Sizes DEF Typed, TypeOK, Rename
<1>2. phase' \in {"up", "down"} /\ torn' \in BOOLEAN
      /\ byName' \in [Name -> Id \cup {0, Dangling}]
  BY DEF Typed, TypeOK, Rename, Renamed
<1>3. TypeOK'
  BY <1>1, <1>2, Sizes DEF Typed, TypeOK, Rename, Dirtied
<1>4. Fresh' /\ Believed' /\ NoneLeft'
  BY DEF Typed, Rename, Fresh, Believed, NoneLeft
<1> QED BY <1>3, <1>4 DEF Typed

LEMMA DestroyTyped ==
  ASSUME Typed, NEW i \in Id, Destroy(i), UNCHANGED bound PROVE Typed'
<1>1. left = {} BY DEF Typed, NoneLeft, Destroy
<1>2. TypeOK'
  BY <1>1 DEF Typed, TypeOK, Destroy, Unlinked
<1>3. Fresh' /\ Believed' /\ NoneLeft'
  BY <1>1 DEF Typed, TypeOK, Destroy, Unlinked, Fresh, Believed, NoneLeft
<1> QED BY <1>2, <1>3 DEF Typed

LEMMA IncrementTyped ==
  ASSUME Typed, NEW c \in Client, NEW i \in Id, Increment(c, i),
         UNCHANGED bound
  PROVE  Typed'
<1>1. /\ claims[c][i] \in 0 .. MaxHold - 1 /\ holders[c][i] <= claims[c][i]
      /\ holders[c][i] \in 0 .. MaxHold
  BY Sizes DEF Typed, TypeOK, Believed, Increment
<1>2. /\ claims[c][i] + 1 \in 0 .. MaxHold
      /\ holders[c][i] + 1 \in 0 .. MaxHold
  BY <1>1, Sizes
<1>3. Unsigned(use[i] + 1) \in 0 .. UseMod - 1
  BY RemainderTyped, Sizes DEF Typed, TypeOK
<1>4. TypeOK'
  BY <1>2, <1>3 DEF Typed, TypeOK, Increment, Dirtied
<1>5. Fresh'
  BY DEF Typed, TypeOK, Increment, Fresh, Id
<1>6. Believed' /\ NoneLeft'
  BY <1>1 DEF Typed, TypeOK, Increment, Believed, NoneLeft
<1> QED BY <1>4, <1>5, <1>6 DEF Typed

LEMMA DecrementTyped ==
  ASSUME Typed, NEW c \in Client, NEW i \in Id, Decrement(c, i),
         UNCHANGED bound
  PROVE  Typed'
<1>1. /\ claims[c][i] \in 1 .. MaxHold /\ holders[c][i] <= claims[c][i]
      /\ holders[c][i] \in 0 .. MaxHold
  BY Sizes DEF Typed, TypeOK, Believed, Decrement
<1> DEFINE h == IF holders[c][i] > 0 THEN holders[c][i] - 1 ELSE 0
<1>2. claims[c][i] - 1 \in 0 .. MaxHold /\ h \in 0 .. MaxHold
      /\ h <= claims[c][i] - 1
  BY <1>1, Sizes
<1>3. Unsigned(use[i] - 1) \in 0 .. UseMod - 1
  BY RemainderTyped, Sizes DEF Typed, TypeOK
<1>4. holders' = [holders EXCEPT ![c][i] = h]
  BY DEF Decrement
<1>5. TypeOK'
  BY <1>2, <1>3, <1>4 DEF Typed, TypeOK, Decrement, Dirtied
<1>6. Fresh'
  BY <1>4 DEF Typed, TypeOK, Decrement, Fresh, Id
<1>7. Believed' /\ NoneLeft'
  BY <1>2, <1>4 DEF Typed, TypeOK, Decrement, Believed, NoneLeft
<1> QED BY <1>5, <1>6, <1>7 DEF Typed

LEMMA DecrementUnknownTyped ==
  ASSUME Typed, NEW c \in Client, NEW i \in Id, DecrementUnknown(c, i),
         UNCHANGED bound
  PROVE  Typed'
<1>1. claims[c][i] - 1 \in 0 .. MaxHold
  BY Sizes DEF Typed, TypeOK, DecrementUnknown
<1>2. TypeOK'
  BY <1>1 DEF Typed, TypeOK, DecrementUnknown, memory, files
<1>3. Fresh' /\ Believed' /\ NoneLeft'
  BY DEF Typed, TypeOK, DecrementUnknown, memory, files, Fresh, Believed,
         NoneLeft
<1> QED BY <1>2, <1>3 DEF Typed

LEMMA ClientDiesTyped ==
  ASSUME Typed, NEW c \in Client, ClientDies(c), UNCHANGED bound
  PROVE  Typed'
<1>1. 0 \in 0 .. MaxHold BY Sizes
<1>2. \A i \in Id : Unsigned(WithoutHolds(c, i)) \in 0 .. UseMod - 1
  BY RemainderTyped, Sizes DEF Typed, TypeOK, WithoutHolds
<1>3. CASE phase = "up"
  <2> DEFINE mine == {i \in live : holders[c][i] > 0}
  <2>1. /\ use' = [i \in Id |-> IF i \in mine
                                THEN Unsigned(WithoutHolds(c, i)) ELSE use[i]]
        /\ holders' = [holders EXCEPT ![c] = [i \in Id |-> 0]]
        /\ dirty' = dirty \cup mine /\ timer' = timer \cup mine
        /\ due' = due \ mine
    BY <1>3 DEF ClientDies, Dirtied
  <2>2. TypeOK'
    BY <1>1, <1>2, <2>1 DEF Typed, TypeOK, ClientDies, files
  <2>3. Fresh' /\ Believed' /\ NoneLeft'
    BY <1>3, <2>1 DEF Typed, TypeOK, ClientDies, Fresh, Believed, NoneLeft,
                      files
  <2> QED BY <2>2, <2>3 DEF Typed
<1>4. CASE phase # "up"
  <2>1. TypeOK'
    BY <1>1, <1>4 DEF Typed, TypeOK, ClientDies, files
  <2>2. Fresh' /\ Believed' /\ NoneLeft'
    BY <1>4 DEF Typed, ClientDies, Fresh, Believed, NoneLeft, files
  <2> QED BY <2>1, <2>2 DEF Typed
<1> QED BY <1>3, <1>4

(* Whatever becomes of a save, it leaves files, and none of a free id.     *)
LEMMA SavingTyped ==
  ASSUME Typed, NEW i \in live, SaveFails(i) \/ Interrupted(i) \/ SaveOk(i)
  PROVE  /\ disk' \in [Id -> Rec \cup {NoFile}]
         /\ tmp' \in [Id -> Rec \cup {NoFile, Empty}]
         /\ \A j \in Id \ {i} : disk'[j] = disk[j] /\ tmp'[j] = tmp[j]
<1>1. i \in Id /\ Saved(i) \in Rec
  BY SavedTyped DEF Typed, TypeOK
<1>2. /\ disk \in [Id -> Rec \cup {NoFile}]
      /\ tmp \in [Id -> Rec \cup {NoFile, Empty}]
  BY DEF Typed, TypeOK
<1>3. CASE UNCHANGED files
  BY <1>2, <1>3 DEF files
<1>4. CASE \E v \in Rec \cup {NoFile, Empty} :
             tmp' = [tmp EXCEPT ![i] = v] /\ UNCHANGED disk
  BY <1>1, <1>2, <1>4
<1>5. CASE SaveOk(i)
  BY <1>1, <1>2, <1>5 DEF SaveOk
<1> QED
  BY <1>1, <1>3, <1>4, <1>5 DEF SaveFails, OpenFails, WriteFails,
                                RenameFails, Interrupted

LEMMA SettleTyped ==
  ASSUME Typed, NEW i \in Id, Settle(i) \/ SettleFails(i), UNCHANGED bound
  PROVE  Typed'
<1>1. i \in live /\ phase = "up"
  BY DEF Typed, TypeOK, Settle, SettleFails
<1>2. /\ disk' \in [Id -> Rec \cup {NoFile}]
      /\ tmp' \in [Id -> Rec \cup {NoFile, Empty}]
      /\ \A j \in Id \ {i} : disk'[j] = disk[j] /\ tmp'[j] = tmp[j]
  BY <1>1, SavingTyped DEF Settle, SettleFails
<1>3. /\ UNCHANGED <<phase, live, name, rev, byName, lastId, use, holders,
                     claims, left, stale, bound>>
      /\ dirty' \subseteq dirty /\ timer' \subseteq timer
      /\ due' = due \ {i} /\ timer \ {i} \subseteq timer'
      /\ torn' \in BOOLEAN
  BY DEF Settle, SettleFails, memory, Typed, TypeOK
<1>4. TypeOK'
  BY <1>2, <1>3 DEF Typed, TypeOK
<1>5. Fresh' /\ Believed' /\ NoneLeft'
  BY <1>1, <1>2, <1>3 DEF Typed, Fresh, Believed, NoneLeft
<1> QED BY <1>4, <1>5 DEF Typed

LEMMA TimeIsOverTyped ==
  ASSUME Typed, NEW i \in Id, TimeIsOver(i), UNCHANGED bound PROVE Typed'
BY DEF Typed, TypeOK, TimeIsOver, Fresh, Believed, NoneLeft

LEMMA SaveAtExitTyped ==
  ASSUME Typed, NEW i \in Id, SaveAtExit(i), UNCHANGED bound PROVE Typed'
<1>1. i \in live /\ phase = "saving"
  BY DEF Typed, TypeOK, SaveAtExit
<1>2. /\ disk' \in [Id -> Rec \cup {NoFile}]
      /\ tmp' \in [Id -> Rec \cup {NoFile, Empty}]
      /\ \A j \in Id \ {i} : disk'[j] = disk[j] /\ tmp'[j] = tmp[j]
  BY <1>1, SavingTyped DEF SaveAtExit
<1>3. UNCHANGED <<phase, memory, claims, stale, bound>>
      /\ left' = left \ {i} /\ torn' \in BOOLEAN
  BY DEF SaveAtExit, Typed, TypeOK
<1>4. TypeOK'
  BY <1>2, <1>3 DEF Typed, TypeOK, memory
<1>5. Fresh' /\ Believed' /\ NoneLeft'
  BY <1>1, <1>2, <1>3 DEF Typed, Fresh, Believed, NoneLeft, memory
<1> QED BY <1>4, <1>5 DEF Typed

(* The end of the main loop and of the daemon.                             *)
LEMMA EndsTyped ==
  ASSUME Typed, Terminate \/ Exit \/ Crash, UNCHANGED bound PROVE Typed'
<1>1. CASE Terminate
  BY <1>1 DEF Typed, TypeOK, Fresh, Believed, NoneLeft, Terminate, memory,
              files
<1>2. CASE Exit
  BY <1>2 DEF Typed, TypeOK, Fresh, Believed, NoneLeft, Exit, memory, files
<1>3. CASE Crash
  <2>1. torn' \in BOOLEAN BY <1>3 DEF Crash, Dies, Typed, TypeOK
  <2> QED
    BY <1>3, <2>1 DEF Typed, TypeOK, Fresh, Believed, NoneLeft, Crash, Dies,
                memory, files
<1> QED BY <1>1, <1>2, <1>3

LEMMA CrashInSaveTyped ==
  ASSUME Typed, NEW i \in Id, CrashInSave(i), UNCHANGED bound PROVE Typed'
<1>1. i \in live
  BY DEF Typed, TypeOK, CrashInSave
<1>2. /\ disk' \in [Id -> Rec \cup {NoFile}]
      /\ tmp' \in [Id -> Rec \cup {NoFile, Empty}]
  BY <1>1, SavingTyped DEF CrashInSave
<1>3. /\ UNCHANGED <<memory, claims, stale, bound>>
      /\ phase' = "down" /\ left' = {} /\ torn' = TRUE
  BY DEF CrashInSave, Dies, Typed, TypeOK
<1>4. TypeOK'
  BY <1>2, <1>3 DEF Typed, TypeOK, memory
<1>5. Fresh' /\ Believed' /\ NoneLeft'
  BY <1>3 DEF Fresh, Believed, NoneLeft
<1> QED BY <1>4, <1>5 DEF Typed

-----------------------------------------------------------------------------
(* What a start finds.                                                     *)

(* The last of some files in the directory's order is one of them.         *)
LEMMA LastOfIsOne ==
  ASSUME NEW n \in Nat, NEW S, NEW place \in [S -> 1 .. n],
         NEW F \in SUBSET S, F # {}
  PROVE  LastOf(F, place) \in F
<1> DEFINE P == {place[f] : f \in F}
<1>1. P \in SUBSET (1 .. n) /\ P # {}
  OBVIOUS
<1>2. PICK m \in P : \A k \in P : k <= m
  BY <1>1, GreatestId
<1>3. \E f \in F : \A g \in F : place[g] <= place[f]
  BY <1>2
<1> QED BY <1>3, Zenon DEF LastOf

LEMMA NextIdFree ==
  ASSUME NEW S \in SUBSET Id
  PROVE  NextId(S) \in 1 .. MaxId + 1 /\ \A i \in S : i < NextId(S)
<1>1. CASE S = {}
  BY <1>1, Sizes DEF NextId
<1>2. CASE S # {}
  <2> DEFINE m == CHOOSE i \in S : \A j \in S : j <= i
  <2>1. \E i \in S : \A j \in S : j <= i
    BY <1>2, Sizes, GreatestId DEF Id
  <2>2. m \in S /\ \A j \in S : j <= m
    BY <2>1, Zenon
  <2>3. NextId(S) = 1 + m
    BY <1>2 DEF NextId
  <2> HIDE DEF m
  <2> QED BY <2>2, <2>3, Sizes DEF Id
<1> QED BY <1>1, <1>2

LEMMA FewLoadable ==
  IsFiniteSet(Loadable) /\ Cardinality(Loadable) \in Nat
<1>1. IsFiniteSet(Id)
  BY FS_Interval, Sizes DEF Id
<1>2. IsFiniteSet({"file", "tmp"})
  <2>1. IsFiniteSet({"file"}) BY FS_Singleton
  <2>2. IsFiniteSet({"file"} \cup {"tmp"}) BY <2>1, FS_AddElement
  <2>3. {"file", "tmp"} = {"file"} \cup {"tmp"}
    OBVIOUS
  <2> QED BY <2>2, <2>3
<1>3. IsFiniteSet(Id \X {"file", "tmp"})
  BY <1>1, <1>2, FS_Product
<1>4. Loadable \in SUBSET (Id \X {"file", "tmp"})
  BY DEF Loadable
<1> QED BY <1>3, <1>4, FS_Subset, FS_CardinalityType

(* What a start takes, in names: the ids of the files, of each id the last *)
(* file, of each name the last one with it.                                *)
Ids == {f[1] : f \in Loadable}
FilesOf(i) == {f \in Loadable : f[1] = i}
Win(place) == [i \in Ids |-> LastOf(FilesOf(i), place)]
NamedBy(n) == {f \in Loadable : Content(f).name = n}
Found(n, place) ==
  IF NamedBy(n) = {} THEN 0
  ELSE IF Win(place)[LastOf(NamedBy(n), place)[1]] = LastOf(NamedBy(n), place)
       THEN LastOf(NamedBy(n), place)[1] ELSE Dangling

LEMMA StartLoads ==
  ASSUME Start
  PROVE  \E place \in [Loadable -> 1 .. Cardinality(Loadable)] :
           /\ live' = Ids /\ lastId' = NextId(Ids) /\ dirty' = Ids
           /\ name' = [i \in Id |-> IF i \in Ids
                                    THEN Content(Win(place)[i]).name
                                    ELSE AnyName]
           /\ rev'  = [i \in Id |-> IF i \in Ids
                                    THEN Content(Win(place)[i]).rev ELSE 0]
           /\ byName' = [n \in Name |-> Found(n, place)]
BY Zenon DEF Start, Ids, FilesOf, Win, NamedBy, Found

LEMMA IdsAreIds == Ids \in SUBSET Id
BY DEF Ids, Loadable

LEMMA WinOfId ==
  ASSUME NEW place \in [Loadable -> 1 .. Cardinality(Loadable)], NEW i \in Ids
  PROVE  Win(place)[i] \in FilesOf(i)
<1>1. FilesOf(i) \in SUBSET Loadable /\ FilesOf(i) # {}
  BY DEF FilesOf, Ids
<1>2. LastOf(FilesOf(i), place) \in FilesOf(i)
  BY <1>1, LastOfIsOne, FewLoadable
<1> QED BY <1>2 DEF Win

LEMMA StartTyped ==
  ASSUME Typed, Start, UNCHANGED bound PROVE Typed'
<1>1. PICK place \in [Loadable -> 1 .. Cardinality(Loadable)] :
           /\ live' = Ids /\ lastId' = NextId(Ids) /\ dirty' = Ids
           /\ name' = [i \in Id |-> IF i \in Ids
                                    THEN Content(Win(place)[i]).name
                                    ELSE AnyName]
           /\ rev'  = [i \in Id |-> IF i \in Ids
                                    THEN Content(Win(place)[i]).rev ELSE 0]
           /\ byName' = [n \in Name |-> Found(n, place)]
  BY StartLoads
<1>2. /\ phase' = "up" /\ timer' = {} /\ due' = {}
      /\ use' = [i \in Id |-> 0]
      /\ holders' = ZeroHolds
      /\ UNCHANGED <<claims, left, disk, tmp, torn, stale>>
  BY DEF Start, files
<1>3. left = {}
  BY DEF Typed, NoneLeft, Start
<1>4. \A i \in Ids : Content(Win(place)[i]) \in Rec
  BY WinOfId DEF FilesOf, Loadable
<1>5. name' \in [Id -> Name] /\ rev' \in [Id -> 0 .. MaxRev]
  <2>1. \A i \in Ids : /\ Content(Win(place)[i]).name \in Name
                       /\ Content(Win(place)[i]).rev \in 0 .. MaxRev
    BY <1>4 DEF Rec
  <2> QED BY <1>1, <2>1, Names, Sizes
<1>6. \A n \in Name : Found(n, place) \in Id \cup {0, Dangling}
  <2> TAKE n \in Name
  <2>1. CASE NamedBy(n) = {}
    BY <2>1 DEF Found
  <2>2. CASE NamedBy(n) # {}
    <3>1. NamedBy(n) \in SUBSET Loadable
      BY DEF NamedBy
    <3>2. LastOf(NamedBy(n), place) \in NamedBy(n)
      BY <2>2, <3>1, LastOfIsOne, FewLoadable
    <3>3. LastOf(NamedBy(n), place)[1] \in Id
      BY <3>1, <3>2 DEF Loadable
    <3> QED BY <2>2, <3>3 DEF Found
  <2> QED BY <2>1, <2>2
<1>7. lastId' \in 1 .. MaxId + 1 /\ \A i \in Ids : i < lastId'
  BY <1>1, NextIdFree, IdsAreIds
<1>8. ZeroHolds \in [Client -> [Id -> 0 .. MaxHold]]
  BY Sizes DEF ZeroHolds
<1>9. TypeOK'
  <2>1. 0 \in 0 .. UseMod - 1 BY Sizes
  <2> QED
    BY <1>1, <1>2, <1>3, <1>5, <1>6, <1>7, <1>8, <2>1, IdsAreIds
    DEF Typed, TypeOK
<1>10. Fresh'
  <2> SUFFICES ASSUME NEW i \in Id, i >= lastId'
               PROVE  /\ i \notin live' /\ disk'[i] = NoFile
                      /\ tmp'[i] \notin Rec
                      /\ \A c \in Client : holders'[c][i] = 0
    BY DEF Fresh
  <2>1. i \notin Ids
    BY <1>7, Sizes DEF Id
  <2>2. <<i, "file">> \notin Loadable /\ <<i, "tmp">> \notin Loadable
    BY <2>1 DEF Ids
  <2>3. disk[i] \notin Rec /\ tmp[i] \notin Rec
    BY <2>2 DEF Loadable, Content
  <2> QED
    BY <1>1, <1>2, <2>1, <2>3 DEF ZeroHolds, Typed, TypeOK
<1>11. Believed' /\ NoneLeft'
  BY <1>1, <1>2, <1>3, IdsAreIds, Sizes
  DEF Typed, TypeOK, Believed, NoneLeft, ZeroHolds
<1> QED BY <1>9, <1>10, <1>11 DEF Typed

LEMMA NextTyped == Typed /\ [Next]_vars => Typed'
<1> SUFFICES ASSUME Typed, [Next]_vars PROVE Typed'
  OBVIOUS
<1>1. CASE UNCHANGED vars
  BY <1>1 DEF vars, Typed, TypeOK, Fresh, Believed, NoneLeft
<1>2. CASE UNCHANGED bound /\ Request
  BY <1>2, MadeTyped, EditTyped, DestroyTyped, RenameTyped
  DEF Request, Create, Dup
<1>3. CASE UNCHANGED bound /\ Holding
  BY <1>3, IncrementTyped, DecrementTyped, DecrementUnknownTyped,
     ClientDiesTyped DEF Holding
<1>4. CASE UNCHANGED bound /\ Saving
  BY <1>4, TimeIsOverTyped, SettleTyped, SaveAtExitTyped, EndsTyped DEF Saving
<1>5. CASE UNCHANGED bound /\ Faults
  BY <1>5, EndsTyped, CrashInSaveTyped DEF Faults
<1>6. CASE UNCHANGED bound /\ Start
  BY <1>6, StartTyped
<1> QED BY <1>1, <1>2, <1>3, <1>4, <1>5, <1>6 DEF Next

LEMMA AlwaysTyped == Spec => []Typed
<1>1. Init => Typed BY InitTyped
<1>2. Typed /\ [Next]_vars => Typed' BY NextTyped
<1> QED BY <1>1, <1>2, PTL DEF Spec

(* Type correctness of the playlists in memory and of the files: whatever  *)
(* is torn, lost or loaded again, ids stay in range and files hold a       *)
(* playlist or nothing.                                                    *)
THEOREM TypeCorrect == Spec => []TypeOK
<1>1. Typed => TypeOK BY DEF Typed
<1> QED BY <1>1, AlwaysTyped, PTL

-----------------------------------------------------------------------------
(* Names.                                                                  *)

LEMMA MadeWhole ==
  ASSUME Typed, Whole, NEW n \in Name, phase = "up", FreeName(n), Made(n)
  PROVE  Whole'
<1>1. lastId \in Id /\ lastId \notin live
  <2>1. lastId \in 1 .. MaxId + 1 /\ lastId <= bound.ids
    BY DEF Typed, TypeOK, Made
  <2>2. bound.ids \in 1 .. MaxId
    BY BoundTyped DEF Typed
  <2> QED BY <2>1, <2>2, Sizes DEF Id, Typed, Fresh
<1>2. lastId # 0
  BY <1>1, Sizes DEF Id
<1> SUFFICES ASSUME ~torn PROVE Whole'
  BY DEF Whole, Made
<1>3. OneToOne
  BY DEF Whole
<1>4. OneToOne'
  <2>1. \A i \in live' : byName'[name'[i]] = i
    BY <1>1, <1>3 DEF OneToOne, Made, Typed, TypeOK, FreeName, Id
  <2>2. \A m \in Name :
          byName'[m] = 0 \/ (byName'[m] \in live' /\ name'[byName'[m]] = m)
    BY <1>1, <1>2, <1>3 DEF OneToOne, Made, Typed, TypeOK, FreeName
  <2> QED BY <2>1, <2>2 DEF OneToOne, FreeName
<1> QED BY <1>1, <1>4 DEF Whole, Made

LEMMA RenameWhole ==
  ASSUME Typed, Whole, NEW i \in Id, NEW n \in Name, Rename(i, n)
  PROVE  Whole'
<1> SUFFICES ASSUME ~torn' PROVE Whole'
  BY DEF Whole
<1>1. ~torn /\ ~ FreeName(name[i]) /\ phase' = phase /\ byName' = Renamed(i, n)
  BY DEF Rename
<1>2. OneToOne /\ byName[name[i]] = i /\ name[i] # n /\ i # 0
  BY <1>1, Sizes DEF Whole, OneToOne, Rename, Id
<1>3. \A m \in Name : byName'[m] = IF m = name[i] THEN 0
                                   ELSE IF m = n THEN i ELSE byName[m]
  BY <1>1, <1>2 DEF Renamed, Typed, TypeOK
<1>4. \A j \in Id : name'[j] = IF j = i THEN n ELSE name[j]
  BY DEF Rename, Typed, TypeOK
<1>5. live' = live /\ live \subseteq Id /\ i \in live
  BY DEF Rename, Typed, TypeOK
<1>6. \A j \in live' : byName'[name'[j]] = j
  <2> SUFFICES ASSUME NEW j \in live PROVE byName'[name'[j]] = j
    BY <1>5
  <2>1. name[j] \in Name /\ byName[name[j]] = j /\ j # 0 /\ j \in Id
    BY <1>2, <1>5, Sizes DEF OneToOne, Typed, TypeOK, Id
  <2>2. j # i => name[j] # name[i] /\ name[j] # n
    BY <1>2, <2>1 DEF Rename, FreeName
  <2> QED BY <1>2, <1>3, <1>4, <2>1, <2>2
<1>7. \A m \in Name :
        byName'[m] = 0 \/ (byName'[m] \in live' /\ name'[byName'[m]] = m)
  <2> SUFFICES ASSUME NEW m \in Name, byName'[m] # 0
               PROVE  byName'[m] \in live /\ name'[byName'[m]] = m
    BY <1>5
  <2>1. CASE m = n
    BY <1>2, <1>3, <1>4, <1>5, <2>1
  <2>2. CASE m # n
    <3>1. m # name[i] /\ byName'[m] = byName[m] /\ byName[m] # 0
      BY <1>3, <2>2
    <3>2. byName[m] \in live /\ name[byName[m]] = m
      BY <1>2, <3>1 DEF OneToOne, FreeName
    <3> QED BY <1>4, <1>5, <3>1, <3>2
  <2> QED BY <2>1, <2>2
<1>8. OneToOne'
  BY <1>6, <1>7 DEF OneToOne, FreeName
<1> QED BY <1>1, <1>8 DEF Whole, Rename

LEMMA DestroyWhole ==
  ASSUME Typed, Whole, NEW i \in Id, Destroy(i) PROVE Whole'
<1> SUFFICES ASSUME ~torn' PROVE Whole'
  BY DEF Whole
<1>1. /\ ~torn /\ phase' = phase /\ live' = live \ {i} /\ name' = name
      /\ byName' = [byName EXCEPT ![name[i]] = 0] /\ i \in live
  BY DEF Destroy, MayGo
<1>2. OneToOne /\ byName[name[i]] = i
  BY <1>1 DEF Whole, OneToOne
<1>3. \A m \in Name : byName'[m] = IF m = name[i] THEN 0 ELSE byName[m]
  BY <1>1 DEF Typed, TypeOK
<1>4. \A j \in live : name[j] \in Name
  BY DEF Typed, TypeOK
<1>5. \A j \in live' : byName'[name'[j]] = j
  BY <1>1, <1>2, <1>3, <1>4 DEF OneToOne
<1>6. \A m \in Name :
        byName'[m] = 0 \/ (byName'[m] \in live' /\ name'[byName'[m]] = m)
  BY <1>1, <1>2, <1>3 DEF OneToOne, FreeName
<1>7. OneToOne'
  BY <1>5, <1>6 DEF OneToOne, FreeName
<1>8. \A j \in Id : disk'[j] = IF j = i THEN NoFile ELSE disk[j]
  BY DEF Destroy, Unlinked, Typed, TypeOK
<1> QED BY <1>1, <1>7, <1>8 DEF Whole, Destroy

(* A save that tears nothing leaves no temporary file.                     *)
LEMMA SavingWhole ==
  ASSUME Typed, Whole, NEW i \in Id,
         Settle(i) \/ SettleFails(i) \/ SaveAtExit(i)
  PROVE  Whole'
<1> SUFFICES ASSUME ~torn' PROVE Whole'
  BY DEF Whole
<1>1. ~torn /\ UNCHANGED <<phase, live, name, rev, byName>> /\ i \in live
  BY DEF Settle, SettleFails, SaveAtExit, memory, Typed, TypeOK
<1>2. OneToOne'
  BY <1>1 DEF Whole, OneToOne, FreeName
<1>3. Saved(i) # NoFile /\ UNCHANGED Saved(i)
  BY <1>1, SavedTyped, ValueAssumption DEF Typed, Saved
<1>4. \/ SaveOk(i)
      \/ /\ phase = "up" /\ UNCHANGED disk
         /\ UNCHANGED tmp \/ tmp' = [tmp EXCEPT ![i] = NoFile]
  <2>1. CASE Settle(i)
    BY <2>1 DEF Settle
  <2>3. CASE SaveAtExit(i)
    BY <2>3, Zenon DEF SaveAtExit
  <2>2. CASE SettleFails(i)
    <3>1. tmp'[i] = NoFile BY <2>2 DEF SettleFails
    <3>2. ~ RenameFails(i)
      BY <1>3, <3>1 DEF RenameFails, Typed, TypeOK
    <3> QED BY <2>2, <3>2 DEF SettleFails, SaveFails, OpenFails, WriteFails,
                              files
  <2> QED BY <2>1, <2>2, <2>3
<1>5. \A j \in Id : tmp'[j] = NoFile
  <2>1. \A j \in Id : tmp[j] = NoFile
    BY <1>1 DEF Whole
  <2>2. tmp' = tmp \/ tmp' = [tmp EXCEPT ![i] = NoFile]
    BY <1>4 DEF SaveOk
  <2> QED BY <2>1, <2>2 DEF Typed, TypeOK
<1>6. \A j \in Id : disk'[j] = disk[j] \/ (j = i /\ disk'[j] = Saved(i))
  BY <1>4 DEF SaveOk, Typed, TypeOK
<1>7. phase = "saving" => disk'[i] = Saved(i) /\ left' = left \ {i}
  BY <1>4 DEF SaveOk, Typed, TypeOK, Settle, SettleFails, SaveAtExit
<1>8. live \subseteq Id /\ phase # "down"
  BY DEF Typed, TypeOK, Settle, SettleFails, SaveAtExit
<1> QED BY <1>1, <1>2, <1>5, <1>6, <1>7, <1>8 DEF Whole, Saved

(* A start finds the playlists it had, under the names they had.           *)
LEMMA StartWhole ==
  ASSUME Typed, Whole, Start PROVE Whole'
<1> SUFFICES ASSUME ~torn PROVE Whole'
  BY DEF Whole, Start
<1>1. /\ OneToOne /\ live \subseteq Id
      /\ \A i \in Id : tmp[i] = NoFile /\ (i \notin live => disk[i] = NoFile)
      /\ \A i \in live : disk[i] = Saved(i) /\ Saved(i) \in Rec
  BY SavedTyped DEF Whole, Start, Typed, TypeOK
<1>2. \A f : f \in Loadable <=> \E i \in live : f = <<i, "file">>
  <2>1. \A i \in Id : /\ <<i, "file">> \in Loadable <=> i \in live
                      /\ <<i, "tmp">> \notin Loadable
    BY <1>1, ValueAssumption DEF Loadable, Content
  <2>2. \A f \in Loadable : \E i \in Id : f \in {<<i, "file">>, <<i, "tmp">>}
    BY DEF Loadable
  <2> QED BY <1>1, <2>1, <2>2
<1>3. \A i \in live : /\ Content(<<i, "file">>).name = name[i]
                      /\ Content(<<i, "file">>).rev = rev[i]
  <2> TAKE i \in live
  <2>1. Content(<<i, "file">>) = disk[i] BY DEF Content
  <2>2. Saved(i).name = name[i] /\ Saved(i).rev = rev[i] BY DEF Saved
  <2>3. Content(<<i, "file">>) = Saved(i) BY <1>1, <2>1
  <2> QED BY <2>2, <2>3
<1>4. Ids = live
  <2>1. ASSUME NEW i \in live PROVE i \in Ids
    <3>1. <<i, "file">> \in Loadable /\ <<i, "file">>[1] = i BY <1>2
    <3> QED BY <3>1, Zenon DEF Ids
  <2>2. ASSUME NEW f \in Loadable PROVE f[1] \in live
    BY <1>2
  <2> QED BY <2>1, <2>2 DEF Ids
<1>5. PICK place \in [Loadable -> 1 .. Cardinality(Loadable)] :
           /\ live' = Ids /\ lastId' = NextId(Ids) /\ dirty' = Ids
           /\ name' = [i \in Id |-> IF i \in Ids
                                    THEN Content(Win(place)[i]).name
                                    ELSE AnyName]
           /\ rev'  = [i \in Id |-> IF i \in Ids
                                    THEN Content(Win(place)[i]).rev ELSE 0]
           /\ byName' = [n \in Name |-> Found(n, place)]
  BY StartLoads
<1>6. \A i \in live : Win(place)[i] = <<i, "file">>
  <2> TAKE i \in live
  <2>1. Win(place)[i] \in FilesOf(i)
    BY <1>4, WinOfId
  <2>2. FilesOf(i) \subseteq {<<i, "file">>}
    BY <1>2 DEF FilesOf
  <2> QED BY <2>1, <2>2
<1>7. \A i \in live : name'[i] = name[i]
  <2> TAKE i \in live
  <2>1. name'[i] = Content(Win(place)[i]).name
    BY <1>1, <1>4, <1>5
  <2> QED BY <1>3, <1>6, <2>1
<1>8. \A i \in live : name[i] \in Name /\ byName[name[i]] = i /\ i # 0
  BY <1>1, Sizes DEF OneToOne, Typed, TypeOK, Id
<1>9. \A n \in Name : Found(n, place) = byName[n]
  <2> TAKE n \in Name
  <2>1. \A f : f \in NamedBy(n) <=>
                 \E i \in live : f = <<i, "file">> /\ name[i] = n
    BY <1>2, <1>3 DEF NamedBy
  <2>2. CASE byName[n] = 0
    <3>1. NamedBy(n) = {}
      BY <1>8, <2>1, <2>2
    <3> QED BY <2>2, <3>1 DEF Found
  <2>3. CASE byName[n] # 0
    <3>1. byName[n] \in live /\ name[byName[n]] = n
      BY <1>1, <2>3 DEF OneToOne, FreeName
    <3>2. NamedBy(n) = {<<byName[n], "file">>}
      BY <1>8, <2>1, <3>1
    <3>3. NamedBy(n) \in SUBSET Loadable
      BY DEF NamedBy
    <3>4. LastOf(NamedBy(n), place) \in NamedBy(n)
      BY <3>2, <3>3, LastOfIsOne, FewLoadable
    <3>5. LastOf(NamedBy(n), place) = <<byName[n], "file">>
      BY <3>2, <3>4
    <3> QED BY <1>6, <3>1, <3>2, <3>5 DEF Found
  <2> QED BY <2>2, <2>3
<1>10. OneToOne'
  <2>1. live' = live /\ \A n \in Name : byName'[n] = byName[n]
    BY <1>4, <1>5, <1>9
  <2> QED BY <1>1, <1>7, <1>8, <2>1 DEF OneToOne, FreeName
<1> QED BY <1>1, <1>4, <1>5, <1>10 DEF Whole, Start, files

LEMMA NextWhole == Typed /\ Whole /\ [Next]_vars => Whole'
<1> SUFFICES ASSUME Typed, Whole, [Next]_vars PROVE Whole'
  OBVIOUS
<1> DEFINE Same == UNCHANGED <<phase, live, name, rev, byName, left, disk,
                               tmp, torn>>
<1>1. Same => Whole'
  BY DEF Whole, OneToOne, FreeName, Saved
<1>2. CASE UNCHANGED vars
  BY <1>1, <1>2 DEF vars
<1>3. CASE Request
  <2>1. ASSUME NEW i \in Id, Edit(i) PROVE Whole'
    BY <2>1 DEF Edit, Whole, OneToOne, FreeName
  <2> QED
    BY <1>3, <2>1, MadeWhole, DestroyWhole, RenameWhole
    DEF Request, Create, Dup
<1>4. CASE Holding
  <2>1. Same
    BY <1>4 DEF Holding, Increment, Decrement, DecrementUnknown, ClientDies,
                memory, files
  <2> QED BY <1>1, <2>1
<1>5. CASE Saving
  <2>1. ASSUME Terminate PROVE Whole'
    BY <2>1 DEF Terminate, Whole, OneToOne, FreeName, Saved, memory, files
  <2>2. ASSUME Exit PROVE Whole'
    BY <2>2 DEF Exit, Whole, OneToOne, FreeName, Saved, memory, files
  <2>3. ASSUME NEW i \in Id, TimeIsOver(i) PROVE Whole'
    BY <1>1, <2>3 DEF TimeIsOver
  <2> QED BY <1>5, <2>1, <2>2, <2>3, SavingWhole DEF Saving
<1>6. CASE Faults
  <2>1. ASSUME Crash PROVE Whole'
    BY <2>1 DEF Crash, Dies, Unsaved, Whole, OneToOne, FreeName, Saved,
                memory, files
  <2>2. ASSUME NEW i \in Id, CrashInSave(i) PROVE Whole'
    BY <2>2 DEF CrashInSave, Dies, Whole
  <2> QED BY <1>6, <2>1, <2>2 DEF Faults
<1>7. CASE Start
  BY <1>7, StartWhole
<1> QED BY <1>2, <1>3, <1>4, <1>5, <1>6, <1>7 DEF Next

(* As long as the daemon never stopped with something unsaved, each        *)
(* playlist is found under its name and each name finds a playlist, after  *)
(* renames, destructions and restarts too: create_playlist doubles no name *)
(* and the assertions of set_name and destroy_playlist hold.               *)
THEOREM NamesStayExact == Spec => []NamesExact
<1>1. Init => Whole
  <2> SUFFICES ASSUME Init PROVE Whole
    OBVIOUS
  <2>1. OneToOne /\ \A i \in Id : tmp[i] = NoFile /\ disk[i] = NoFile
    BY DEF Init, OneToOne, FreeName
  <2> QED BY <2>1 DEF Init, Whole
<1>2. Typed /\ Whole /\ [Next]_vars => Whole'
  BY NextWhole
<1>3. Whole => NamesExact
  BY DEF Whole, OneToOne, NamesExact
<1> QED BY <1>1, <1>2, <1>3, AlwaysTyped, PTL DEF Spec

-----------------------------------------------------------------------------
(* Use counts.                                                             *)

HeldMap == [Client -> [Id -> 0 .. MaxHold]]

(* There are fewer holds than an unsigned counts.                          *)
LEMMA FewHolds ==
  ASSUME NEW i, NEW h
  PROVE  /\ IsFiniteSet(Held(i, h))
         /\ Cardinality(Held(i, h)) \in 0 .. UseMod - 1
<1>1. IsFiniteSet(Client) /\ Cardinality(Client) * MaxHold < UseMod
  BY HoldsFitAssumption
<1>2. IsFiniteSet(1 .. MaxHold) /\ Cardinality(1 .. MaxHold) = MaxHold
  BY FS_Interval, Sizes
<1>3. /\ IsFiniteSet(Client \X (1 .. MaxHold))
      /\ Cardinality(Client \X (1 .. MaxHold)) < UseMod
  BY <1>1, <1>2, FS_Product
<1>4. Held(i, h) \in SUBSET (Client \X (1 .. MaxHold))
  BY DEF Held
<1>5. /\ IsFiniteSet(Held(i, h)) /\ Cardinality(Held(i, h)) \in Nat
      /\ Cardinality(Client \X (1 .. MaxHold)) \in Nat
      /\ Cardinality(Held(i, h)) <= Cardinality(Client \X (1 .. MaxHold))
  BY <1>3, <1>4, FS_Subset, FS_CardinalityType
<1> QED BY <1>3, <1>5, Sizes

LEMMA NoHolds ==
  ASSUME NEW i, NEW h, \A c \in Client : h[c][i] = 0
  PROVE  Cardinality(Held(i, h)) = 0
<1>1. Held(i, h) = {}
  BY Sizes DEF Held
<1> QED BY <1>1, FS_EmptySet

(* One hold more, and (read the other way) one hold less.                  *)
LEMMA OneHoldMore ==
  ASSUME NEW i \in Id, NEW c \in Client, NEW h \in HeldMap, NEW g \in HeldMap,
         g[c][i] = h[c][i] + 1,
         \A d \in Client, j \in Id : d # c \/ j # i => g[d][j] = h[d][j]
  PROVE  /\ Cardinality(Held(i, g)) = Cardinality(Held(i, h)) + 1
         /\ \A j \in Id \ {i} : Held(j, g) = Held(j, h)
<1> DEFINE x == <<c, h[c][i] + 1>>
<1>1. /\ \A d \in Client, j \in Id : h[d][j] \in 0 .. MaxHold
      /\ g[c][i] = h[c][i] + 1 /\ g[c][i] \in 0 .. MaxHold
      /\ \A d \in Client, j \in Id : d # c \/ j # i => g[d][j] = h[d][j]
  BY DEF HeldMap
<1>2. x \in Client \X (1 .. MaxHold)
  BY <1>1, Sizes
<1>3. Held(i, g) = Held(i, h) \cup {x}
  <2>1. ASSUME NEW y \in Client \X (1 .. MaxHold)
        PROVE  y[2] <= g[y[1]][i] <=> y[2] <= h[y[1]][i] \/ y = x
    <3>1. PICK d \in Client, k \in 1 .. MaxHold : y = <<d, k>>
      OBVIOUS
    <3>2. CASE d = c
      BY <1>1, <3>1, <3>2, Sizes
    <3>3. CASE d # c
      BY <1>1, <3>1, <3>3
    <3> QED BY <3>2, <3>3
  <2> HIDE DEF x
  <2> QED BY <1>2, <2>1 DEF Held
<1>4. x \notin Held(i, h)
  BY <1>1 DEF Held
<1>5. Cardinality(Held(i, g)) = Cardinality(Held(i, h)) + 1
  BY <1>3, <1>4, FewHolds, FS_AddElement
<1>6. \A j \in Id \ {i} : Held(j, g) = Held(j, h)
  <2> TAKE j \in Id \ {i}
  <2>1. \A d \in Client : g[d][j] = h[d][j] BY <1>1
  <2> QED BY <2>1 DEF Held
<1> QED BY <1>5, <1>6

(* The holds of one client given up.                                       *)
LEMMA HoldsGivenUp ==
  ASSUME NEW i \in Id, NEW c \in Client, NEW h \in HeldMap, NEW g \in HeldMap,
         g[c][i] = 0, \A d \in Client \ {c} : g[d][i] = h[d][i]
  PROVE  Cardinality(Held(i, g)) = Cardinality(Held(i, h)) - h[c][i]
<1>1. \A d \in Client : h[d][i] \in 0 .. MaxHold
  BY DEF HeldMap
<1>0. PICK n \in Nat : n = h[c][i]
  BY <1>1, Sizes
<1> DEFINE mine == {c} \X (1 .. n)
<1>2. IsFiniteSet(mine) /\ Cardinality(mine) = n
  <2>1. IsFiniteSet({c}) /\ Cardinality({c}) = 1
    BY FS_Singleton
  <2>2. IsFiniteSet(1 .. n) /\ Cardinality(1 .. n) = n
    BY FS_Interval
  <2>3. /\ IsFiniteSet(mine)
        /\ Cardinality(mine) = Cardinality({c}) * Cardinality(1 .. n)
    BY <2>1, <2>2, FS_Product, Zenon
  <2>4. Cardinality({c}) * Cardinality(1 .. n) = 1 * n
    BY <2>1, <2>2
  <2> QED BY <2>3, <2>4
<1>3. Held(i, h) \cap mine = mine
  BY <1>0, <1>1, Sizes DEF Held
<1>4. Held(i, g) = Held(i, h) \ mine
  <2>1. ASSUME NEW y \in Client \X (1 .. MaxHold)
        PROVE  y[2] <= g[y[1]][i] <=> y[2] <= h[y[1]][i] /\ y \notin mine
    <3>1. PICK d \in Client, k \in 1 .. MaxHold : y = <<d, k>>
      OBVIOUS
    <3>2. CASE d = c
      BY <1>0, <1>1, <3>1, <3>2, Sizes
    <3>3. CASE d # c
      BY <1>1, <3>1, <3>3
    <3> QED BY <3>2, <3>3
  <2> HIDE DEF mine
  <2> QED BY <2>1 DEF Held
<1> HIDE DEF mine
<1>5. IsFiniteSet(Held(i, h)) BY FewHolds
<1>6. Cardinality(Held(i, h) \ mine)
        = Cardinality(Held(i, h)) - Cardinality(Held(i, h) \cap mine)
  BY <1>5, FS_Difference, Zenon
<1> QED BY <1>0, <1>2, <1>3, <1>4, <1>6, Zenon

LEMMA IncrementCounted ==
  ASSUME Typed, Typed', Counted, NEW c \in Client, NEW i \in Id,
         Increment(c, i)
  PROVE  Counted'
<1> SUFFICES ASSUME ~stale, NEW j \in live PROVE use'[j] = Holds(j)'
  BY DEF Counted, Increment
<1>1. holders \in HeldMap /\ holders' \in HeldMap /\ j \in Id
      /\ use \in [Id -> 0 .. UseMod - 1]
  BY DEF Typed, TypeOK, HeldMap
<1>2. holders' = [holders EXCEPT ![c][i] = @ + 1]
      /\ use' = [use EXCEPT ![i] = Unsigned(@ + 1)]
  BY DEF Increment
<1>3. use[j] = Cardinality(Held(j, holders))
  BY DEF Counted, Holds, Increment
<1>4. /\ Cardinality(Held(i, holders')) = Cardinality(Held(i, holders)) + 1
      /\ \A k \in Id \ {i} : Held(k, holders') = Held(k, holders)
  <2>1. /\ holders'[c][i] = holders[c][i] + 1
        /\ \A d \in Client, k \in Id :
             d # c \/ k # i => holders'[d][k] = holders[d][k]
    BY <1>1, <1>2 DEF HeldMap
  <2> QED BY <1>1, <2>1, OneHoldMore
<1>5. CASE j = i
  <2>1. use[i] + 1 = Cardinality(Held(i, holders'))
    BY <1>3, <1>4, <1>5
  <2>2. use[i] + 1 \in 0 .. UseMod - 1
    BY <2>1, FewHolds
  <2>3. use'[i] = use[i] + 1
    BY <1>1, <1>2, <2>2, SmallRemainder
  <2> QED BY <1>5, <2>1, <2>3 DEF Holds
<1>6. CASE j # i
  BY <1>1, <1>2, <1>3, <1>4, <1>6 DEF Holds
<1> QED BY <1>5, <1>6

LEMMA DecrementCounted ==
  ASSUME Typed, Typed', Counted, NEW c \in Client, NEW i \in Id,
         Decrement(c, i)
  PROVE  Counted'
<1> SUFFICES ASSUME ~stale', NEW j \in live PROVE use'[j] = Holds(j)'
  BY DEF Counted, Decrement
<1>1. holders \in HeldMap /\ holders' \in HeldMap /\ j \in Id
      /\ use \in [Id -> 0 .. UseMod - 1]
  BY DEF Typed, TypeOK, HeldMap
<1>2. ~stale /\ holders[c][i] # 0
  BY DEF Decrement
<1>3. /\ holders' = [holders EXCEPT ![c][i] = IF @ > 0 THEN @ - 1 ELSE 0]
      /\ use' = [use EXCEPT ![i] = Unsigned(@ - 1)]
  BY DEF Decrement
<1>4. use[j] = Cardinality(Held(j, holders))
  BY <1>2 DEF Counted, Holds, Decrement
<1>5. /\ holders[c][i] = holders'[c][i] + 1
      /\ \A d \in Client, k \in Id :
           d # c \/ k # i => holders[d][k] = holders'[d][k]
  BY <1>1, <1>2, <1>3, Sizes DEF HeldMap
<1>6. /\ Cardinality(Held(i, holders)) = Cardinality(Held(i, holders')) + 1
      /\ \A k \in Id \ {i} : Held(k, holders) = Held(k, holders')
  BY <1>1, <1>5, OneHoldMore
<1>7. CASE j = i
  <2>1. Cardinality(Held(i, holders')) \in 0 .. UseMod - 1
    BY FewHolds
  <2>2. use[i] - 1 = Cardinality(Held(i, holders'))
    BY <1>4, <1>6, <1>7, <2>1
  <2>3. use'[i] = use[i] - 1
    BY <1>1, <1>3, <2>1, <2>2, SmallRemainder
  <2> QED BY <1>7, <2>2, <2>3 DEF Holds
<1>8. CASE j # i
  BY <1>1, <1>3, <1>4, <1>6, <1>8 DEF Holds
<1> QED BY <1>7, <1>8

LEMMA ClientDiesCounted ==
  ASSUME Typed, Typed', Counted, NEW c \in Client, ClientDies(c)
  PROVE  Counted'
<1> SUFFICES ASSUME phase = "up", ~stale, NEW i \in live
             PROVE use'[i] = Holds(i)'
  BY DEF Counted, ClientDies
<1> DEFINE mine == {j \in live : holders[c][j] > 0}
<1>1. holders \in HeldMap /\ holders' \in HeldMap /\ i \in Id
      /\ holders[c][i] \in 0 .. MaxHold /\ use \in [Id -> 0 .. UseMod - 1]
  BY DEF Typed, TypeOK, HeldMap
<1>2. /\ use' = [j \in Id |-> IF j \in mine
                              THEN Unsigned(WithoutHolds(c, j)) ELSE use[j]]
      /\ holders' = [holders EXCEPT ![c] = [j \in Id |-> 0]]
  BY DEF ClientDies
<1>3. use[i] = Cardinality(Held(i, holders))
  BY DEF Counted, Holds
<1>4. holders'[c][i] = 0 /\ \A d \in Client \ {c} :
                              holders'[d][i] = holders[d][i]
  BY <1>1, <1>2 DEF HeldMap
<1>5. Cardinality(Held(i, holders')) = use[i] - holders[c][i]
  BY <1>1, <1>3, <1>4, HoldsGivenUp
<1>6. WithoutHolds(c, i) = Cardinality(Held(i, holders'))
  BY <1>5 DEF WithoutHolds
<1>7. WithoutHolds(c, i) \in 0 .. UseMod - 1
  BY <1>6, FewHolds
<1>8. CASE i \in mine
  BY <1>1, <1>2, <1>6, <1>7, <1>8, SmallRemainder DEF Holds
<1>9. CASE i \notin mine
  <2>1. holders[c][i] = 0
    BY <1>1, <1>9, Sizes
  <2> QED BY <1>1, <1>2, <1>5, <1>9, <2>1, Sizes DEF Holds
<1> QED BY <1>8, <1>9

LEMMA NextCounted == Typed /\ Typed' /\ Counted /\ [Next]_vars => Counted'
<1> SUFFICES ASSUME Typed, Typed', Counted, [Next]_vars PROVE Counted'
  OBVIOUS
<1>1. ASSUME UNCHANGED <<use, holders, stale>>, live' \subseteq live,
             phase' = "up" => phase = "up"
      PROVE  Counted'
  BY <1>1 DEF Counted, Holds
<1>2. CASE UNCHANGED vars
  BY <1>1, <1>2 DEF vars
<1>3. CASE Request
  <2>1. ASSUME NEW n \in Name, phase = "up", Made(n) PROVE Counted'
    <3> SUFFICES ASSUME ~stale, NEW i \in live' PROVE use'[i] = Holds(i)'
      BY <2>1 DEF Counted, Made
    <3>1. use \in [Id -> 0 .. UseMod - 1] /\ live' \subseteq Id
      BY DEF Typed, TypeOK
    <3>2. use' = [use EXCEPT ![lastId] = 0] /\ live' = live \cup {lastId}
          /\ holders' = holders
      BY <2>1 DEF Made
    <3>3. CASE i = lastId
      <4>1. \A c \in Client : holders[c][i] = 0
        BY <2>1, <3>1, <3>3, Sizes DEF Typed, Fresh, Id
      <4>2. Cardinality(Held(i, holders)) = 0
        BY <4>1, NoHolds
      <4> QED BY <3>1, <3>2, <3>3, <4>2 DEF Holds
    <3>4. CASE i # lastId
      BY <2>1, <3>1, <3>2, <3>4 DEF Counted, Holds
    <3> QED BY <3>3, <3>4
  <2>2. ASSUME NEW i \in Id, Edit(i) \/ Destroy(i) PROVE Counted'
    BY <1>1, <2>2 DEF Edit, Destroy
  <2>3. ASSUME NEW i \in Id, NEW n \in Name, Rename(i, n) PROVE Counted'
    BY <1>1, <2>3 DEF Rename
  <2> QED BY <1>3, <2>1, <2>2, <2>3 DEF Request, Create, Dup
<1>4. CASE Holding
  <2>1. ASSUME NEW c \in Client, NEW i \in Id, DecrementUnknown(c, i)
        PROVE  Counted'
    BY <1>1, <2>1 DEF DecrementUnknown, memory
  <2> QED BY <1>4, <2>1, IncrementCounted, DecrementCounted,
             ClientDiesCounted DEF Holding
<1>5. CASE Saving
  BY <1>1, <1>5 DEF Saving, TimeIsOver, Settle, SettleFails, SaveAtExit,
                    Terminate, Exit,
                    memory
<1>6. CASE Faults
  BY <1>1, <1>6 DEF Faults, Crash, CrashInSave, Dies, memory
<1>7. CASE Start
  <2>1. use' = [i \in Id |-> 0] /\ holders' = ZeroHolds /\ live' \subseteq Id
    BY <1>7 DEF Start, Typed, TypeOK
  <2>2. \A i \in Id : Cardinality(Held(i, ZeroHolds)) = 0
    BY NoHolds DEF ZeroHolds
  <2> QED BY <2>1, <2>2 DEF Counted, Holds
<1> QED BY <1>2, <1>3, <1>4, <1>5, <1>6, <1>7 DEF Next

(* As long as no client gives up what it had from an earlier daemon, a use *)
(* count is the number of holds of the clients that live: it never wraps,  *)
(* the death of a client takes exactly its holds, a new playlist has none. *)
THEOREM CountsStayRight == Spec => []UseCountsRight
<1>1. Init => Counted
  <2>1. Init => live = {} BY DEF Init
  <2> QED BY <2>1 DEF Counted
<1>2. Typed /\ Typed' /\ Counted /\ [Next]_vars => Counted'
  BY NextCounted
<1>3. Counted <=> UseCountsRight
  BY DEF Counted, UseCountsRight
<1> QED BY <1>1, <1>2, <1>3, AlwaysTyped, PTL DEF Spec

-----------------------------------------------------------------------------
(* Each playlist is kept as PlaylistVault promises: every step is one of   *)
(* its steps, changes nothing of it or is one of the two exceptions.       *)
(* These are the values of its variables for playlist i.                   *)

vNow(i)   == IF phase # "down" /\ i \in live THEN rev[i] ELSE NoFile
vBase(i)  == Version(disk[i])
vExtra(i) == Version(tmp[i])

Keeps(i) == [\/ Vault(i)!Next
             \/ Vault(i)!LoadsEither /\ Start
             \/ Vault(i)!ForgetsHalf /\ Destroy(i)]_(Vault(i)!vars)

LEMMA NoFileVersion ==
  /\ Version(NoFile) = NoFile /\ Version(Empty) = NoFile
  /\ \A f : f \notin Rec => Version(f) = NoFile
  /\ \A f \in Rec : Version(f) = f.rev /\ f.rev # NoFile
                    /\ f.rev \in 0 .. MaxRev
<1>1. \A f \in Rec : f.rev \in 0 .. MaxRev BY DEF Rec
<1> QED BY <1>1, ValueAssumption DEF Version

LEMMA SavedVersion ==
  ASSUME Typed, NEW i \in live, phase # "down"
  PROVE  Version(Saved(i)) = vNow(i) /\ vNow(i) # NoFile /\ i \in Id
<1>1. i \in Id /\ Saved(i) \in Rec
  BY SavedTyped DEF Typed, TypeOK
<1>2. Saved(i).rev = rev[i]
  BY DEF Saved
<1> QED BY <1>1, <1>2, NoFileVersion DEF vNow

LEMMA SameVault ==
  ASSUME NEW i \in Id, phase # "down" <=> phase' # "down",
         i \in live <=> i \in live', UNCHANGED <<rev[i], disk[i], tmp[i]>>
  PROVE  UNCHANGED Vault(i)!vars
BY DEF Vault!vars, Version

LEMMA MadeMakes ==
  ASSUME Typed, NEW n \in Name, phase = "up", Made(n), NEW i \in Id
  PROVE  [Vault(i)!Next]_(Vault(i)!vars)
<1>1. UNCHANGED <<phase, disk, tmp>> /\ live' = live \cup {lastId}
      /\ rev' = [rev EXCEPT ![lastId] = 0] /\ rev \in [Id -> 0 .. MaxRev]
  BY DEF Made, Typed, TypeOK
<1>2. CASE i # lastId
  BY <1>1, <1>2, SameVault
<1>3. CASE i = lastId
  <2>1. i \notin live /\ disk[i] = NoFile /\ tmp[i] \notin Rec
    BY <1>3, Sizes DEF Typed, Fresh, Id
  <2>2. vNow(i) = NoFile /\ vBase(i) = NoFile /\ vExtra(i) = NoFile
    BY <2>1, NoFileVersion DEF vNow, vBase, vExtra
  <2>3. vNow(i)' = 0 /\ vBase(i)' = vBase(i) /\ vExtra(i)' = vExtra(i)
    BY <1>1, <1>3 DEF vNow, vBase, vExtra
  <2>4. Vault(i)!Make
    BY <1>1, <2>2, <2>3 DEF Vault!Make, vNow, vBase, vExtra
  <2> QED BY <2>4 DEF Vault!Next
<1> QED BY <1>2, <1>3

(* An edit, also by set_name.                                              *)
LEMMA EditWrites ==
  ASSUME Typed, NEW j \in live, phase = "up", rev[j] < bound.revs,
         rev' = [rev EXCEPT ![j] = @ + 1],
         UNCHANGED <<phase, live, disk, tmp>>, NEW i \in Id
  PROVE  [Vault(i)!Next]_(Vault(i)!vars)
<1>1. j \in Id /\ rev \in [Id -> 0 .. MaxRev] /\ rev[j] + 1 \in 0 .. MaxRev
  BY BoundTyped, Sizes DEF Typed, TypeOK
<1>2. CASE i # j
  BY <1>1, <1>2, SameVault
<1>3. CASE i = j
  <2>1. vNow(i) = rev[i] /\ vNow(i) # NoFile
    BY <1>3, SavedVersion DEF vNow
  <2>2. vBase(i)' = vBase(i) /\ vExtra(i)' = vExtra(i)
        /\ vNow(i)' = rev[i] + 1
    BY <1>1, <1>3 DEF vBase, vExtra, vNow
  <2>3. rev[i] + 1 > vNow(i)
    BY <1>1, <1>3, <2>1, Sizes
  <2>4. Vault(i)!Write
    BY <1>1, <1>3, <2>1, <2>2, <2>3 DEF Vault!Write, vNow, vBase, vExtra
  <2> QED BY <2>4 DEF Vault!Next
<1> QED BY <1>2, <1>3

(* The daemon stops and leaves the files of a playlist as they are, or     *)
(* unlinked, or in the middle of its save.                                 *)
LEMMA StopStops ==
  ASSUME NEW i \in Id, phase # "down", phase' = "down",
         \/ UNCHANGED <<disk[i], tmp[i]>>
         \/ /\ vNow(i) # NoFile
            /\ Vault(i)!Finished \/ Vault(i)!Unfinished \/ Vault(i)!Forgotten
  PROVE  Vault(i)!Next
<1>1. vNow(i)' = NoFile
  BY DEF vNow
<1>2. UNCHANGED <<disk[i], tmp[i]>> => UNCHANGED <<vBase(i), vExtra(i)>>
  BY DEF vBase, vExtra
<1>3. Vault(i)!Stop
  BY <1>1, <1>2 DEF Vault!Stop, vNow, vBase, vExtra
<1> QED BY <1>3 DEF Vault!Next

LEMMA DestroyDestroys ==
  ASSUME Typed, NEW j \in Id, Destroy(j), NEW i \in Id PROVE Keeps(i)
<1>1. j \in live /\ phase = "up" /\ tmp' = tmp /\ disk' = Unlinked(j)
      /\ disk \in [Id -> Rec \cup {NoFile}] /\ live \subseteq Id
      /\ rev' = rev
      /\ \/ phase' = "down" /\ live' = live
         \/ phase' = phase /\ live' = live \ {j}
  BY DEF Destroy, MayGo, Typed, TypeOK
<1>2. CASE i # j
  <2>1. disk'[i] = disk[i]
    BY <1>1, <1>2 DEF Unlinked
  <2>2. CASE phase' = "down"
    <3>1. Vault(i)!Next
      BY <1>1, <2>1, <2>2, StopStops
    <3> QED BY <3>1 DEF Keeps
  <2>3. CASE phase' = phase
    <3>1. UNCHANGED Vault(i)!vars
      BY <1>1, <1>2, <2>1, <2>3, SameVault
    <3> QED BY <3>1 DEF Keeps
  <2> QED BY <1>1, <2>2, <2>3
<1>3. CASE i = j
  <2>1. vBase(i)' = NoFile /\ vExtra(i)' = vExtra(i) /\ vNow(i)' = NoFile
    BY <1>1, <1>3, NoFileVersion DEF vBase, vExtra, vNow, Unlinked
  <2>2. vNow(i) # NoFile
    BY <1>1, <1>3, SavedVersion
  <2>3. CASE vExtra(i) # NoFile
    <3>1. Vault(i)!ForgetsHalf
      BY <1>1, <2>1, <2>2, <2>3 DEF Vault!ForgetsHalf, vBase, vExtra, vNow
    <3> QED BY <1>3, <3>1 DEF Keeps
  <2>4. CASE vExtra(i) = NoFile
    <3>1. Vault(i)!Forgotten
      BY <2>1, <2>4 DEF Vault!Forgotten, vBase, vExtra
    <3>2. CASE phase' = "down"
      <4>1. Vault(i)!Next
        BY <1>1, <2>2, <3>1, <3>2, StopStops
      <4> QED BY <4>1 DEF Keeps
    <3>3. CASE phase' = phase
      <4>1. Vault(i)!Destroy
        BY <1>1, <2>1, <2>2, <3>1, <3>3 DEF Vault!Destroy, vNow
      <4> QED BY <4>1 DEF Keeps, Vault!Next
    <3> QED BY <1>1, <3>2, <3>3
  <2> QED BY <2>3, <2>4
<1> QED BY <1>2, <1>3

(* What a save comes to.                                                   *)
LEMMA SaveSaves ==
  ASSUME Typed, NEW i \in live, phase # "down",
         SaveFails(i) \/ Interrupted(i) \/ SaveOk(i)
  PROVE  \/ UNCHANGED <<disk[i], tmp[i]>>
         \/ /\ vNow(i) # NoFile
            /\ Vault(i)!Finished \/ Vault(i)!Unfinished
<1>1. /\ disk \in [Id -> Rec \cup {NoFile}]
      /\ tmp \in [Id -> Rec \cup {NoFile, Empty}]
  BY DEF Typed, TypeOK
<1>2. Version(Saved(i)) = vNow(i) /\ vNow(i) # NoFile /\ i \in Id
  BY SavedVersion
<1>3. CASE SaveOk(i)
  <2>1. vBase(i)' = vNow(i) /\ vExtra(i)' = NoFile
    BY <1>1, <1>2, <1>3, NoFileVersion DEF SaveOk, vBase, vExtra
  <2>2. Vault(i)!Finished
    BY <2>1 DEF Vault!Finished, vNow, vBase, vExtra
  <2> QED BY <1>2, <2>2
<1>4. ASSUME NEW v \in {Saved(i), NoFile, Empty},
             tmp' = [tmp EXCEPT ![i] = v], disk' = disk
      PROVE  Vault(i)!Unfinished
  <2>1. Version(v) \in {NoFile, vNow(i)}
    BY <1>2, NoFileVersion
  <2>2. vExtra(i)' = Version(v) /\ vBase(i)' = vBase(i)
    BY <1>1, <1>2, <1>4 DEF vExtra, vBase
  <2> QED BY <2>1, <2>2 DEF Vault!Unfinished, vNow, vBase, vExtra
<1>5. CASE UNCHANGED files
  BY <1>5 DEF files
<1> QED
  BY <1>2, <1>3, <1>4, <1>5 DEF SaveFails, OpenFails, WriteFails,
                                RenameFails, Interrupted

LEMMA SavingSaves ==
  ASSUME Typed, NEW j \in Id, Settle(j) \/ SettleFails(j) \/ SaveAtExit(j),
         NEW i \in Id
  PROVE  [Vault(i)!Next]_(Vault(i)!vars)
<1>1. j \in live /\ phase # "down" /\ UNCHANGED <<phase, live, rev>>
      /\ (SaveFails(j) \/ SaveOk(j))
  BY DEF Settle, SettleFails, SaveAtExit, memory, Typed, TypeOK
<1>2. CASE i # j
  <2>1. disk'[i] = disk[i] /\ tmp'[i] = tmp[i]
    BY <1>1, <1>2, SavingTyped
  <2> QED BY <1>1, <2>1, SameVault
<1>3. CASE i = j
  <2>1. vNow(i)' = vNow(i)
    BY <1>1 DEF vNow
  <2>2. CASE UNCHANGED <<disk[i], tmp[i]>>
    BY <1>1, <2>2, SameVault
  <2>3. CASE vNow(i) # NoFile /\ (Vault(i)!Finished \/ Vault(i)!Unfinished)
    <3>1. Vault(i)!Save
      BY <1>1, <2>1, <2>3 DEF Vault!Save, vNow
    <3> QED BY <3>1 DEF Vault!Next
  <2> QED BY <1>1, <1>3, <2>2, <2>3, SaveSaves
<1> QED BY <1>2, <1>3

LEMMA CrashInSaveStops ==
  ASSUME Typed, NEW j \in Id, CrashInSave(j), NEW i \in Id
  PROVE  Vault(i)!Next
<1>1. j \in live /\ phase # "down" /\ phase' = "down" /\ Interrupted(j)
  BY DEF CrashInSave, Dies, Typed, TypeOK
<1>2. CASE i # j
  <2>1. disk'[i] = disk[i] /\ tmp'[i] = tmp[i]
    BY <1>1, <1>2, SavingTyped
  <2> QED BY <1>1, <2>1, StopStops
<1>3. CASE i = j
  <2>1. \/ UNCHANGED <<disk[i], tmp[i]>>
        \/ vNow(i) # NoFile /\ (Vault(i)!Finished \/ Vault(i)!Unfinished)
    BY <1>1, <1>3, SaveSaves
  <2> QED BY <1>1, <2>1, StopStops
<1> QED BY <1>2, <1>3

(* A start finds what is left of a playlist in its two files.              *)
LEMMA StartStarts ==
  ASSUME Typed, Start, NEW i \in Id PROVE Keeps(i)
<1>1. PICK place \in [Loadable -> 1 .. Cardinality(Loadable)] :
           /\ live' = Ids /\ lastId' = NextId(Ids) /\ dirty' = Ids
           /\ name' = [k \in Id |-> IF k \in Ids
                                    THEN Content(Win(place)[k]).name
                                    ELSE AnyName]
           /\ rev'  = [k \in Id |-> IF k \in Ids
                                    THEN Content(Win(place)[k]).rev ELSE 0]
           /\ byName' = [n \in Name |-> Found(n, place)]
  BY StartLoads
<1>2. phase = "down" /\ phase' = "up" /\ UNCHANGED <<disk, tmp>>
  BY DEF Start, files
<1>3. vBase(i)' = vBase(i) /\ vExtra(i)' = vExtra(i)
  BY <1>2 DEF vBase, vExtra
<1>4. CASE i \notin Ids
  <2>1. <<i, "file">> \notin Loadable /\ <<i, "tmp">> \notin Loadable
    BY <1>4 DEF Ids
  <2>2. disk[i] \notin Rec /\ tmp[i] \notin Rec
    BY <2>1 DEF Loadable, Content
  <2>3. vBase(i) = NoFile /\ vExtra(i) = NoFile /\ vNow(i)' = NoFile
    BY <1>1, <1>4, <2>2, NoFileVersion DEF vBase, vExtra, vNow
  <2>4. Vault(i)!Start
    BY <1>2, <1>3, <2>3 DEF Vault!Start, Vault!Newest, vNow, vBase, vExtra
  <2> QED BY <2>4 DEF Keeps, Vault!Next
<1>5. CASE i \in Ids
  <2>1. Win(place)[i] \in Loadable /\ Win(place)[i][1] = i
    BY <1>5, WinOfId DEF FilesOf
  <2>2. Win(place)[i] \in {<<i, "file">>, <<i, "tmp">>}
        /\ Content(Win(place)[i]) \in Rec
    BY <2>1 DEF Loadable
  <2>3. Content(Win(place)[i]) \in {disk[i], tmp[i]}
    BY <2>2 DEF Content
  <2>4. vNow(i)' = Content(Win(place)[i]).rev
    BY <1>1, <1>2, <1>5 DEF vNow
  <2>5. Version(Content(Win(place)[i])) = vNow(i)' /\ vNow(i)' # NoFile
    BY <2>2, <2>4, NoFileVersion
  <2>6. CASE tmp[i] \in Rec
    <3>1. vExtra(i) # NoFile /\ vNow(i)' \in {vBase(i), vExtra(i)} \ {NoFile}
      BY <2>3, <2>5, <2>6, NoFileVersion DEF vBase, vExtra
    <3>2. Vault(i)!LoadsEither
      BY <1>2, <1>3, <3>1 DEF Vault!LoadsEither, vNow, vBase, vExtra
    <3> QED BY <3>2 DEF Keeps
  <2>7. CASE tmp[i] \notin Rec
    <3>1. vExtra(i) = NoFile /\ vNow(i)' = vBase(i)
      BY <2>2, <2>3, <2>5, <2>7, NoFileVersion DEF vBase, vExtra
    <3>2. Vault(i)!Start
      BY <1>2, <1>3, <3>1 DEF Vault!Start, Vault!Newest, vNow, vBase, vExtra
    <3> QED BY <3>2 DEF Keeps, Vault!Next
  <2> QED BY <2>6, <2>7
<1> QED BY <1>4, <1>5

LEMMA NextKeepsVault ==
  ASSUME Typed, [Next]_vars, NEW i \in Id PROVE Keeps(i)
<1> DEFINE Step == [Vault(i)!Next]_(Vault(i)!vars)
<1>1. Step => Keeps(i)
  BY DEF Keeps
<1>2. CASE UNCHANGED vars
  <2>1. UNCHANGED Vault(i)!vars
    BY <1>2, SameVault DEF vars
  <2> QED BY <2>1 DEF Keeps
<1>3. CASE Request
  <2>1. ASSUME NEW n \in Name, phase = "up", Made(n) PROVE Step
    BY <2>1, MadeMakes
  <2>2. ASSUME NEW j \in Id, Edit(j) PROVE Step
    <3>1. j \in live /\ phase = "up" /\ rev[j] < bound.revs
          /\ rev' = [rev EXCEPT ![j] = @ + 1]
          /\ UNCHANGED <<phase, live, disk, tmp>>
      BY <2>2 DEF Edit
    <3> QED BY <3>1, EditWrites
  <2>3. ASSUME NEW j \in Id, NEW n \in Name, Rename(j, n) PROVE Step
    <3>1. CASE FreeName(name[j])
      <4>1. phase # "down" /\ phase' = "down" /\ UNCHANGED <<disk, tmp>>
        BY <2>3, <3>1 DEF Rename
      <4>2. Vault(i)!Next BY <4>1, StopStops
      <4> QED BY <4>2
    <3>2. CASE ~ FreeName(name[j])
      <4>1. j \in live /\ phase = "up" /\ rev[j] < bound.revs
            /\ rev' = [rev EXCEPT ![j] = @ + 1]
            /\ UNCHANGED <<phase, live, disk, tmp>>
        BY <2>3, <3>2 DEF Rename
      <4> QED BY <4>1, EditWrites
    <3> QED BY <3>1, <3>2
  <2> QED BY <1>1, <1>3, <2>1, <2>2, <2>3, DestroyDestroys
          DEF Request, Create, Dup
<1>4. CASE Holding
  <2>1. UNCHANGED <<phase, live, rev, disk, tmp>>
    BY <1>4 DEF Holding, Increment, Decrement, DecrementUnknown, ClientDies,
                memory, files
  <2>2. UNCHANGED Vault(i)!vars
    BY <2>1, SameVault
  <2> QED BY <2>2 DEF Keeps
<1>5. CASE Saving
  <2>1. ASSUME Terminate PROVE Step
    <3>1. phase # "down" /\ phase' # "down" /\ UNCHANGED <<live, rev, disk, tmp>>
      BY <2>1 DEF Terminate, memory, files
    <3>2. UNCHANGED Vault(i)!vars BY <3>1, SameVault
    <3> QED BY <3>2
  <2>2. ASSUME Exit PROVE Step
    <3>1. phase # "down" /\ phase' = "down" /\ UNCHANGED <<disk, tmp>>
      BY <2>2 DEF Exit, files
    <3>2. Vault(i)!Next BY <3>1, StopStops
    <3> QED BY <3>2
  <2>3. ASSUME NEW j \in Id, TimeIsOver(j) PROVE Step
    <3>1. UNCHANGED <<phase, live, rev, disk, tmp>>
      BY <2>3 DEF TimeIsOver
    <3>2. UNCHANGED Vault(i)!vars BY <3>1, SameVault
    <3> QED BY <3>2
  <2>4. ASSUME NEW j \in Id, Settle(j) \/ SettleFails(j) \/ SaveAtExit(j)
        PROVE  Step
    BY <2>4, SavingSaves
  <2> QED BY <1>1, <1>5, <2>1, <2>2, <2>3, <2>4 DEF Saving
<1>6. CASE Faults
  <2>1. ASSUME Crash PROVE Step
    <3>1. phase # "down" /\ phase' = "down" /\ UNCHANGED <<disk, tmp>>
      BY <2>1 DEF Crash, Dies, files
    <3>2. Vault(i)!Next BY <3>1, StopStops
    <3> QED BY <3>2
  <2>2. ASSUME NEW j \in Id, CrashInSave(j) PROVE Step
    BY <2>2, CrashInSaveStops
  <2> QED BY <1>1, <1>6, <2>1, <2>2 DEF Faults
<1>7. CASE Start
  BY <1>7, StartStarts
<1> QED BY <1>2, <1>3, <1>4, <1>5, <1>6, <1>7 DEF Next

LEMMA InitKeepsVault == Init => \A i \in Id : Vault(i)!Init
<1> SUFFICES ASSUME Init, NEW i \in Id PROVE Vault(i)!Init
  OBVIOUS
<1>1. vNow(i) = NoFile /\ vBase(i) = NoFile /\ vExtra(i) = NoFile
  BY NoFileVersion DEF Init, vNow, vBase, vExtra
<1> QED BY <1>1 DEF Init, Vault!Init, vNow, vBase, vExtra

(* The daemon keeps what it is given: after any stop, in the middle of a   *)
(* save or of a destruction too, a playlist is there again in the version  *)
(* saved last, and one destroyed is gone.  Where a save left its temporary *)
(* file complete, a start may take either version and does not make the    *)
(* later one the saved one, and a destruction leaves that file: nothing    *)
(* but these two breaks the promise, and nothing old comes back under the  *)
(* id of a new playlist.                                                   *)
THEOREM StoreKeepsVault == Spec => VaultSpec
<1>1. Init => \A i \in Id : Vault(i)!Init
  BY InitKeepsVault
<1>2. Typed /\ [Next]_vars => [\A i \in Id : Keeps(i)]_vars
  BY NextKeepsVault
<1>3. (\A i \in Id : Keeps(i)) <=>
        \A i \in Id : [\/ Vault(i)!Next
                       \/ Vault(i)!LoadsEither /\ Start
                       \/ Vault(i)!ForgetsHalf /\ Destroy(i)]_(Vault(i)!vars)
  BY DEF Keeps
<1> QED BY <1>1, <1>2, <1>3, AlwaysTyped, PTL DEF Spec, VaultSpec
=============================================================================
