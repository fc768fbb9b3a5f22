---------------------------- MODULE GudGemProofs ----------------------------
(***************************************************************************)
(* Theorems about GudGem, for every finite number of threads and objects,   *)
(* all arguments and every word and page size.  References and sizes are    *)
(* right whatever threads do; page arrays and mappings are, if one ioctl at *)
(* a time asks for the pages of an object (~Overlap).                       *)
(***************************************************************************)
EXTENDS GudGem, FrameLayoutProofs, FiniteSetTheorems

-----------------------------------------------------------------------------
(* Who uses an object.                                                      *)

\* Where two threads can meet: an object that is being created belongs to its
\* creator, one framebuffer is made of an object at a time, and commits follow
\* each other.
PlaceInv ==
  /\ \A t \in Threads : at[t] = "user" <=> obj[t] = 0
  /\ \A t \in Threads : at[t] \in {"handle", "unref"} =>
       /\ fbref[obj[t]] = 0 /\ maps[obj[t]] = 0 /\ handle[obj[t]] = (at[t] = "unref")
       /\ \A u \in Threads \ {t} : obj[u] # obj[t]
  /\ \A t \in Threads : at[t] = "fb" =>
       /\ fbref[obj[t]] = 0
       /\ \A u \in Threads \ {t} : obj[u] = obj[t] => at[u] # "fb"
  /\ \A t, u \in Threads : at[t] \in Committing /\ at[u] \in Committing => t = u

\* What a framebuffer has been checked for.
FbInv ==
  /\ \A o \in Objects : fbref[o] > 0 => fb[o] \in FbArgs /\ FbOk(fb[o], size[o])
  /\ \A t \in Threads : at[t] \in Committing \ {"check"} => PitchOk(fb[obj[t]])

\* TypeOK in two parts: what ioctls count, and what they map.
UseType ==
  /\ ref \in [Objects -> Nat] /\ handle \in [Objects -> BOOLEAN]
  /\ maps \in [Objects -> 0..MaxMaps] /\ fbref \in [Objects -> Nat]
  /\ fb \in [Objects -> FbArgs \cup {NoFb}] /\ userFb \in [Objects -> BOOLEAN]
  /\ shown \in Objects \cup {0}
  /\ at \in [Threads -> Places] /\ obj \in [Threads -> Objects \cup {0}]
MemType ==
  /\ size \in [Objects -> 0..SizeMax] /\ offset \in [Objects -> BOOLEAN]
  /\ pages \in [Objects -> Nat \cup {ErrPtr}] /\ vaddr \in [Objects -> Nat]
  /\ arrays \subseteq Nat \ {0} /\ IsFiniteSet(arrays)
  /\ kmaps \subseteq Nat \ {0} /\ IsFiniteSet(kmaps)

UseInv == UseType /\ RefsBalance /\ PlaceInv /\ FbInv

\* They are.
LEMMA TypeParts == UseType /\ MemType => TypeOK
  BY DEF UseType, MemType, TypeOK

-----------------------------------------------------------------------------
(* Counting threads.                                                        *)

\* The commits that hold a reference to the framebuffer on an object.
Busy(o) == {t \in Threads : obj[t] = o /\ at[t] \in Committing}

\* An object's counts, as RefsBalance has them.
Balanced(o) ==
  /\ ref[o] = One(handle[o]) + One(fbref[o] > 0) + maps[o] + Cardinality(Looking(o))
  /\ fbref[o] = One(userFb[o]) + One(shown = o) + Cardinality(Busy(o))

LEMMA BalanceDef == RefsBalance <=> \A o \in Objects : Balanced(o)
  BY DEF RefsBalance, Balanced, Busy

\* Sets of threads have a number of members.
LEMMA CountIsNat ==
  ASSUME NEW S, S \subseteq Threads
  PROVE  IsFiniteSet(S) /\ Cardinality(S) \in Nat
  BY GemAssumption, FS_Subset, FS_CardinalityType DEF GemAssumption

\* It is not zero if there is one.
LEMMA CountMember ==
  ASSUME NEW S, S \subseteq Threads, NEW t \in S
  PROVE  Cardinality(S) >= 1
<1>1. IsFiniteSet(S) /\ Cardinality(S) \in Nat
  BY CountIsNat
<1>2. Cardinality(S) # 0
  BY <1>1, FS_EmptySet
<1> QED  BY <1>1, <1>2

\* Sets that differ in one thread at most.
LEMMA CountChange ==
  ASSUME NEW S, S \subseteq Threads, NEW T, T \subseteq Threads,
         NEW t \in Threads, S \ {t} = T \ {t}
  PROVE  Cardinality(T) = Cardinality(S) - One(t \in S) + One(t \in T)
<1>1. /\ IsFiniteSet(S) /\ Cardinality(S) \in Nat
      /\ IsFiniteSet(T) /\ Cardinality(T) \in Nat
  BY CountIsNat
<1>2. Cardinality(S \ {t}) = IF t \in S THEN Cardinality(S) - 1 ELSE Cardinality(S)
  BY <1>1, FS_RemoveElement
<1>3. Cardinality(T \ {t}) = IF t \in T THEN Cardinality(T) - 1 ELSE Cardinality(T)
  BY <1>1, FS_RemoveElement
<1>4. Cardinality(S \ {t}) = Cardinality(T \ {t})
  OBVIOUS
<1> QED  BY <1>1, <1>2, <1>3, <1>4 DEF One

\* A step of one thread.
Moves(t, place, o) == Goto(t, place) /\ Keep(t, o)

LEMMA MoveCounts ==
  ASSUME UseType, NEW t \in Threads, NEW p, NEW q, Moves(t, p, q), NEW o \in Objects
  PROVE  /\ Cardinality(Looking(o)') = Cardinality(Looking(o))
              - One(obj[t] = o /\ at[t] \notin Committing) + One(q = o /\ p \notin Committing)
         /\ Cardinality(Busy(o)') = Cardinality(Busy(o))
              - One(obj[t] = o /\ at[t] \in Committing) + One(q = o /\ p \in Committing)
         /\ {Cardinality(Looking(o)), Cardinality(Looking(o)'),
             Cardinality(Busy(o)), Cardinality(Busy(o)')} \subseteq Nat
<1>1. /\ at' = [at EXCEPT ![t] = p] /\ obj' = [obj EXCEPT ![t] = q]
      /\ at \in [Threads -> Places] /\ obj \in [Threads -> Objects \cup {0}]
  BY DEF Moves, Goto, Keep, UseType
<1>2. /\ Looking(o)' = {u \in Threads : obj'[u] = o /\ at'[u] \notin Committing}
      /\ Busy(o)' = {u \in Threads : obj'[u] = o /\ at'[u] \in Committing}
  BY DEF Looking, Busy, Committing
<1>3. Looking(o) \subseteq Threads /\ Looking(o)' \subseteq Threads
      /\ Busy(o) \subseteq Threads /\ Busy(o)' \subseteq Threads
  BY <1>2 DEF Looking, Busy
<1>4. /\ Looking(o) \ {t} = Looking(o)' \ {t}
      /\ Busy(o) \ {t} = Busy(o)' \ {t}
  BY <1>1, <1>2 DEF Looking, Busy
<1>5. /\ t \in Looking(o) <=> obj[t] = o /\ at[t] \notin Committing
      /\ t \in Busy(o) <=> obj[t] = o /\ at[t] \in Committing
      /\ t \in Looking(o)' <=> q = o /\ p \notin Committing
      /\ t \in Busy(o)' <=> q = o /\ p \in Committing
  BY <1>1, <1>2 DEF Looking, Busy
<1>6. Cardinality(Looking(o)') = Cardinality(Looking(o)) - One(t \in Looking(o)) + One(t \in Looking(o)')
  BY <1>3, <1>4, CountChange
<1>7. Cardinality(Busy(o)') = Cardinality(Busy(o)) - One(t \in Busy(o)) + One(t \in Busy(o)')
  BY <1>3, <1>4, CountChange
<1>8. /\ One(t \in Looking(o)) = One(obj[t] = o /\ at[t] \notin Committing)
      /\ One(t \in Looking(o)') = One(q = o /\ p \notin Committing)
      /\ One(t \in Busy(o)) = One(obj[t] = o /\ at[t] \in Committing)
      /\ One(t \in Busy(o)') = One(q = o /\ p \in Committing)
  BY <1>5 DEF One
<1>9. {Cardinality(Looking(o)), Cardinality(Looking(o)'),
       Cardinality(Busy(o)), Cardinality(Busy(o)')} \subseteq Nat
  BY <1>3, CountIsNat
<1> QED  BY <1>6, <1>7, <1>8, <1>9

\* A step of user space.
LEMMA SameCounts ==
  ASSUME UNCHANGED <<at, obj>>, NEW o \in Objects
  PROVE  /\ Cardinality(Looking(o)') = Cardinality(Looking(o))
         /\ Cardinality(Busy(o)') = Cardinality(Busy(o))
         /\ {Cardinality(Looking(o)), Cardinality(Busy(o))} \subseteq Nat
<1>1. Looking(o)' = Looking(o) /\ Busy(o)' = Busy(o)
  BY DEF Looking, Busy, Committing
<1>2. Looking(o) \subseteq Threads /\ Busy(o) \subseteq Threads
  BY DEF Looking, Busy
<1> QED  BY <1>1, <1>2, CountIsNat

-----------------------------------------------------------------------------
(* References.                                                              *)

\* Who is inside an ioctl holds a reference.
Holding ==
  \A t \in Threads : at[t] # "user" =>
    /\ obj[t] \in Objects /\ ref[obj[t]] > 0
    /\ at[t] \in Committing => fbref[obj[t]] > 0

LEMMA Holds == UseType /\ RefsBalance /\ PlaceInv => Holding
<1> SUFFICES ASSUME UseType, RefsBalance, PlaceInv, NEW t \in Threads, at[t] # "user"
             PROVE  /\ obj[t] \in Objects /\ ref[obj[t]] > 0
                    /\ at[t] \in Committing => fbref[obj[t]] > 0
  BY DEF Holding
<1>1. obj[t] \in Objects
  BY DEF PlaceInv, UseType
<1>2. Looking(obj[t]) \subseteq Threads /\ Busy(obj[t]) \subseteq Threads
  BY DEF Looking, Busy
<1>3. Cardinality(Looking(obj[t])) \in Nat /\ Cardinality(Busy(obj[t])) \in Nat
  BY <1>2, CountIsNat
<1>4. Balanced(obj[t]) /\ maps[obj[t]] \in Nat
  BY <1>1, BalanceDef, GemAssumption DEF UseType, GemAssumption
<1>5. CASE at[t] \in Committing
  <2>1. t \in Busy(obj[t])
    BY <1>5 DEF Busy
  <2>2. Cardinality(Busy(obj[t])) >= 1
    BY <1>2, <2>1, CountMember
  <2>3. fbref[obj[t]] > 0
    BY <1>3, <1>4, <2>2 DEF Balanced, One
  <2> QED  BY <1>1, <1>3, <1>4, <2>3 DEF Balanced, One
<1>6. CASE at[t] \notin Committing
  <2>1. t \in Looking(obj[t])
    BY <1>6 DEF Looking
  <2>2. Cardinality(Looking(obj[t])) >= 1
    BY <1>2, <2>1, CountMember
  <2> QED  BY <1>1, <1>3, <1>4, <1>6, <2>2 DEF Balanced, One
<1> QED  BY <1>5, <1>6

\* The places that an ioctl walks through without touching a reference.
Paths == {"pages", "get", "test", "offset", "fail"}
Walks(t) ==
  /\ \E p \in Places :
       /\ Goto(t, p)
       /\ \/ at[t] \in Paths /\ p \in Paths
          \/ at[t] \in Committing /\ p \in Committing \ {"check"}
  /\ at[t] = "check" => PitchOk(fb[obj[t]])
  /\ UNCHANGED <<size, handle, maps, fbVars, ref, obj>>


\* The two ends of gud_gem_dumb_map_offset, and a commit that is refused.
Marked(t) ==
  /\ at[t] = "offset" /\ offset' = [offset EXCEPT ![obj[t]] = TRUE]
  /\ Goto(t, "fail") /\ UNCHANGED <<handle, maps, fbVars, ref, memVars, size, obj>>
MapReturn(t) ==
  /\ at[t] \in {"offset", "fail"} /\ Put(obj[t], 1) /\ Return(t)
  /\ UNCHANGED <<handle, maps, fbVars>>
Refused(t) ==
  /\ at[t] = "check" /\ PutFb(obj[t], 1) /\ Return(t)
  /\ UNCHANGED <<handle, maps, userFb, shown>>

\* The steps that touch references.
Acts(t) ==
  \/ CreateHandle(t) \/ CreateReturn(t) \/ MapReturn(t) \/ Refused(t) \/ Swap(t)
  \/ \E a \in FbArgs : AddFbChecked(t, a)
  \/ \E o \in Objects :
       \/ \E a \in DumbArgs : Create(t, o, a)
       \/ CloseHandle(t, o) \/ MapOffset(t, o) \/ Mmap(t, o) \/ Munmap(t, o)
       \/ AddFb(t, o) \/ RmFb(t, o) \/ Commit(t, o)

\* Every step is of one kind or the other.
LEMMA Steps ==
  ASSUME [Next]_vars
  PROVE  UNCHANGED vars \/ \E t \in Threads : Walks(t) \/ Acts(t)
<1> SUFFICES ASSUME NEW t \in Threads, Ioctl(t) PROVE Walks(t) \/ Acts(t)
  BY DEF Next, Acts
<1> USE DEF Walks, Paths, Committing, Places, objVars, fbVars, Goto
<1>1. CASE CheckPages(t, "pages", "get", "offset") \/ CheckPages(t, "vpages", "vget", "vmap")
  BY <1>1 DEF CheckPages
<1>2. CASE GetPages(t, "get", "test") \/ GetPages(t, "vget", "vtest")
  BY <1>2 DEF GetPages
<1>3. CASE TestPages(t, "test", "fail", "offset")
  BY <1>3 DEF TestPages
<1>4. CASE TestPages(t, "vtest", "swap", "vmap")
  BY <1>4 DEF TestPages
<1>5. CASE MapUnref(t)
  BY <1>5 DEF MapUnref, Acts, MapReturn
<1>6. CASE Check(t)
  BY <1>6 DEF Check, Acts, Refused
<1>7. CASE CheckVaddr(t) \/ Vmap(t) \/ Read(t)
  BY <1>7 DEF CheckVaddr, Vmap, Read
<1> QED  BY <1>1, <1>2, <1>3, <1>4, <1>5, <1>6, <1>7 DEF Ioctl, Acts

-----------------------------------------------------------------------------
(* Every step keeps the balance.                                            *)

\* A count of references does not exceed what holds them.
LEMMA BalanceParts ==
  ASSUME UseType, RefsBalance, NEW o \in Objects
  PROVE  /\ Balanced(o) /\ handle[o] \in BOOLEAN /\ userFb[o] \in BOOLEAN
         /\ {ref[o], fbref[o], maps[o], Cardinality(Looking(o)), Cardinality(Busy(o))} \subseteq Nat
<1>1. Looking(o) \subseteq Threads /\ Busy(o) \subseteq Threads
  BY DEF Looking, Busy
<1>2. Cardinality(Looking(o)) \in Nat /\ Cardinality(Busy(o)) \in Nat
  BY <1>1, CountIsNat
<1> QED  BY <1>2, BalanceDef, GemAssumption DEF UseType, GemAssumption

\* Who is where the counts of a step need it.
LEMMA PlaceParts ==
  ASSUME UseType, RefsBalance, PlaceInv, NEW t \in Threads
  PROVE  /\ at[t] = "user" => obj[t] = 0 /\ obj[t] \notin Objects
         /\ at[t] # "user" => obj[t] \in Objects /\ ref[obj[t]] > 0
         /\ at[t] \in {"handle", "unref"} =>
              fbref[obj[t]] = 0 /\ maps[obj[t]] = 0 /\ handle[obj[t]] = (at[t] = "unref")
         /\ at[t] = "fb" => fbref[obj[t]] = 0
         /\ at[t] \in Committing => fbref[obj[t]] > 0
<1>1. Holding
  BY Holds
<1> QED  BY <1>1, GemAssumption DEF PlaceInv, Holding, GemAssumption, Committing

\* A new object is its creator's alone.
LEMMA CreatorIsAlone ==
  ASSUME UseType, RefsBalance, PlaceInv, NEW t \in Threads, at[t] = "handle"
  PROVE  ref[obj[t]] = 1
<1>1. obj[t] \in Objects /\ fbref[obj[t]] = 0 /\ maps[obj[t]] = 0 /\ handle[obj[t]] = FALSE
  BY PlaceParts
<1>2. Looking(obj[t]) = {t}
  BY DEF Looking, PlaceInv, Committing
<1>3. Cardinality(Looking(obj[t])) = 1
  BY <1>2, FS_Singleton
<1> QED  BY <1>1, <1>3, BalanceParts DEF Balanced, One

\* It is enough to look at each object after the step.
LEMMA BalanceAfter ==
  ASSUME \A o \in Objects : Balanced(o)'
  PROVE  RefsBalance'
  BY DEF RefsBalance, Balanced, Busy, Committing

\* The creation of an object.
LEMMA BalanceCreate ==
  ASSUME UseType, RefsBalance, PlaceInv, NEW t \in Threads,
         \/ \E o \in Objects, a \in DumbArgs : Create(t, o, a)
         \/ CreateHandle(t) \/ CreateReturn(t)
  PROVE  RefsBalance'
<1> SUFFICES ASSUME NEW o \in Objects PROVE Balanced(o)'
  BY BalanceAfter
<1>0. /\ Balanced(o) /\ handle[o] \in BOOLEAN /\ userFb[o] \in BOOLEAN
      /\ {ref[o], fbref[o], maps[o], Cardinality(Looking(o)), Cardinality(Busy(o))} \subseteq Nat
  BY BalanceParts
<1>t. /\ ref \in [Objects -> Nat] /\ handle \in [Objects -> BOOLEAN]
      /\ at \in [Threads -> Places] /\ obj \in [Threads -> Objects \cup {0}]
  BY DEF UseType
<1>1. ASSUME NEW p \in Objects, NEW a \in DumbArgs, Create(t, p, a)
      PROVE  Balanced(o)'
  <2>1. Moves(t, "handle", p) /\ at[t] = "user" /\ obj[t] \notin Objects
    BY <1>1, PlaceParts DEF Create, Looked, Moves
  <2>2. /\ Cardinality(Looking(o)') = Cardinality(Looking(o)) + One(p = o)
        /\ Cardinality(Busy(o)') = Cardinality(Busy(o))
    BY <1>0, <2>1, MoveCounts DEF One, Committing
  <2>3. /\ ref' = [ref EXCEPT ![p] = @ + 1]
        /\ UNCHANGED <<handle, fbref, maps, userFb, shown>>
    BY <1>1 DEF Create, Looked, Get, fbVars
  <2> QED  BY <1>0, <1>t, <2>2, <2>3 DEF Balanced, One
<1>2. ASSUME at[t] = "handle", Get(obj[t]), Goto(t, "unref"),
             handle' = [handle EXCEPT ![obj[t]] = TRUE], UNCHANGED <<maps, fbVars, obj>>
      PROVE  Balanced(o)'
  <2>1. Moves(t, "unref", obj[t]) /\ handle[obj[t]] = FALSE
    BY <1>2, <1>t, PlaceParts DEF Moves, Keep
  <2>2. /\ Cardinality(Looking(o)') = Cardinality(Looking(o))
        /\ Cardinality(Busy(o)') = Cardinality(Busy(o))
    BY <1>0, <1>2, <2>1, MoveCounts DEF One, Committing
  <2> QED  BY <1>0, <1>2, <1>t, <2>1, <2>2 DEF Balanced, One, Get, fbVars
<1>3. ASSUME at[t] \in {"handle", "unref"}, Return(t), ref' = [ref EXCEPT ![obj[t]] = @ - 1],
             UNCHANGED <<handle, maps, fbVars>>
      PROVE  Balanced(o)'
  <2>1. Moves(t, "user", 0) /\ obj[t] \in Objects
    BY <1>3, PlaceParts DEF Moves, Return
  <2>2. /\ Cardinality(Looking(o)') = Cardinality(Looking(o)) - One(obj[t] = o)
        /\ Cardinality(Busy(o)') = Cardinality(Busy(o))
    BY <1>0, <1>3, <2>1, GemAssumption, MoveCounts DEF One, Committing, GemAssumption
  <2> QED  BY <1>0, <1>3, <1>t, <2>1, <2>2 DEF Balanced, One, fbVars
<1>4. CASE CreateHandle(t)
  BY <1>2, <1>3, <1>4, CreatorIsAlone DEF CreateHandle, Put
<1>5. CASE CreateReturn(t)
  BY <1>3, <1>5 DEF CreateReturn, Put
<1> QED  BY <1>1, <1>4, <1>5

\* Steps of user space: handles, mappings, and the removal of a framebuffer.
LEMMA BalanceUser ==
  ASSUME UseType, RefsBalance, PlaceInv, NEW t \in Threads, NEW p \in Objects,
         CloseHandle(t, p) \/ Mmap(t, p) \/ Munmap(t, p) \/ RmFb(t, p)
  PROVE  RefsBalance'
<1> SUFFICES ASSUME NEW o \in Objects PROVE Balanced(o)'
  BY BalanceAfter
<1>0. /\ Balanced(o) /\ handle[o] \in BOOLEAN /\ userFb[o] \in BOOLEAN
      /\ {ref[o], fbref[o], maps[o], Cardinality(Looking(o)), Cardinality(Busy(o))} \subseteq Nat
  BY BalanceParts
<1>t. /\ ref \in [Objects -> Nat] /\ handle \in [Objects -> BOOLEAN] /\ fbref \in [Objects -> Nat]
      /\ userFb \in [Objects -> BOOLEAN] /\ maps \in [Objects -> 0..MaxMaps] /\ MaxMaps \in Nat
      /\ 0 \notin Objects
  BY GemAssumption DEF UseType, GemAssumption
<1>s. /\ Cardinality(Looking(o)') = Cardinality(Looking(o))
      /\ Cardinality(Busy(o)') = Cardinality(Busy(o))
  BY SameCounts DEF CloseHandle, Mmap, Munmap, RmFb
<1>1. CASE CloseHandle(t, p)
  BY <1>0, <1>t, <1>s, <1>1 DEF CloseHandle, Put, Known, Balanced, One, fbVars
<1>2. CASE Mmap(t, p)
  BY <1>0, <1>t, <1>s, <1>2 DEF Mmap, Get, Balanced, One, fbVars
<1>3. CASE Munmap(t, p)
  BY <1>0, <1>t, <1>s, <1>3 DEF Munmap, Put, Balanced, One, fbVars
<1>4. CASE RmFb(t, p)
  <2>1. fbref[p] > 1 => Cardinality(Busy(p)) = 0
    <3>1. SUFFICES ASSUME fbref[p] > 1 PROVE Busy(p) = {}
      BY FS_EmptySet
    <3> QED  BY <1>4, <3>1 DEF RmFb, NoCommit, Busy
  <2>2. /\ Balanced(p) /\ userFb[p] /\ Cardinality(Busy(p)) \in Nat
    BY <1>4, BalanceParts DEF RmFb
  <2>3. /\ fbref' = [fbref EXCEPT ![p] = @ - (IF shown = p THEN 2 ELSE 1)]
        /\ ref' = IF fbref[p] = (IF shown = p THEN 2 ELSE 1) THEN [ref EXCEPT ![p] = @ - 1] ELSE ref
        /\ userFb' = [userFb EXCEPT ![p] = FALSE] /\ UNCHANGED <<handle, maps>>
        /\ shown' = IF shown = p THEN 0 ELSE shown
    BY <1>4 DEF RmFb, PutFb, Put
  <2>4. CASE o = p
    BY <1>0, <1>t, <1>s, <2>1, <2>2, <2>3, <2>4 DEF Balanced, One
  <2>5. CASE o # p
    BY <1>0, <1>t, <1>s, <2>3, <2>5 DEF Balanced, One
  <2> QED  BY <2>4, <2>5
<1> QED  BY <1>1, <1>2, <1>3, <1>4

\* An ioctl that looks an object up, and one that lets it go.
LEMMA BalanceLookup ==
  ASSUME UseType, RefsBalance, PlaceInv, NEW t \in Threads,
         \/ \E p \in Objects : MapOffset(t, p) \/ AddFb(t, p)
         \/ MapReturn(t) \/ \E a \in FbArgs : AddFbChecked(t, a)
  PROVE  RefsBalance'
<1> SUFFICES ASSUME NEW o \in Objects PROVE Balanced(o)'
  BY BalanceAfter
<1>0. /\ Balanced(o) /\ handle[o] \in BOOLEAN /\ userFb[o] \in BOOLEAN
      /\ {ref[o], fbref[o], maps[o], Cardinality(Looking(o)), Cardinality(Busy(o))} \subseteq Nat
  BY BalanceParts
<1>t. /\ ref \in [Objects -> Nat] /\ fbref \in [Objects -> Nat] /\ userFb \in [Objects -> BOOLEAN]
      /\ 0 \notin Objects
  BY GemAssumption DEF UseType, GemAssumption
<1>1. ASSUME NEW p \in Objects, MapOffset(t, p) \/ AddFb(t, p)
      PROVE  Balanced(o)'
  <2>1. PICK q \in {"pages", "fb"} : Looked(t, p, q)
    BY <1>1 DEF MapOffset, AddFb
  <2>2. Moves(t, q, p) /\ at[t] = "user" /\ obj[t] \notin Objects
    BY <1>1, <2>1, PlaceParts DEF MapOffset, AddFb, Looked, Moves
  <2>3. /\ Cardinality(Looking(o)') = Cardinality(Looking(o)) + One(p = o)
        /\ Cardinality(Busy(o)') = Cardinality(Busy(o))
    BY <1>0, <2>1, <2>2, MoveCounts DEF One, Committing
  <2>4. /\ ref' = [ref EXCEPT ![p] = @ + 1]
        /\ UNCHANGED <<handle, fbref, maps, userFb, shown>>
    BY <1>1, <2>1 DEF MapOffset, AddFb, Looked, Get, fbVars, objVars
  <2> QED  BY <1>0, <1>t, <2>3, <2>4 DEF Balanced, One
<1>2. ASSUME at[t] \in {"offset", "fail", "fb"}, Return(t)
      PROVE  /\ Cardinality(Looking(o)') = Cardinality(Looking(o)) - One(obj[t] = o)
             /\ Cardinality(Busy(o)') = Cardinality(Busy(o))
             /\ obj[t] \in Objects
  <2>1. Moves(t, "user", 0) /\ obj[t] \in Objects
    BY <1>2, PlaceParts DEF Moves, Return
  <2> QED  BY <1>0, <1>2, <1>t, <2>1, MoveCounts DEF One, Committing
<1>3. CASE MapReturn(t)
  <2>1. /\ ref' = [ref EXCEPT ![obj[t]] = @ - 1] /\ UNCHANGED <<handle, maps, fbref, userFb, shown>>
    BY <1>3 DEF MapReturn, Put, fbVars
  <2> QED  BY <1>0, <1>2, <1>3, <1>t, <2>1 DEF MapReturn, Balanced, One
<1>4. ASSUME NEW a \in FbArgs, AddFbChecked(t, a)
      PROVE  Balanced(o)'
  <2>1. /\ UNCHANGED <<handle, maps, shown>>
        /\ \/ /\ fbref' = [fbref EXCEPT ![obj[t]] = 1]
              /\ userFb' = [userFb EXCEPT ![obj[t]] = TRUE] /\ UNCHANGED ref
           \/ ref' = [ref EXCEPT ![obj[t]] = @ - 1] /\ UNCHANGED <<fbref, userFb>>
    BY <1>4 DEF AddFbChecked, Put
  <2>2. at[t] = "fb" /\ fbref[obj[t]] = 0
    BY <1>4, PlaceParts DEF AddFbChecked
  <2>3. /\ Cardinality(Looking(o)') = Cardinality(Looking(o)) - One(obj[t] = o)
        /\ Cardinality(Busy(o)') = Cardinality(Busy(o)) /\ obj[t] \in Objects
    BY <1>2, <1>4, <2>2 DEF AddFbChecked
  <2> QED  BY <1>0, <1>t, <2>1, <2>2, <2>3 DEF Balanced, One
<1> QED  BY <1>1, <1>3, <1>4

\* A commit.
LEMMA BalanceCommit ==
  ASSUME UseType, RefsBalance, PlaceInv, NEW t \in Threads,
         (\E p \in Objects : Commit(t, p)) \/ Refused(t) \/ Swap(t)
  PROVE  RefsBalance'
<1> SUFFICES ASSUME NEW o \in Objects PROVE Balanced(o)'
  BY BalanceAfter
<1>0. /\ Balanced(o) /\ handle[o] \in BOOLEAN /\ userFb[o] \in BOOLEAN
      /\ {ref[o], fbref[o], maps[o], Cardinality(Looking(o)), Cardinality(Busy(o))} \subseteq Nat
  BY BalanceParts
<1>t. /\ ref \in [Objects -> Nat] /\ fbref \in [Objects -> Nat] /\ userFb \in [Objects -> BOOLEAN]
      /\ 0 \notin Objects
  BY GemAssumption DEF UseType, GemAssumption
<1>1. ASSUME NEW p \in Objects, Commit(t, p)
      PROVE  Balanced(o)'
  <2>1. Moves(t, "check", p) /\ at[t] = "user" /\ obj[t] \notin Objects
    BY <1>1, PlaceParts DEF Commit, Moves
  <2>2. /\ Cardinality(Looking(o)') = Cardinality(Looking(o))
        /\ Cardinality(Busy(o)') = Cardinality(Busy(o)) + One(p = o)
    BY <1>0, <2>1, MoveCounts DEF One, Committing
  <2>3. /\ fbref' = [fbref EXCEPT ![p] = @ + 1] /\ userFb[p]
        /\ UNCHANGED <<ref, handle, maps, userFb, shown>>
    BY <1>1 DEF Commit, objVars
  <2>4. Balanced(p) /\ fbref[p] > 0 /\ fbref[p] \in Nat
    BY <2>3, BalanceParts DEF Balanced, One
  <2> QED  BY <1>0, <1>t, <2>2, <2>3, <2>4 DEF Balanced, One
<1>2. ASSUME at[t] \in Committing, Return(t)
      PROVE  /\ Cardinality(Looking(o)') = Cardinality(Looking(o))
             /\ Cardinality(Busy(o)') = Cardinality(Busy(o)) - One(obj[t] = o)
             /\ obj[t] \in Objects /\ fbref[obj[t]] > 0
  <2>1. Moves(t, "user", 0) /\ obj[t] \in Objects /\ fbref[obj[t]] > 0
    BY <1>2, PlaceParts DEF Moves, Return, Committing
  <2> QED  BY <1>0, <1>2, <1>t, <2>1, MoveCounts DEF One, Committing
<1>3. CASE Refused(t)
  <2>1. /\ fbref' = [fbref EXCEPT ![obj[t]] = @ - 1] /\ UNCHANGED <<handle, maps, userFb, shown>>
        /\ ref' = IF fbref[obj[t]] = 1 THEN [ref EXCEPT ![obj[t]] = @ - 1] ELSE ref
    BY <1>3 DEF Refused, PutFb, Put
  <2>2. at[t] \in Committing /\ Return(t)
    BY <1>3 DEF Refused, Committing
  <2>4. CASE obj[t] = o
    BY <1>0, <1>2, <1>t, <2>1, <2>2, <2>4 DEF Balanced, One
  <2>5. CASE obj[t] # o
    BY <1>0, <1>2, <1>t, <2>1, <2>2, <2>5 DEF Balanced, One
  <2> QED  BY <2>4, <2>5
<1>4. CASE Swap(t)
  <2>1. /\ IF shown # 0
           THEN /\ fbref' = [fbref EXCEPT ![shown] = @ - 1]
                /\ ref' = IF fbref[shown] = 1 THEN [ref EXCEPT ![shown] = @ - 1] ELSE ref
           ELSE UNCHANGED <<fbref, ref>>
        /\ shown' = obj[t] /\ UNCHANGED <<handle, maps, userFb>>
    BY <1>4 DEF Swap, PutFb, Put
  <2>2. at[t] \in Committing /\ Return(t)
    BY <1>4 DEF Swap, Committing
  <2>3. shown \in Objects \cup {0}
    BY DEF UseType
  <2>4. CASE obj[t] = o
    BY <1>0, <1>2, <1>t, <2>1, <2>2, <2>3, <2>4 DEF Balanced, One
  <2>5. CASE obj[t] # o
    BY <1>0, <1>2, <1>t, <2>1, <2>2, <2>3, <2>5 DEF Balanced, One
  <2> QED  BY <2>4, <2>5
<1> QED  BY <1>1, <1>3, <1>4

\* The references balance after every step.
LEMMA BalanceStep ==
  ASSUME UseType, RefsBalance, PlaceInv, [Next]_vars
  PROVE  RefsBalance'
<1>1. CASE UNCHANGED vars
  BY <1>1 DEF vars, objVars, fbVars, RefsBalance, Looking, Committing
<1>2. ASSUME NEW t \in Threads, Walks(t)
      PROVE  RefsBalance'
  <2> SUFFICES ASSUME NEW o \in Objects PROVE Balanced(o)'
    BY BalanceAfter
  <2>1. PICK q \in Places :
          Moves(t, q, obj[t]) /\ (at[t] \in Committing <=> q \in Committing)
    BY <1>2 DEF Walks, Moves, Keep, Paths, Committing, UseType
  <2>2. /\ Balanced(o)
        /\ {Cardinality(Looking(o)), Cardinality(Busy(o))} \subseteq Nat
    BY BalanceParts
  <2>3. /\ Cardinality(Looking(o)') = Cardinality(Looking(o))
        /\ Cardinality(Busy(o)') = Cardinality(Busy(o))
    BY <2>1, <2>2, MoveCounts DEF One
  <2>4. UNCHANGED <<ref, handle, fbref, maps, userFb, shown>>
    BY <1>2 DEF Walks, fbVars
  <2> QED  BY <2>2, <2>3, <2>4 DEF Balanced
<1>3. ASSUME NEW t \in Threads, Acts(t)
      PROVE  RefsBalance'
  BY <1>3, BalanceCreate, BalanceUser, BalanceLookup, BalanceCommit DEF Acts
<1> QED  BY <1>1, <1>2, <1>3, Steps

-----------------------------------------------------------------------------
(* Every step keeps the types.                                              *)

\* The shapes of the counts, before their signs are known.
Shapes ==
  /\ ref \in [Objects -> Int] /\ handle \in [Objects -> BOOLEAN]
  /\ maps \in [Objects -> 0..MaxMaps] /\ fbref \in [Objects -> Int]
  /\ fb \in [Objects -> FbArgs \cup {NoFb}] /\ userFb \in [Objects -> BOOLEAN]
  /\ shown \in Objects \cup {0}
  /\ at \in [Threads -> Places] /\ obj \in [Threads -> Objects \cup {0}]

LEMMA ShapesAct ==
  ASSUME UseType, RefsBalance, PlaceInv, NEW t \in Threads, Acts(t)
  PROVE  Shapes'
<1>t. Shapes /\ (at[t] # "user" => obj[t] \in Objects) /\ MaxMaps \in Nat
  BY PlaceParts, GemAssumption DEF Shapes, UseType, GemAssumption
<1> USE DEF Shapes, Places, Committing
<1>1. ASSUME NEW o \in Objects, NEW n \in Int, Shapes, Put(o, n)
      PROVE  ref' \in [Objects -> Int]
  BY <1>1 DEF Put
<1>2. ASSUME NEW o \in Objects, NEW n \in Int, Shapes, PutFb(o, n)
      PROVE  /\ ref' \in [Objects -> Int] /\ fbref' \in [Objects -> Int]
             /\ fb' \in [Objects -> FbArgs \cup {NoFb}]
  BY <1>1, <1>2 DEF PutFb
<1>3. ASSUME NEW p \in Places, NEW o \in Objects \cup {0}, Moves(t, p, o)
      PROVE  at' \in [Threads -> Places] /\ obj' \in [Threads -> Objects \cup {0}]
  BY <1>3, <1>t DEF Moves, Goto, Keep
<1>4. ASSUME NEW o \in Objects, NEW p \in Places, Looked(t, o, p)
      PROVE  /\ ref' \in [Objects -> Int]
             /\ at' \in [Threads -> Places] /\ obj' \in [Threads -> Objects \cup {0}]
  BY <1>3, <1>4, <1>t DEF Looked, Get, Moves
<1>5. ASSUME Return(t)
      PROVE  at' \in [Threads -> Places] /\ obj' \in [Threads -> Objects \cup {0}]
  BY <1>3, <1>5 DEF Return, Moves
<1>6. CASE \E o \in Objects, a \in DumbArgs : Create(t, o, a)
  BY <1>4, <1>6, <1>t DEF Create, fbVars
<1>7. CASE CreateHandle(t)
  <2>1. ref[obj[t]] \in Int /\ obj[t] \in Objects
    BY <1>7, <1>t DEF CreateHandle
  <2>2. CASE /\ handle' = [handle EXCEPT ![obj[t]] = TRUE] /\ Get(obj[t])
             /\ Goto(t, "unref") /\ UNCHANGED <<maps, fbVars, obj>>
    BY <1>t, <2>1, <2>2 DEF fbVars, Get, Goto
  <2>3. CASE Put(obj[t], ref[obj[t]]) /\ Return(t) /\ UNCHANGED <<handle, maps, fbVars>>
    BY <1>1, <1>5, <1>t, <2>1, <2>3 DEF fbVars
  <2> QED  BY <1>7, <2>2, <2>3 DEF CreateHandle
<1>8. CASE CreateReturn(t)
  BY <1>1, <1>5, <1>8, <1>t DEF CreateReturn, fbVars
<1>9. CASE MapReturn(t)
  BY <1>1, <1>5, <1>9, <1>t DEF MapReturn, fbVars
<1>10. CASE Refused(t)
  BY <1>2, <1>5, <1>10, <1>t DEF Refused
<1>11. CASE Swap(t)
  BY <1>2, <1>5, <1>11, <1>t DEF Swap
<1>12. ASSUME NEW a \in FbArgs, AddFbChecked(t, a)
       PROVE  Shapes'
  <2>1. obj[t] \in Objects
    BY <1>12, <1>t DEF AddFbChecked
  <2>2. CASE /\ fb' = [fb EXCEPT ![obj[t]] = a] /\ fbref' = [fbref EXCEPT ![obj[t]] = 1]
             /\ userFb' = [userFb EXCEPT ![obj[t]] = TRUE]
             /\ Return(t) /\ UNCHANGED <<ref, handle, maps, shown>>
    BY <1>5, <1>t, <2>1, <2>2
  <2>3. CASE /\ Put(obj[t], 1) /\ Return(t)
             /\ UNCHANGED <<fb, fbref, userFb, handle, maps, shown>>
    BY <1>1, <1>5, <1>t, <2>1, <2>3
  <2> QED  BY <1>12, <2>2, <2>3 DEF AddFbChecked
<1>13. ASSUME NEW o \in Objects, CloseHandle(t, o) \/ Mmap(t, o) \/ Munmap(t, o)
       PROVE  Shapes'
  <2>1. ref' \in [Objects -> Int]
    BY <1>1, <1>13, <1>t DEF CloseHandle, Mmap, Munmap, Get
  <2>2. handle' \in [Objects -> BOOLEAN]
    BY <1>13, <1>t DEF CloseHandle, Mmap, Munmap
  <2>3. maps' \in [Objects -> 0..MaxMaps]
    BY <1>13, <1>t DEF CloseHandle, Mmap, Munmap
  <2> QED  BY <1>13, <1>t, <2>1, <2>2, <2>3 DEF CloseHandle, Mmap, Munmap, fbVars
<1>14. CASE \E o \in Objects : MapOffset(t, o) \/ AddFb(t, o)
  BY <1>4, <1>14, <1>t DEF MapOffset, AddFb, fbVars, objVars
<1>15. ASSUME NEW o \in Objects, RmFb(t, o)
       PROVE  Shapes'
  BY <1>2, <1>15, <1>t DEF RmFb
<1>16. CASE \E o \in Objects : Commit(t, o)
  BY <1>3, <1>16, <1>t DEF Commit, Moves, objVars
<1> QED  BY <1>6, <1>7, <1>8, <1>9, <1>10, <1>11, <1>12, <1>13, <1>14, <1>15, <1>16 DEF Acts

LEMMA UseTypeStep ==
  ASSUME UseType, RefsBalance, PlaceInv, [Next]_vars
  PROVE  UseType'
<1>1. Shapes'
  <2>1. CASE UNCHANGED vars
    BY <2>1 DEF vars, objVars, fbVars, UseType, Shapes
  <2>2. ASSUME NEW t \in Threads, Walks(t)
        PROVE  Shapes'
    BY <2>2 DEF Walks, Goto, fbVars, UseType, Shapes
  <2> QED  BY <2>1, <2>2, ShapesAct, Steps
<1>2. ASSUME NEW o \in Objects
      PROVE  ref'[o] \in Nat /\ fbref'[o] \in Nat
  <2>1. Balanced(o)'
    BY BalanceStep DEF RefsBalance, Balanced, Busy, Committing
  <2>2. Looking(o)' \subseteq Threads /\ Busy(o)' \subseteq Threads
    BY DEF Looking, Busy
  <2>3. Cardinality(Looking(o)') \in Nat /\ Cardinality(Busy(o)') \in Nat
    BY <2>2, CountIsNat
  <2> QED  BY <1>1, <2>1, <2>3, GemAssumption DEF Balanced, One, Shapes, GemAssumption
<1>3. ref' \in [Objects -> Nat] /\ fbref' \in [Objects -> Nat]
  BY <1>1, <1>2 DEF Shapes
<1> QED  BY <1>1, <1>3 DEF Shapes, UseType

-----------------------------------------------------------------------------
(* Where threads can meet.                                                  *)

\* Objects that others may reach: not one that is being created.
Reached(o) == \A u \in Threads : obj[u] = o => at[u] \notin {"handle", "unref"}

LEMMA Reachable ==
  ASSUME UseType, RefsBalance, PlaceInv, NEW o \in Objects,
         Known(o) \/ maps[o] > 0 \/ userFb[o] \/ shown = o
  PROVE  Reached(o) /\ (userFb[o] \/ shown = o => fbref[o] > 0)
<1>1. userFb[o] \/ shown = o => fbref[o] > 0
  BY BalanceParts DEF Balanced, One
<1>2. ASSUME NEW u \in Threads, obj[u] = o, at[u] \in {"handle", "unref"}
      PROVE  FALSE
  <2>1. fbref[o] = 0 /\ maps[o] = 0 /\ (handle[o] => at[u] = "unref")
    BY <1>2 DEF PlaceInv
  <2> QED  BY <1>1, <1>2, <2>1 DEF Known
<1> QED  BY <1>1, <1>2 DEF Reached

\* What a thread's step leaves alone: all that PlaceInv says of objects but o.
Leaves(t, o) ==
  /\ \A x \in Objects \ {o} :
       fbref'[x] = fbref[x] /\ maps'[x] = maps[x] /\ handle'[x] = handle[x]
  /\ \A u \in Threads \ {t} : obj[u] = o =>
       at[u] \notin {"handle", "unref"} /\ (at[u] = "fb" => fbref'[o] = 0)

\* What the place that the step leads to asks for.
Arrives(t, p, q) ==
  /\ p = "user" <=> q = 0
  /\ p \in {"handle", "unref"} =>
       /\ fbref'[q] = 0 /\ maps'[q] = 0 /\ handle'[q] = (p = "unref")
       /\ \A u \in Threads \ {t} : obj[u] # q
  /\ p = "fb" => fbref'[q] = 0 /\ \A u \in Threads \ {t} : obj[u] = q => at[u] # "fb"
  /\ p \in Committing => at[t] \in Committing \/ NoCommit

LEMMA PlaceKept ==
  ASSUME UseType, PlaceInv, NEW t \in Threads, NEW p \in Places, NEW q \in Objects \cup {0},
         NEW o \in Objects \cup {0}, q \in {0, o},
         Moves(t, p, q), Leaves(t, o), Arrives(t, p, q)
  PROVE  PlaceInv'
<1>1. /\ at' = [at EXCEPT ![t] = p] /\ obj' = [obj EXCEPT ![t] = q]
      /\ at \in [Threads -> Places] /\ obj \in [Threads -> Objects \cup {0}]
  BY DEF Moves, Goto, Keep, UseType
<1>2. /\ at'[t] = p /\ obj'[t] = q
      /\ \A u \in Threads \ {t} : at'[u] = at[u] /\ obj'[u] = obj[u]
  BY <1>1
<1>3. \A u \in Threads : at'[u] = "user" <=> obj'[u] = 0
  BY <1>2 DEF PlaceInv, Arrives
<1>4. ASSUME NEW u \in Threads, at'[u] \in {"handle", "unref"}
      PROVE  /\ fbref'[obj'[u]] = 0 /\ maps'[obj'[u]] = 0 /\ handle'[obj'[u]] = (at'[u] = "unref")
             /\ \A v \in Threads \ {u} : obj'[v] # obj'[u]
  <2>1. CASE u = t
    BY <1>2, <1>4, <2>1 DEF Arrives
  <2>2. CASE u # t
    <3>1. at[u] \in {"handle", "unref"} /\ obj[u] \in Objects \ {o} /\ q # obj[u]
      BY <1>1, <1>2, <1>4, <2>2 DEF PlaceInv, Leaves
    <3>2. /\ fbref'[obj'[u]] = 0 /\ maps'[obj'[u]] = 0 /\ handle'[obj'[u]] = (at'[u] = "unref")
      <4>1. /\ fbref[obj[u]] = 0 /\ maps[obj[u]] = 0 /\ handle[obj[u]] = (at[u] = "unref")
        BY <3>1 DEF PlaceInv
      <4>2. /\ fbref'[obj[u]] = fbref[obj[u]] /\ maps'[obj[u]] = maps[obj[u]]
            /\ handle'[obj[u]] = handle[obj[u]]
        BY <3>1 DEF Leaves
      <4> QED  BY <1>2, <2>2, <4>1, <4>2
    <3>3. ASSUME NEW v \in Threads \ {u} PROVE obj'[v] # obj'[u]
      BY <1>2, <2>2, <3>1 DEF PlaceInv
    <3> QED  BY <3>2, <3>3
  <2> QED  BY <2>1, <2>2
<1>5. ASSUME NEW u \in Threads, at'[u] = "fb"
      PROVE  fbref'[obj'[u]] = 0 /\ \A v \in Threads \ {u} : obj'[v] = obj'[u] => at'[v] # "fb"
  <2>1. fbref'[obj'[u]] = 0
    <3>1. CASE u = t
      BY <1>2, <1>5, <3>1 DEF Arrives
    <3>2. CASE u # t /\ obj[u] = o
      BY <1>2, <1>5, <3>2 DEF Leaves
    <3>3. CASE u # t /\ obj[u] # o
      <4>1. at[u] = "fb" /\ obj[u] \in Objects \ {o} /\ obj'[u] = obj[u]
        BY <1>1, <1>2, <1>5, <3>3 DEF PlaceInv
      <4>2. fbref[obj[u]] = 0
        BY <4>1 DEF PlaceInv
      <4>3. fbref'[obj[u]] = fbref[obj[u]]
        BY <4>1 DEF Leaves
      <4> QED  BY <4>1, <4>2, <4>3
    <3> QED  BY <3>1, <3>2, <3>3
  <2>2. ASSUME NEW v \in Threads \ {u}, obj'[v] = obj'[u], at'[v] = "fb" PROVE FALSE
    BY <1>2, <1>5, <2>2 DEF PlaceInv, Arrives
  <2> QED  BY <2>1, <2>2
<1>6. ASSUME NEW u \in Threads, NEW v \in Threads, at'[u] \in Committing, at'[v] \in Committing
      PROVE  u = v
  BY <1>2, <1>6 DEF PlaceInv, NoCommit, Arrives
<1>7. Committing' = Committing
  BY DEF Committing
<1> QED  BY <1>3, <1>4, <1>5, <1>6, <1>7 DEF PlaceInv

LEMMA PlaceStep ==
  ASSUME UseType, RefsBalance, PlaceInv, [Next]_vars
  PROVE  PlaceInv'
<1>t. /\ ref \in [Objects -> Nat] /\ handle \in [Objects -> BOOLEAN] /\ fbref \in [Objects -> Nat]
      /\ userFb \in [Objects -> BOOLEAN] /\ maps \in [Objects -> 0..MaxMaps] /\ MaxMaps \in Nat
      /\ shown \in Objects \cup {0} /\ at \in [Threads -> Places]
      /\ obj \in [Threads -> Objects \cup {0}] /\ 0 \notin Objects
  BY GemAssumption DEF UseType, GemAssumption
<1>p. \A u \in Threads :
        /\ at[u] = "user" => obj[u] = 0 /\ obj[u] \notin Objects
        /\ at[u] # "user" => obj[u] \in Objects
        /\ at[u] \in {"handle", "unref"} =>
             fbref[obj[u]] = 0 /\ maps[obj[u]] = 0 /\ handle[obj[u]] = (at[u] = "unref")
        /\ at[u] = "fb" => fbref[obj[u]] = 0
        /\ at[u] \in Committing => fbref[obj[u]] > 0
  BY PlaceParts
<1>r. \A o \in Objects :
        Known(o) \/ maps[o] > 0 \/ userFb[o] \/ shown = o
          => Reached(o) /\ (userFb[o] \/ shown = o => fbref[o] > 0)
  BY Reachable
<1>n. ASSUME NEW t \in Threads, UNCHANGED <<handle, maps, fbref>>
      PROVE  Leaves(t, 0)
  BY <1>n, <1>p, <1>t DEF Leaves
<1>s. ASSUME NEW t \in Threads, NEW o \in Objects, UNCHANGED <<handle, maps, fbref>>, Reached(o)
      PROVE  Leaves(t, o)
  BY <1>s, <1>p DEF Leaves, Reached
<1>f. ASSUME NEW t \in Threads, NEW o \in Objects \cup {0}, UNCHANGED <<handle, maps>>,
             o # 0 => Reached(o) /\ fbref[o] > 0,
             \A x \in Objects \ {o} : fbref'[x] = fbref[x]
      PROVE  Leaves(t, o)
  <2>1. \A u \in Threads : obj[u] = o => at[u] \notin {"fb", "handle", "unref"}
    BY <1>f, <1>p, <1>t DEF Reached
  <2> QED  BY <1>f, <2>1 DEF Leaves
<1>u. ASSUME NEW t \in Threads
      PROVE  Arrives(t, "user", 0) /\ "user" \in Places
  BY DEF Arrives, Committing, Places
<1>1. CASE UNCHANGED vars
  BY <1>1 DEF vars, objVars, fbVars, PlaceInv, Committing
<1>2. ASSUME NEW t \in Threads, Walks(t)
      PROVE  PlaceInv'
  <2>1. PICK p \in Places : Moves(t, p, obj[t]) /\ p \notin {"user", "handle", "unref", "fb"}
          /\ (p \in Committing => at[t] \in Committing)
          /\ at[t] \notin {"user", "handle", "unref", "fb"}
    BY <1>2, <1>t DEF Walks, Moves, Keep, Paths, Committing
  <2>2. obj[t] \in Objects /\ obj[t] # 0 /\ Reached(obj[t])
    BY <1>p, <1>t, <2>1 DEF Reached, PlaceInv
  <2>3. Leaves(t, obj[t])
    BY <1>2, <1>s, <2>2 DEF Walks, fbVars
  <2>4. Arrives(t, p, obj[t])
    BY <2>1, <2>2 DEF Arrives
  <2> QED  BY <2>1, <2>2, <2>3, <2>4, PlaceKept
<1>3. ASSUME NEW t \in Threads, NEW o \in Objects, NEW a \in DumbArgs, Create(t, o, a)
      PROVE  PlaceInv'
  <2>1. Moves(t, "handle", o) /\ "handle" \in Places \ Committing
    BY <1>3 DEF Create, Looked, Moves, Places, Committing
  <2>2. UNCHANGED <<handle, maps, fbref>> /\ \A u \in Threads : obj[u] # o
    BY <1>3 DEF Create, fbVars
  <2>3. fbref[o] = 0 /\ maps[o] = 0 /\ handle[o] = FALSE
    <3>1. ref[o] = 0
      BY <1>3 DEF Create
    <3> QED  BY <3>1, BalanceParts DEF Balanced, One
  <2>4. Leaves(t, o)
    BY <1>s, <2>2 DEF Reached
  <2>5. Arrives(t, "handle", o)
    BY <1>t, <2>1, <2>2, <2>3 DEF Arrives
  <2> QED  BY <2>1, <2>4, <2>5, PlaceKept
<1>4. ASSUME NEW t \in Threads, CreateHandle(t)
      PROVE  PlaceInv'
  <2>1. at[t] = "handle" /\ obj[t] \in Objects /\ UNCHANGED <<maps, fbref>>
    BY <1>4, <1>p DEF CreateHandle, fbVars
  <2>2. CASE Moves(t, "unref", obj[t]) /\ handle' = [handle EXCEPT ![obj[t]] = TRUE]
    <3>1. \A u \in Threads \ {t} : obj[u] # obj[t]
      BY <2>1 DEF PlaceInv
    <3>2. "unref" \in Places \ Committing
      BY DEF Places, Committing
    <3>3. handle'[obj[t]] = TRUE /\ \A o \in Objects \ {obj[t]} : handle'[o] = handle[o]
      BY <1>t, <2>1, <2>2
    <3>4. Leaves(t, obj[t])
      BY <2>1, <3>1, <3>3 DEF Leaves
    <3>5. Arrives(t, "unref", obj[t])
      BY <1>p, <1>t, <2>1, <3>1, <3>2, <3>3 DEF Arrives
    <3> QED  BY <2>1, <2>2, <3>2, <3>4, <3>5, PlaceKept
  <2>3. CASE Moves(t, "user", 0) /\ UNCHANGED handle
    BY <1>n, <1>u, <2>1, <2>3, PlaceKept
  <2> QED  BY <1>4, <1>t, <2>1, <2>2, <2>3 DEF CreateHandle, Return, Moves, Keep
<1>5. ASSUME NEW t \in Threads, CreateReturn(t) \/ MapReturn(t)
      PROVE  PlaceInv'
  <2>1. Moves(t, "user", 0) /\ UNCHANGED <<handle, maps, fbref>>
    BY <1>5 DEF CreateReturn, MapReturn, Return, Moves, fbVars
  <2> QED  BY <1>n, <1>u, <2>1, PlaceKept
<1>6. ASSUME NEW t \in Threads, NEW o \in Objects, CloseHandle(t, o) \/ Mmap(t, o) \/ Munmap(t, o)
      PROVE  PlaceInv'
  <2>1. Moves(t, "user", 0) /\ UNCHANGED fbref
    BY <1>6, <1>p, <1>t DEF CloseHandle, Mmap, Munmap, Moves, Goto, Keep, fbVars
  <2>2. Known(o) \/ maps[o] > 0
    BY <1>6 DEF CloseHandle, Mmap, Munmap
  <2>3. \A x \in Objects \ {o} : handle'[x] = handle[x] /\ maps'[x] = maps[x]
    BY <1>6, <1>t DEF CloseHandle, Mmap, Munmap
  <2>4. Leaves(t, o)
    BY <1>p, <1>r, <2>1, <2>2, <2>3 DEF Leaves, Reached
  <2> QED  BY <1>u, <2>1, <2>4, PlaceKept
<1>7. ASSUME NEW t \in Threads, NEW o \in Objects, MapOffset(t, o) \/ AddFb(t, o)
      PROVE  PlaceInv'
  <2>1. PICK p \in {"pages", "fb"} : Looked(t, o, p) /\ (p = "fb" => AddFb(t, o))
    BY <1>7 DEF MapOffset, AddFb
  <2>2. Moves(t, p, o) /\ p \in Places \ Committing /\ UNCHANGED <<handle, maps, fbref>>
    BY <1>7, <2>1 DEF Looked, Moves, MapOffset, AddFb, fbVars, objVars, Places, Committing
  <2>3. Leaves(t, o)
    BY <1>7, <1>r, <1>s, <2>2 DEF MapOffset, AddFb
  <2>4. p = "fb" => fbref[o] = 0 /\ \A u \in Threads : obj[u] = o => at[u] # "fb"
    BY <2>1 DEF AddFb
  <2>5. Arrives(t, p, o)
    BY <1>t, <2>2, <2>4 DEF Arrives
  <2> QED  BY <2>2, <2>3, <2>5, PlaceKept
<1>8. ASSUME NEW t \in Threads, NEW a \in FbArgs, AddFbChecked(t, a)
      PROVE  PlaceInv'
  <2>1. Moves(t, "user", 0) /\ UNCHANGED <<handle, maps>>
    BY <1>8 DEF AddFbChecked, Return, Moves
  <2>2. at[t] = "fb" /\ obj[t] \in Objects
    BY <1>8, <1>p DEF AddFbChecked
  <2>3. \A u \in Threads \ {t} : obj[u] = obj[t] => at[u] \notin {"fb", "handle", "unref"}
    BY <2>2 DEF PlaceInv
  <2>4. \A x \in Objects \ {obj[t]} : fbref'[x] = fbref[x]
    BY <1>8, <1>t, <2>2 DEF AddFbChecked
  <2>5. Leaves(t, obj[t])
    BY <2>1, <2>3, <2>4 DEF Leaves
  <2> QED  BY <1>u, <2>1, <2>2, <2>5, PlaceKept
<1>9. ASSUME NEW t \in Threads, NEW o \in Objects, RmFb(t, o)
      PROVE  PlaceInv'
  <2>1. Moves(t, "user", 0) /\ UNCHANGED <<handle, maps>>
    BY <1>9, <1>p, <1>t DEF RmFb, Moves, Goto, Keep
  <2>2. Reached(o) /\ fbref[o] > 0
    BY <1>9, <1>r DEF RmFb
  <2>3. \A x \in Objects \ {o} : fbref'[x] = fbref[x]
    BY <1>9, <1>t DEF RmFb, PutFb
  <2>4. Leaves(t, o)
    BY <1>f, <2>1, <2>2, <2>3
  <2> QED  BY <1>u, <2>1, <2>4, PlaceKept
<1>10. ASSUME NEW t \in Threads, NEW o \in Objects, Commit(t, o)
       PROVE  PlaceInv'
  <2>1. Moves(t, "check", o) /\ "check" \in Places /\ UNCHANGED <<handle, maps>> /\ NoCommit
    BY <1>10 DEF Commit, Moves, Places, Committing, objVars
  <2>2. Reached(o) /\ fbref[o] > 0
    BY <1>10, <1>r DEF Commit
  <2>3. \A x \in Objects \ {o} : fbref'[x] = fbref[x]
    BY <1>10, <1>t DEF Commit
  <2>4. Leaves(t, o)
    BY <1>f, <2>1, <2>2, <2>3
  <2>5. Arrives(t, "check", o)
    BY <1>t, <2>1 DEF Arrives
  <2> QED  BY <2>1, <2>4, <2>5, PlaceKept
<1>11. ASSUME NEW t \in Threads, Refused(t)
       PROVE  PlaceInv'
  <2>1. Moves(t, "user", 0) /\ UNCHANGED <<handle, maps>> /\ at[t] = "check"
    BY <1>11 DEF Refused, Return, Moves
  <2>2. obj[t] \in Objects /\ fbref[obj[t]] > 0
    BY <1>p, <2>1 DEF Committing
  <2>3. Reached(obj[t])
    BY <1>p, <2>2 DEF Reached
  <2>4. \A x \in Objects \ {obj[t]} : fbref'[x] = fbref[x]
    BY <1>11, <1>t, <2>2 DEF Refused, PutFb
  <2>5. Leaves(t, obj[t])
    BY <1>f, <2>1, <2>2, <2>3, <2>4
  <2> QED  BY <1>u, <2>1, <2>2, <2>5, PlaceKept
<1>12. ASSUME NEW t \in Threads, Swap(t)
       PROVE  PlaceInv'
  <2>1. Moves(t, "user", 0) /\ UNCHANGED <<handle, maps>>
    BY <1>12 DEF Swap, Return, Moves
  <2>2. shown # 0 => Reached(shown) /\ fbref[shown] > 0
    BY <1>r, <1>t
  <2>3. \A x \in Objects \ {shown} : fbref'[x] = fbref[x]
    BY <1>12, <1>t DEF Swap, PutFb
  <2>4. Leaves(t, shown)
    BY <1>f, <1>t, <2>1, <2>2, <2>3
  <2> QED  BY <1>t, <1>u, <2>1, <2>4, PlaceKept
<1> QED
  BY <1>1, <1>2, <1>3, <1>4, <1>5, <1>6, <1>7, <1>8, <1>9, <1>10, <1>11, <1>12, Steps DEF Acts

-----------------------------------------------------------------------------
(* What framebuffers have been checked for.                                 *)

\* A reference that is not the last one: neither object nor framebuffer change.
LEMMA PutKeeps ==
  ASSUME UseType, MemType, NEW p \in Objects, NEW n \in Int, Put(p, n),
         NEW o \in Objects, ref'[o] > 0
  PROVE  size'[o] = size[o]
  BY DEF Put, UseType, MemType

LEMMA PutFbKeeps ==
  ASSUME UseType, MemType, NEW p \in Objects, NEW n \in Int, PutFb(p, n),
         NEW o \in Objects, ref'[o] > 0, fbref'[o] > 0, n > 0
  PROVE  size'[o] = size[o] /\ fb'[o] = fb[o] /\ fbref[o] > 0
<1>1. CASE fbref[p] = n
  <2>1. Put(p, 1) /\ fb' = [fb EXCEPT ![p] = NoFb] /\ fbref' = [fbref EXCEPT ![p] = @ - n]
    BY <1>1 DEF PutFb
  <2>2. size'[o] = size[o]
    BY <2>1, PutKeeps
  <2>3. o # p
    BY <1>1, <2>1 DEF UseType
  <2> QED  BY <2>1, <2>2, <2>3 DEF UseType
<1>2. CASE fbref[p] # n
  BY <1>2 DEF PutFb, UseType
<1> QED  BY <1>1, <1>2

\* A framebuffer that is there after a step was there before, or has just been
\* checked and made.
LEMMA FbActs ==
  ASSUME UseType, MemType, RefsBalance, PlaceInv, NEW t \in Threads, Acts(t),
         NEW o \in Objects, fbref'[o] > 0, ref'[o] > 0
  PROVE  \/ size'[o] = size[o] /\ fb'[o] = fb[o] /\ fbref[o] > 0
         \/ /\ at[t] = "fb" /\ obj[t] = o
            /\ fb'[o] \in FbArgs /\ FbOk(fb'[o], size[o]) /\ size'[o] = size[o]
<1>t. /\ ref \in [Objects -> Nat] /\ fbref \in [Objects -> Nat]
      /\ fb \in [Objects -> FbArgs \cup {NoFb}] /\ shown \in Objects \cup {0}
      /\ size \in [Objects -> 0..SizeMax]
  BY DEF UseType, MemType
<1>p. (at[t] # "user" => obj[t] \in Objects) /\ (at[t] = "fb" => fbref[obj[t]] = 0)
  BY PlaceParts
<1>1. ASSUME NEW p \in Objects, NEW n \in Int, Put(p, n), UNCHANGED <<fb, fbref>>
      PROVE  size'[o] = size[o] /\ fb'[o] = fb[o] /\ fbref[o] > 0
  BY <1>1, PutKeeps
<1>2. ASSUME NEW p \in Objects, NEW a \in DumbArgs, Create(t, p, a)
      PROVE  size'[o] = size[o] /\ fb'[o] = fb[o] /\ fbref[o] > 0
  <2>1. ref[p] = 0 /\ size' = [size EXCEPT ![p] = DumbSize(a.width, a.height, a.format)]
        /\ UNCHANGED <<fb, fbref>>
    BY <1>2 DEF Create, fbVars
  <2>2. fbref[p] = 0
    <3>1. /\ Balanced(p)
          /\ {fbref[p], maps[p], Cardinality(Looking(p))} \subseteq Nat
      BY BalanceParts
    <3> QED  BY <2>1, <3>1 DEF Balanced, One
  <2> QED  BY <1>t, <2>1, <2>2
<1>3. CASE CreateHandle(t)
  <2>1. obj[t] \in Objects /\ ref[obj[t]] \in Int
    BY <1>3, <1>t, <1>p DEF CreateHandle
  <2> QED  BY <1>1, <1>3, <2>1 DEF CreateHandle, fbVars
<1>4. CASE CreateReturn(t) \/ MapReturn(t)
  BY <1>1, <1>4, <1>p DEF CreateReturn, MapReturn, fbVars
<1>5. CASE Refused(t)
  BY <1>5, <1>p, PutFbKeeps DEF Refused
<1>6. CASE Swap(t)
  BY <1>6, <1>t, PutFbKeeps DEF Swap
<1>7. ASSUME NEW a \in FbArgs, AddFbChecked(t, a)
      PROVE  \/ size'[o] = size[o] /\ fb'[o] = fb[o] /\ fbref[o] > 0
             \/ /\ at[t] = "fb" /\ obj[t] = o
                /\ fb'[o] \in FbArgs /\ FbOk(fb'[o], size[o]) /\ size'[o] = size[o]
  <2>1. at[t] = "fb" /\ obj[t] \in Objects
    BY <1>7, <1>p DEF AddFbChecked
  <2>2. CASE Put(obj[t], 1) /\ UNCHANGED <<fb, fbref>>
    BY <1>1, <2>1, <2>2
  <2>3. CASE /\ FbOk(a, size[obj[t]]) /\ fb' = [fb EXCEPT ![obj[t]] = a]
             /\ fbref' = [fbref EXCEPT ![obj[t]] = 1] /\ UNCHANGED size
    BY <1>t, <2>1, <2>3
  <2> QED  BY <1>7, <2>2, <2>3 DEF AddFbChecked
<1>8. ASSUME NEW p \in Objects,
             \/ CloseHandle(t, p) \/ MapOffset(t, p) \/ Mmap(t, p) \/ Munmap(t, p) \/ AddFb(t, p)
      PROVE  size'[o] = size[o] /\ fb'[o] = fb[o] /\ fbref[o] > 0
  BY <1>1, <1>8 DEF CloseHandle, MapOffset, Mmap, Munmap, AddFb, fbVars, objVars
<1>9. ASSUME NEW p \in Objects, RmFb(t, p)
      PROVE  size'[o] = size[o] /\ fb'[o] = fb[o] /\ fbref[o] > 0
  BY <1>9, PutFbKeeps DEF RmFb
<1>10. ASSUME NEW p \in Objects, Commit(t, p)
       PROVE  size'[o] = size[o] /\ fb'[o] = fb[o] /\ fbref[o] > 0
  <2>1. userFb[p] /\ fbref' = [fbref EXCEPT ![p] = @ + 1] /\ UNCHANGED <<fb, size>>
    BY <1>10 DEF Commit, objVars
  <2>2. fbref[p] > 0
    BY <2>1, Reachable
  <2> QED  BY <1>t, <2>1, <2>2
<1> QED  BY <1>2, <1>3, <1>4, <1>5, <1>6, <1>7, <1>8, <1>9, <1>10 DEF Acts

\* Such a step ends outside a commit, or at its start; others stay where they are.
LEMMA ActsEnd ==
  ASSUME UseType, PlaceInv, NEW t \in Threads, Acts(t)
  PROVE  /\ at'[t] \notin Committing \ {"check"}
         /\ \A u \in Threads \ {t} : at'[u] = at[u] /\ obj'[u] = obj[u]
<1>t. /\ at \in [Threads -> Places] /\ obj \in [Threads -> Objects \cup {0}]
  BY DEF UseType
<1>1. ASSUME NEW p \in Places \ (Committing \ {"check"}), NEW q, Moves(t, p, q)
      PROVE  /\ at'[t] \notin Committing \ {"check"}
             /\ \A u \in Threads \ {t} : at'[u] = at[u] /\ obj'[u] = obj[u]
  BY <1>t, <1>1 DEF Moves, Goto, Keep
<1>2. ASSUME at[t] = "user", UNCHANGED <<at, obj>>
      PROVE  /\ at'[t] \notin Committing \ {"check"}
             /\ \A u \in Threads \ {t} : at'[u] = at[u] /\ obj'[u] = obj[u]
  BY <1>2 DEF Committing
<1>3. {"user", "handle", "unref", "pages", "fb", "check"} \subseteq Places \ (Committing \ {"check"})
  BY DEF Places, Committing
<1>4. CASE \E p \in {"user", "handle", "unref", "pages", "fb", "check"} : \E q : Moves(t, p, q)
  BY <1>1, <1>3, <1>4
<1>5. CASE CreateReturn(t) \/ MapReturn(t) \/ Refused(t) \/ Swap(t)
  BY <1>4, <1>5 DEF CreateReturn, MapReturn, Refused, Swap, Return, Moves
<1>6. CASE CreateHandle(t)
  BY <1>4, <1>6, <1>t DEF CreateHandle, Return, Moves, Keep
<1>7. ASSUME NEW a \in FbArgs, AddFbChecked(t, a)
      PROVE  Moves(t, "user", 0)
  BY <1>7 DEF AddFbChecked, Return, Moves
<1>8. ASSUME NEW o \in Objects, NEW a \in DumbArgs, Create(t, o, a)
      PROVE  Moves(t, "handle", o)
  BY <1>8 DEF Create, Looked, Moves
<1>9. ASSUME NEW o \in Objects,
             \/ CloseHandle(t, o) \/ Mmap(t, o) \/ Munmap(t, o) \/ RmFb(t, o)
      PROVE  at[t] = "user" /\ UNCHANGED <<at, obj>>
  BY <1>9 DEF CloseHandle, Mmap, Munmap, RmFb
<1>10. ASSUME NEW o \in Objects, MapOffset(t, o) \/ AddFb(t, o) \/ Commit(t, o)
       PROVE  \E p \in {"pages", "fb", "check"} : Moves(t, p, o)
  BY <1>10 DEF MapOffset, AddFb, Commit, Looked, Moves
<1> QED  BY <1>2, <1>4, <1>5, <1>6, <1>7, <1>8, <1>9, <1>10 DEF Acts

LEMMA FbStep ==
  ASSUME UseInv, MemType, [Next]_vars
  PROVE  FbInv'
<1> USE DEF UseInv
<1>1. Holding' /\ RefsBalance' /\ UseType'
  <2>1. UseType' /\ RefsBalance' /\ PlaceInv'
    BY UseTypeStep, BalanceStep, PlaceStep
  <2> QED  BY <2>1, Holds, PTL
<1>2. ASSUME NEW o \in Objects, fbref'[o] > 0
      PROVE  ref'[o] > 0
  <2>1. ref'[o] = One(handle'[o]) + One(fbref'[o] > 0) + maps'[o] + Cardinality(Looking(o)')
    BY <1>1 DEF RefsBalance
  <2>2. Looking(o)' \subseteq Threads
    BY DEF Looking
  <2>3. Cardinality(Looking(o)') \in Nat /\ maps'[o] \in Nat /\ handle'[o] \in BOOLEAN
    BY <1>1, <2>2, CountIsNat, GemAssumption DEF UseType, GemAssumption
  <2> QED  BY <1>2, <2>1, <2>3 DEF One
<1>3. Committing' = Committing
  BY DEF Committing
<1>4. CASE UNCHANGED vars
  BY <1>3, <1>4 DEF vars, objVars, fbVars, FbInv
<1>5. ASSUME NEW t \in Threads, Walks(t)
      PROVE  FbInv'
  <2>1. UNCHANGED <<size, fb, fbref, obj>>
    BY <1>5 DEF Walks, fbVars
  <2>2. ASSUME NEW u \in Threads, at'[u] \in Committing \ {"check"}
        PROVE  PitchOk(fb[obj[u]])
    <3>1. CASE u = t
      <4>1. at[t] \in Committing
        BY <1>5, <2>2, <3>1 DEF Walks, Goto, UseType, Committing, Paths
      <4> QED  BY <1>5, <3>1, <4>1 DEF FbInv, Walks
    <3>2. CASE u # t
      BY <1>5, <2>2, <3>2 DEF FbInv, Walks, Goto, UseType
    <3> QED  BY <3>1, <3>2
  <2> QED  BY <1>3, <2>1, <2>2 DEF FbInv
<1>6. ASSUME NEW t \in Threads, Acts(t)
      PROVE  FbInv'
  <2>1. ASSUME NEW o \in Objects, fbref'[o] > 0
        PROVE  fb'[o] \in FbArgs /\ FbOk(fb'[o], size'[o])
    BY <1>2, <1>6, <2>1, FbActs DEF FbInv
  <2>2. ASSUME NEW u \in Threads, at'[u] \in Committing \ {"check"}
        PROVE  PitchOk(fb'[obj'[u]])
    <3>1. u # t /\ at'[u] = at[u] /\ obj'[u] = obj[u]
      BY <1>6, <2>2, ActsEnd
    <3>2. obj[u] \in Objects /\ fbref'[obj[u]] > 0 /\ fbref[obj[u]] > 0
      BY <1>1, <2>2, <3>1, PlaceParts DEF Holding, Committing
    <3>3. fb'[obj[u]] = fb[obj[u]]
      BY <1>2, <1>6, <3>2, FbActs, PlaceParts
    <3> QED  BY <2>2, <3>1, <3>3 DEF FbInv
  <2> QED  BY <1>3, <2>1, <2>2 DEF FbInv
<1> QED  BY <1>4, <1>5, <1>6, Steps

-----------------------------------------------------------------------------
(* What page arrays and mappings are.                                       *)

\* The values of a function on a finite set are finitely many.
LEMMA FiniteRange ==
  ASSUME NEW f, f \in [Objects -> Int]
  PROVE  IsFiniteSet({f[o] : o \in Objects})
<1>1. f \in Surjection(Objects, {f[o] : o \in Objects})
  BY DEF Surjection
<1> QED  BY <1>1, FS_Surjection, GemAssumption DEF GemAssumption

\* Finitely many numbers are in use, so Fresh chooses another.
LEMMA FreshIsUnused ==
  ASSUME MemType
  PROVE  /\ Fresh \in Nat \ {0} /\ Fresh \notin arrays /\ Fresh \notin kmaps
         /\ \A o \in Objects : Fresh # pages[o] /\ Fresh # vaddr[o]
<1> DEFINE P == {pages[o] : o \in Objects}
           V == {vaddr[o] : o \in Objects}
           used == arrays \cup kmaps \cup P \cup V
           n == Cardinality(used)
<1>1. pages \in [Objects -> Int] /\ vaddr \in [Objects -> Int]
  BY DEF MemType, ErrPtr
<1>2. IsFiniteSet(P) /\ IsFiniteSet(V)
  BY <1>1, FiniteRange
<1>3. IsFiniteSet(used)
  <2> HIDE DEF P, V
  <2>1. IsFiniteSet(arrays \cup kmaps)
    BY FS_Union DEF MemType
  <2>2. IsFiniteSet((arrays \cup kmaps) \cup P)
    BY <1>2, <2>1, FS_Union
  <2> QED  BY <1>2, <2>2, FS_Union
<1>4. n \in Nat
  BY <1>3, FS_CardinalityType
<1>5. \E x \in 1..(n + 1) : x \notin used
  <2> HIDE DEF used
  <2>1. SUFFICES ASSUME 1..(n + 1) \subseteq used PROVE FALSE
    OBVIOUS
  <2>2. Cardinality(1..(n + 1)) = n + 1
    BY <1>4, FS_Interval
  <2>3. Cardinality(1..(n + 1)) <= n
    BY <1>3, <2>1, FS_Subset
  <2> QED  BY <1>4, <2>2, <2>3
<1>6. Fresh = CHOOSE x \in 1..(n + 1) : x \notin used
  BY DEF Fresh
<1>7. Fresh \in 1..(n + 1) /\ Fresh \notin used
  <2> HIDE DEF used, n
  <2> QED  BY <1>5, <1>6
<1>8. Fresh \in Nat \ {0}
  BY <1>4, <1>7
<1>9. \A o \in Objects : pages[o] \in P /\ vaddr[o] \in V
  OBVIOUS
<1> QED  BY <1>7, <1>8, <1>9

LEMMA MemTypeStep ==
  ASSUME UseInv, MemType, [Next]_vars
  PROVE  MemType'
<1>1. CASE UNCHANGED vars
  BY <1>1 DEF vars, objVars, memVars, MemType
<1>2. ASSUME NEW t \in Threads, Next, at[t] # "user"
      PROVE  obj[t] \in Objects
  BY <1>2, Holds DEF UseInv, Holding
<1>f. Fresh \in Nat \ {0}
  BY FreshIsUnused
<1> USE DEF MemType
<1>a. IsFiniteSet(arrays \cup {Fresh}) /\ IsFiniteSet(kmaps \cup {Fresh})
  BY FS_AddElement
<1>r. \A x : IsFiniteSet(arrays \ {x}) /\ IsFiniteSet(kmaps \ {x})
  BY FS_RemoveElement
<1>3. ASSUME NEW p \in Objects, NEW n, Put(p, n)
      PROVE  MemType'
  <2>1. 0 \in 0..SizeMax
    BY LayoutAssumption DEF LayoutAssumption
  <2>2. size' \in [Objects -> 0..SizeMax] /\ offset' \in [Objects -> BOOLEAN]
    BY <1>3, <2>1 DEF Put
  <2>3. pages' \in [Objects -> Nat \cup {ErrPtr}] /\ vaddr' \in [Objects -> Nat]
    BY <1>3 DEF Put
  <2>4. /\ arrays' = arrays \/ arrays' = arrays \ {pages[p]}
        /\ kmaps' = kmaps \/ kmaps' = kmaps \ {vaddr[p]}
    BY <1>3 DEF Put
  <2>5. arrays' \subseteq Nat \ {0} /\ IsFiniteSet(arrays')
    BY <1>r, <2>4
  <2>6. kmaps' \subseteq Nat \ {0} /\ IsFiniteSet(kmaps')
    BY <1>r, <2>4
  <2> QED  BY <2>2, <2>3, <2>5, <2>6
<1>4. ASSUME NEW p \in Objects, NEW n, PutFb(p, n)
      PROVE  MemType'
  BY <1>3, <1>4 DEF PutFb, memVars
<1>5. ASSUME UNCHANGED <<memVars, size, offset>>
      PROVE  MemType'
  BY <1>5 DEF memVars
<1>6. ASSUME NEW t \in Threads, NEW o \in Objects, NEW a \in DumbArgs, Create(t, o, a)
      PROVE  MemType'
  <2>1. DumbSize(a.width, a.height, a.format) \in 0..SizeMax
    BY <1>6, GemAssumption, DumbObjectHoldsItsRows DEF Create, GemAssumption
  <2> QED  BY <1>6, <2>1 DEF Create, memVars
<1>7. ASSUME NEW t \in Threads, CreateHandle(t) \/ CreateReturn(t) \/ MapUnref(t)
      PROVE  MemType'
  <2>1. obj[t] \in Objects
    BY <1>2, <1>7, Holds DEF CreateHandle, CreateReturn, MapUnref, UseInv, Holding
  <2> QED  BY <1>3, <1>5, <1>7, <2>1 DEF CreateHandle, CreateReturn, MapUnref, memVars
<1>8. ASSUME NEW t \in Threads, NEW o \in Objects,
             CloseHandle(t, o) \/ MapOffset(t, o) \/ Mmap(t, o) \/ Munmap(t, o) \/ AddFb(t, o)
      PROVE  MemType'
  BY <1>3, <1>5, <1>8 DEF CloseHandle, MapOffset, Mmap, Munmap, AddFb, objVars
<1>9. ASSUME NEW t \in Threads, NEW o \in Objects, RmFb(t, o) \/ Commit(t, o)
      PROVE  MemType'
  BY <1>4, <1>5, <1>9 DEF RmFb, Commit, objVars
<1>10. ASSUME NEW t \in Threads, NEW a \in FbArgs, AddFbChecked(t, a)
       PROVE  MemType'
  <2>1. obj[t] \in Objects
    BY <1>10, Holds DEF AddFbChecked, UseInv, Holding
  <2> QED  BY <1>3, <1>5, <1>10, <2>1 DEF AddFbChecked
<1>11. ASSUME NEW t \in Threads, Check(t) \/ Swap(t)
       PROVE  MemType'
  <2>1. obj[t] \in Objects /\ shown \in Objects \cup {0}
    BY <1>11, Holds DEF Check, Swap, UseInv, Holding, UseType
  <2> QED  BY <1>4, <1>5, <1>11, <2>1 DEF Check, Swap
<1>12. ASSUME NEW t \in Threads, NEW here, NEW get, NEW after, CheckPages(t, here, get, after)
       PROVE  MemType'
  BY <1>5, <1>12 DEF CheckPages, objVars
<1>13. ASSUME NEW t \in Threads, at[t] # "user", NEW here, NEW test, GetPages(t, here, test)
       PROVE  MemType'
  <2>1. obj[t] \in Objects /\ UNCHANGED <<size, offset, vaddr, kmaps>>
    BY <1>13, Holds DEF UseInv, Holding, GetPages, objVars
  <2>2. pages' \in [Objects -> Nat \cup {ErrPtr}]
    BY <1>13, <1>f, <2>1 DEF GetPages
  <2>3. arrays' = arrays \/ arrays' = arrays \cup {Fresh}
    BY <1>13 DEF GetPages
  <2>4. arrays' \subseteq Nat \ {0} /\ IsFiniteSet(arrays')
    BY <1>a, <1>f, <2>3
  <2> QED  BY <2>1, <2>2, <2>4
<1>14. ASSUME NEW t \in Threads, NEW here, NEW failed, NEW after, TestPages(t, here, failed, after)
       PROVE  MemType'
  BY <1>14 DEF TestPages, objVars
<1>15. ASSUME NEW t \in Threads, CheckVaddr(t) \/ Read(t)
       PROVE  MemType'
  BY <1>5, <1>15 DEF CheckVaddr, Read, objVars
<1>16. ASSUME NEW t \in Threads, Vmap(t)
       PROVE  MemType'
  <2>1. UNCHANGED <<size, offset, pages, arrays>>
    BY <1>16 DEF Vmap, objVars
  <2>2. vaddr' \in [Objects -> Nat] /\ (kmaps' = kmaps \/ kmaps' = kmaps \cup {Fresh})
    BY <1>16, <1>f DEF Vmap
  <2>3. kmaps' \subseteq Nat \ {0} /\ IsFiniteSet(kmaps')
    BY <1>a, <1>f, <2>2
  <2> QED  BY <2>1, <2>2, <2>3
<1>17. ASSUME NEW t \in Threads, Ioctl(t)
       PROVE  MemType'
  <2>1. CASE GetPages(t, "get", "test") \/ GetPages(t, "vget", "vtest")
    BY <1>13, <2>1 DEF GetPages
  <2> QED  BY <1>7, <1>10, <1>11, <1>12, <1>14, <1>15, <1>16, <1>17, <2>1 DEF Ioctl
<1> QED  BY <1>1, <1>6, <1>8, <1>9, <1>17 DEF Next

-----------------------------------------------------------------------------
(* Theorems.                                                                *)

LEMMA UseInit == Init => UseInv /\ MemType
<1> SUFFICES ASSUME Init PROVE UseInv /\ MemType
  OBVIOUS
<1> USE GemAssumption, LayoutAssumption DEF GemAssumption, LayoutAssumption, Init
<1>1. UseType
  BY DEF UseType, Places
<1>2. MemType
  BY FS_EmptySet DEF MemType
<1>3. RefsBalance
  <2>1. ASSUME NEW o \in Objects PROVE Looking(o) = {} /\ Busy(o) = {}
    BY DEF Looking, Busy
  <2>2. ASSUME NEW o \in Objects PROVE Balanced(o)
    <3>1. Cardinality(Looking(o)) = 0 /\ Cardinality(Busy(o)) = 0
      BY <2>1, FS_EmptySet
    <3>2. /\ ref[o] = 0 /\ fbref[o] = 0 /\ maps[o] = 0 /\ shown # o
          /\ handle[o] = FALSE /\ userFb[o] = FALSE
      OBVIOUS
    <3> QED  BY <3>1, <3>2 DEF Balanced, One
  <2> QED  BY <2>2, BalanceDef
<1>4. PlaceInv /\ FbInv
  BY DEF PlaceInv, FbInv, Committing
<1> QED  BY <1>1, <1>2, <1>3, <1>4 DEF UseInv

LEMMA UseAlways == Spec => [](UseInv /\ MemType)
<1>1. UseInv /\ MemType /\ [Next]_vars => (UseInv /\ MemType)'
  BY UseTypeStep, BalanceStep, PlaceStep, FbStep, MemTypeStep DEF UseInv
<1> QED  BY UseInit, <1>1, PTL DEF Spec

\* TypeOK: in every interleaving of ioctls no reference count is ever negative,
\* and sizes stay within size_t.
THEOREM TypeCorrect == Spec => []TypeOK
<1>1. UseInv /\ MemType => TypeOK
  BY TypeParts DEF UseInv
<1> QED  BY UseAlways, <1>1, PTL

\* RefsBalance: whichever of the steps of an ioctl fails, it gives back what it
\* took, so that objects and framebuffers have the references that are held.
THEOREM ReferencesBalance == Spec => []RefsBalance
<1>1. UseInv => RefsBalance
  BY DEF UseInv
<1> QED  BY UseAlways, <1>1, PTL

\* FrameInMapping: the frame that a commit reads lies within the object that it
\* maps, whatever framebuffers and objects user space has asked for.
THEOREM FrameIsMapped == Spec => []FrameInMapping
<1>1. UseInv /\ MemType => FrameInMapping
  <2> SUFFICES ASSUME UseInv, MemType, NEW t \in Threads, at[t] = "read"
               PROVE  LET f == fb[obj[t]]
                      IN  RangeOk(f.offset, f.height * Line(f.width, f.format), size[obj[t]])
    BY DEF FrameInMapping
  <2> DEFINE f == fb[obj[t]]
  <2>1. obj[t] \in Objects /\ fbref[obj[t]] > 0
    BY Holds DEF UseInv, Holding, Committing
  <2>2. f \in FbArgs /\ FbOk(f, size[obj[t]]) /\ PitchOk(f)
    BY <2>1 DEF UseInv, FbInv, Committing
  <2>3. {f.width, f.height, f.pitch, f.offset} \subseteq Nat
    BY <2>2, GemAssumption DEF GemAssumption
  <2>4. size[obj[t]] \in Nat
    BY <2>1, LayoutAssumption DEF MemType, LayoutAssumption
  <2> HIDE DEF f
  <2>5. RangeOk(f.offset, f.height * Line(f.width, f.format), size[obj[t]])
    BY <2>2, <2>3, <2>4, FrameLiesInObject
  <2> QED  BY <2>5 DEF f
<1> QED  BY UseAlways, <1>1, PTL

-----------------------------------------------------------------------------
(* Page arrays and mappings, when one ioctl at a time asks for the pages of *)
(* an object.                                                               *)

PagingInv ==
  \A t, u \in Threads :
    t # u /\ obj[t] = obj[u] => at[t] \notin Paging \/ at[u] \notin Paging

\* What obj->pages and obj->vaddr may be.
PageObj(o) ==
  /\ ref[o] = 0 => pages[o] = 0 /\ vaddr[o] = 0 /\ ~offset[o]
  /\ \/ pages[o] \in arrays \cup {0}
     \/ pages[o] = ErrPtr /\ \E t \in Threads : obj[t] = o /\ at[t] \in {"test", "vtest"}
  /\ vaddr[o] \in kmaps \cup {0}
  /\ offset[o] => pages[o] \in arrays
  /\ maps[o] > 0 => offset[o]

\* What a thread relies on at a place p with the object o.
PlaceHas(p, o) ==
  /\ p \in {"get", "vget"} => pages[o] = 0
  /\ p \in {"offset", "vmap", "vset", "read"} => pages[o] \in arrays
  /\ p \in {"test", "vtest"} => pages[o] # 0
  /\ p = "vset" => vaddr[o] = 0
  /\ p = "read" => vaddr[o] \in kmaps

\* Each array and each mapping belongs to one object.
OwnInv ==
  /\ \A o, p \in Objects : o # p =>
       /\ pages[o] = pages[p] => pages[o] \notin arrays
       /\ vaddr[o] = vaddr[p] => vaddr[o] \notin kmaps
  /\ \A a \in arrays : \E o \in Objects : pages[o] = a
  /\ \A k \in kmaps : \E o \in Objects : vaddr[o] = k

MemInv ==
  /\ \A o \in Objects : PageObj(o)
  /\ \A t \in Threads : PlaceHas(at[t], obj[t])
  /\ OwnInv

\* A step of one thread, as its effect on the two functions.
LEMMA Moved ==
  ASSUME UseType, NEW t \in Threads, NEW p, NEW q, Moves(t, p, q)
  PROVE  /\ at'[t] = p /\ obj'[t] = q
         /\ \A u \in Threads \ {t} : at'[u] = at[u] /\ obj'[u] = obj[u]
  BY DEF Moves, Goto, Keep, UseType

\* A step that leaves memory alone, and gives back no last reference.
LEMMA MemQuiet ==
  ASSUME UseType, MemInv, NEW t \in Threads, NEW p, NEW q, Moves(t, p, q),
         UNCHANGED <<memVars, offset>>,
         \A o \in Objects : ref'[o] = 0 => ref[o] = 0,
         \A o \in Objects : maps'[o] > 0 => offset[o],
         PlaceHas(p, q),
         at[t] \in {"test", "vtest"} => pages[obj[t]] # ErrPtr
  PROVE  MemInv'
<1>1. /\ at'[t] = p /\ obj'[t] = q
      /\ \A u \in Threads \ {t} : at'[u] = at[u] /\ obj'[u] = obj[u]
  BY Moved
<1>2. UNCHANGED <<pages, vaddr, arrays, kmaps, offset>>
  BY DEF memVars
<1>3. ASSUME NEW o \in Objects PROVE PageObj(o)'
  <2>1. PageObj(o)
    BY DEF MemInv
  <2>2. \/ pages[o] \in arrays \cup {0}
        \/ pages[o] = ErrPtr /\ \E u \in Threads : obj'[u] = o /\ at'[u] \in {"test", "vtest"}
    <3>1. ASSUME pages[o] = ErrPtr, NEW u \in Threads, obj[u] = o, at[u] \in {"test", "vtest"}
          PROVE  obj'[u] = o /\ at'[u] \in {"test", "vtest"}
      BY <1>1, <3>1
    <3> QED  BY <2>1, <3>1 DEF PageObj
  <2> QED  BY <1>2, <2>1, <2>2 DEF PageObj
<1>4. ASSUME NEW u \in Threads PROVE PlaceHas(at'[u], obj'[u])
  BY <1>1 DEF MemInv
<1>5. OwnInv'
  BY <1>2 DEF MemInv, OwnInv
<1>6. ASSUME NEW u \in Threads PROVE PlaceHas(at[u], obj[u])'
  BY <1>2, <1>4 DEF PlaceHas
<1> QED  BY <1>3, <1>5, <1>6 DEF MemInv

\* The last reference of an object: its memory goes, and no one else's.
LEMMA MemFreed ==
  ASSUME UseType, MemType, MemInv, Holding', RefsBalance', UseType',
         NEW t \in Threads, Moves(t, "user", 0), at[t] \notin {"test", "vtest"},
         NEW o \in Objects, NEW n, Put(o, n), ref[o] = n,
         \A x \in Objects \ {o} : maps'[x] > 0 => maps[x] > 0
  PROVE  MemInv'
<1>1. /\ at'[t] = "user" /\ obj'[t] = 0
      /\ \A u \in Threads \ {t} : at'[u] = at[u] /\ obj'[u] = obj[u]
  BY Moved
<1>2. /\ kmaps' = kmaps \ {vaddr[o]} /\ arrays' = arrays \ {pages[o]}
      /\ pages' = [pages EXCEPT ![o] = 0] /\ vaddr' = [vaddr EXCEPT ![o] = 0]
      /\ offset' = [offset EXCEPT ![o] = FALSE] /\ ref' = [ref EXCEPT ![o] = @ - n]
  BY DEF Put
<1>3. ref'[o] = 0
  BY <1>2 DEF UseType
<1>4. maps'[o] = 0
  <2>1. ref'[o] = One(handle'[o]) + One(fbref'[o] > 0) + maps'[o] + Cardinality(Looking(o)')
    BY DEF RefsBalance
  <2>2. Looking(o)' \subseteq Threads
    BY DEF Looking
  <2>3. Cardinality(Looking(o)') \in Nat /\ maps'[o] \in Nat /\ handle'[o] \in BOOLEAN
    BY <2>2, CountIsNat, GemAssumption DEF UseType, GemAssumption
  <2> QED  BY <1>3, <2>1, <2>3 DEF One
<1>5. \A u \in Threads : at'[u] # "user" => obj'[u] \in Objects \ {o}
  BY <1>3 DEF Holding
<1>6. \A x \in Objects \ {o} :
        /\ pages'[x] = pages[x] /\ vaddr'[x] = vaddr[x] /\ offset'[x] = offset[x] /\ ref'[x] = ref[x]
        /\ pages[x] \in arrays => pages[x] \in arrays'
        /\ vaddr[x] \in kmaps => vaddr[x] \in kmaps'
  BY <1>2 DEF MemInv, OwnInv, UseType, MemType
<1>7. pages'[o] = 0 /\ vaddr'[o] = 0 /\ offset'[o] = FALSE
  BY <1>2 DEF MemType
<1>8. ASSUME NEW x \in Objects PROVE PageObj(x)'
  <2>1. CASE x = o
    BY <1>4, <1>7, <2>1 DEF PageObj
  <2>2. CASE x # o
    <3>1. PageObj(x) /\ x \in Objects \ {o}
      BY <2>2 DEF MemInv
    <3>2. \/ pages[x] \in arrays' \cup {0}
          \/ pages[x] = ErrPtr /\ \E u \in Threads : obj'[u] = x /\ at'[u] \in {"test", "vtest"}
      <4>1. ASSUME NEW u \in Threads, obj[u] = x, at[u] \in {"test", "vtest"}
            PROVE  obj'[u] = x /\ at'[u] \in {"test", "vtest"}
        BY <1>1, <4>1
      <4> QED  BY <1>6, <3>1, <4>1 DEF PageObj
    <3> QED  BY <1>6, <3>1, <3>2 DEF PageObj
  <2> QED  BY <2>1, <2>2
<1>9. ASSUME NEW u \in Threads PROVE PlaceHas(at[u], obj[u])'
  <2>1. CASE at'[u] = "user"
    BY <2>1 DEF PlaceHas
  <2>2. CASE at'[u] # "user"
    <3>1. u # t /\ at'[u] = at[u] /\ obj'[u] = obj[u] /\ obj[u] \in Objects \ {o}
      BY <1>1, <1>5, <2>2
    <3>2. PlaceHas(at[u], obj[u])
      BY DEF MemInv
    <3> QED  BY <1>6, <3>1, <3>2 DEF PlaceHas
  <2> QED  BY <2>1, <2>2
<1>10. OwnInv'
  <2>1. ASSUME NEW x \in Objects, NEW y \in Objects, x # y
        PROVE  /\ pages'[x] = pages'[y] => pages'[x] \notin arrays'
               /\ vaddr'[x] = vaddr'[y] => vaddr'[x] \notin kmaps'
    <3>1. 0 \notin arrays' /\ 0 \notin kmaps'
      BY <1>2 DEF MemType
    <3>2. CASE x = o \/ y = o
      BY <1>7, <3>1, <3>2
    <3>3. CASE x # o /\ y # o
      BY <1>2, <1>6, <2>1, <3>3 DEF MemInv, OwnInv
    <3> QED  BY <3>2, <3>3
  <2>2. ASSUME NEW a \in arrays' PROVE \E x \in Objects : pages'[x] = a
    <3>1. PICK x \in Objects : pages[x] = a
      BY <1>2 DEF MemInv, OwnInv
    <3>2. x # o
      BY <1>2, <3>1
    <3> QED  BY <1>6, <3>1, <3>2
  <2>3. ASSUME NEW k \in kmaps' PROVE \E x \in Objects : vaddr'[x] = k
    <3>1. PICK x \in Objects : vaddr[x] = k
      BY <1>2 DEF MemInv, OwnInv
    <3>2. x # o
      BY <1>2, <3>1
    <3> QED  BY <1>6, <3>1, <3>2
  <2> QED  BY <2>1, <2>2, <2>3 DEF OwnInv
<1> QED  BY <1>8, <1>9, <1>10 DEF MemInv

\* Between the check of obj->pages and the test of the result, the field is the
\* ioctl's own: an array, an error pointer or 0 may replace it.
LEMMA MemPages ==
  ASSUME UseType, MemType, MemInv, PagingInv, Holding, NEW t \in Threads, at[t] \in Paging,
         pages[obj[t]] \notin arrays, NEW p, Moves(t, p, obj[t]),
         UNCHANGED <<ref, offset, maps, vaddr, kmaps>>,
         NEW v, pages' = [pages EXCEPT ![obj[t]] = v],
         \/ v = 0 /\ arrays' = arrays /\ p \in {"fail", "swap"}
         \/ v = ErrPtr /\ arrays' = arrays /\ p \in {"test", "vtest"}
         \/ /\ v \in Nat \ {0} /\ v \notin arrays /\ arrays' = arrays \cup {v}
            /\ p \in {"test", "vtest"}
  PROVE  MemInv'
<1> DEFINE o == obj[t]
<1>1. /\ at'[t] = p /\ obj'[t] = o
      /\ \A u \in Threads \ {t} : at'[u] = at[u] /\ obj'[u] = obj[u]
  BY Moved
<1>2. o \in Objects /\ ref[o] # 0
  BY DEF Holding, Paging, UseType
<1>3. /\ pages'[o] = v /\ \A x \in Objects \ {o} : pages'[x] = pages[x]
      /\ arrays \subseteq arrays' /\ v # 0 => v \in arrays' \/ v = ErrPtr
  BY <1>2 DEF MemType
<1>4. ~offset[o] /\ ~(maps[o] > 0)
  BY <1>2 DEF MemInv, PageObj
<1>5. \A u \in Threads \ {t} : obj[u] = o =>
        at[u] \notin Paging \cup {"offset", "vmap", "vset", "read"}
  BY DEF PagingInv, MemInv, PlaceHas
<1>6. ASSUME NEW x \in Objects PROVE PageObj(x)'
  <2>1. CASE x = o
    <3>1. \/ pages'[o] \in arrays' \cup {0}
          \/ pages'[o] = ErrPtr /\ \E u \in Threads : obj'[u] = o /\ at'[u] \in {"test", "vtest"}
      BY <1>1, <1>3
    <3>2. PageObj(o)
      BY <1>2 DEF MemInv
    <3> QED  BY <1>2, <1>4, <2>1, <3>1, <3>2 DEF PageObj
  <2>2. CASE x # o
    <3>1. PageObj(x)
      BY DEF MemInv
    <3>2. \/ pages[x] \in arrays \cup {0}
          \/ pages[x] = ErrPtr /\ \E u \in Threads : obj'[u] = x /\ at'[u] \in {"test", "vtest"}
      <4>1. ASSUME NEW u \in Threads, obj[u] = x, at[u] \in {"test", "vtest"}
            PROVE  obj'[u] = x /\ at'[u] \in {"test", "vtest"}
        BY <1>1, <2>2, <4>1
      <4> QED  BY <3>1, <4>1 DEF PageObj
    <3> QED  BY <1>3, <2>2, <3>1, <3>2 DEF PageObj
  <2> QED  BY <2>1, <2>2
<1>7. ASSUME NEW u \in Threads PROVE PlaceHas(at[u], obj[u])'
  <2>0. PlaceHas(at[u], obj[u])
    BY DEF MemInv
  <2>1. CASE u = t
    BY <1>1, <1>3, <2>1 DEF PlaceHas, ErrPtr
  <2>2. CASE u # t /\ obj[u] = o
    BY <1>1, <1>5, <2>2 DEF PlaceHas, Paging
  <2>3. CASE u # t /\ obj[u] # o /\ obj[u] \in Objects
    BY <1>1, <1>3, <2>0, <2>3 DEF PlaceHas
  <2>4. CASE u # t /\ obj[u] \notin Objects
    <3>1. at'[u] = "user"
      BY <1>1, <2>4 DEF Holding
    <3> QED  BY <3>1 DEF PlaceHas
  <2> QED  BY <2>1, <2>2, <2>3, <2>4
<1>8. OwnInv'
  <2>1. ASSUME NEW x \in Objects, NEW y \in Objects, x # y, pages'[x] = pages'[y],
               pages'[x] \in arrays'
        PROVE  FALSE
    <3>1. PageObj(x) /\ PageObj(y)
      BY DEF MemInv
    <3>2. 0 \notin arrays' /\ ErrPtr \notin arrays' /\ ErrPtr # 0
      BY DEF MemType, ErrPtr
    <3>3. CASE x = o
      BY <1>3, <2>1, <3>1, <3>2, <3>3 DEF PageObj
    <3>4. CASE y = o
      BY <1>3, <2>1, <3>1, <3>2, <3>4 DEF PageObj
    <3>5. CASE x # o /\ y # o
      <4>1. pages[x] \in arrays
        BY <1>3, <2>1, <3>1, <3>2, <3>5 DEF PageObj
      <4> QED  BY <1>3, <2>1, <3>5, <4>1 DEF MemInv, OwnInv
    <3> QED  BY <3>3, <3>4, <3>5
  <2>2. ASSUME NEW a \in arrays' PROVE \E x \in Objects : pages'[x] = a
    <3>1. CASE a \in arrays
      <4>1. PICK x \in Objects : pages[x] = a
        BY <3>1 DEF MemInv, OwnInv
      <4> QED  BY <1>3, <3>1, <4>1
    <3>2. CASE a \notin arrays
      BY <1>2, <1>3, <3>2
    <3> QED  BY <3>1, <3>2
  <2>3. \A x, y \in Objects : x # y => (vaddr'[x] = vaddr'[y] => vaddr'[x] \notin kmaps')
    BY DEF MemInv, OwnInv
  <2>4. \A k \in kmaps' : \E x \in Objects : vaddr'[x] = k
    BY DEF MemInv, OwnInv
  <2> QED  BY <2>1, <2>2, <2>3, <2>4 DEF OwnInv
<1> QED  BY <1>6, <1>7, <1>8 DEF MemInv

\* obj->vaddr is set by the one commit that is under way.
LEMMA MemMapped ==
  ASSUME UseType, MemType, MemInv, PlaceInv, Holding, NEW t \in Threads, at[t] = "vset",
         Moves(t, "read", obj[t]), UNCHANGED <<ref, offset, maps, pages, arrays>>,
         NEW v \in Nat \ {0}, v \notin kmaps,
         vaddr' = [vaddr EXCEPT ![obj[t]] = v], kmaps' = kmaps \cup {v}
  PROVE  MemInv'
<1> DEFINE o == obj[t]
<1>1. /\ at'[t] = "read" /\ obj'[t] = o
      /\ \A u \in Threads \ {t} : at'[u] = at[u] /\ obj'[u] = obj[u]
  BY Moved
<1>2. o \in Objects /\ ref[o] # 0
  BY DEF Holding, UseType
<1>3. vaddr'[o] = v /\ \A x \in Objects \ {o} : vaddr'[x] = vaddr[x]
  BY <1>2 DEF MemType
<1>4. \A u \in Threads \ {t} : at[u] \notin {"vset", "read"}
  BY DEF PlaceInv, Committing
<1>5. pages[o] \in arrays /\ vaddr[o] = 0
  BY DEF MemInv, PlaceHas
<1>6. ASSUME NEW x \in Objects PROVE PageObj(x)'
  <2>1. PageObj(x)
    BY DEF MemInv
  <2>2. \/ pages[x] \in arrays \cup {0}
        \/ pages[x] = ErrPtr /\ \E u \in Threads : obj'[u] = x /\ at'[u] \in {"test", "vtest"}
    <3>1. ASSUME NEW u \in Threads, obj[u] = x, at[u] \in {"test", "vtest"}
          PROVE  obj'[u] = x /\ at'[u] \in {"test", "vtest"}
      BY <1>1, <3>1
    <3> QED  BY <2>1, <3>1 DEF PageObj
  <2> QED  BY <1>2, <1>3, <2>1, <2>2 DEF PageObj
<1>7. ASSUME NEW u \in Threads PROVE PlaceHas(at[u], obj[u])'
  <2>1. PlaceHas(at[u], obj[u])
    BY DEF MemInv
  <2> QED  BY <1>1, <1>3, <1>4, <1>5, <2>1 DEF PlaceHas
<1>8. OwnInv'
  <2>1. ASSUME NEW x \in Objects, NEW y \in Objects, x # y, vaddr'[x] = vaddr'[y],
               vaddr'[x] \in kmaps'
        PROVE  FALSE
    <3>1. vaddr[x] \in kmaps \cup {0} /\ vaddr[y] \in kmaps \cup {0} /\ v # 0
      BY DEF MemInv, PageObj
    <3>2. CASE x = o \/ y = o
      BY <1>3, <2>1, <3>1, <3>2
    <3>3. CASE x # o /\ y # o
      <4>1. vaddr[x] = vaddr[y] /\ vaddr[x] \in kmaps
        BY <1>3, <2>1, <3>1, <3>3 DEF MemType
      <4> QED  BY <2>1, <4>1 DEF MemInv, OwnInv
    <3> QED  BY <3>2, <3>3
  <2>2. ASSUME NEW k \in kmaps' PROVE \E x \in Objects : vaddr'[x] = k
    <3>1. CASE k \in kmaps
      <4>1. PICK x \in Objects : vaddr[x] = k
        BY <3>1 DEF MemInv, OwnInv
      <4>2. k # 0
        BY <3>1 DEF MemType
      <4> QED  BY <1>3, <1>5, <4>1, <4>2
    <3>2. CASE k \notin kmaps
      BY <1>2, <1>3, <3>2
    <3> QED  BY <3>1, <3>2
  <2>3. \A x, y \in Objects : x # y => (pages'[x] = pages'[y] => pages'[x] \notin arrays')
    BY DEF MemInv, OwnInv
  <2>4. \A a \in arrays' : \E x \in Objects : pages'[x] = a
    BY DEF MemInv, OwnInv
  <2> QED  BY <2>1, <2>2, <2>3, <2>4 DEF OwnInv
<1> QED  BY <1>6, <1>7, <1>8 DEF MemInv

\* A mapping can be made once the pages are there.
LEMMA MemOffset ==
  ASSUME UseType, MemType, MemInv, Holding, NEW t \in Threads, at[t] = "offset",
         Moves(t, "fail", obj[t]), UNCHANGED <<ref, memVars, maps>>,
         offset' = [offset EXCEPT ![obj[t]] = TRUE]
  PROVE  MemInv'
<1>1. /\ at'[t] = "fail" /\ obj'[t] = obj[t]
      /\ \A u \in Threads \ {t} : at'[u] = at[u] /\ obj'[u] = obj[u]
  BY Moved
<1>2. UNCHANGED <<pages, vaddr, arrays, kmaps>>
  BY DEF memVars
<1>3. obj[t] \in Objects /\ ref[obj[t]] # 0 /\ pages[obj[t]] \in arrays
  BY DEF Holding, UseType, MemInv, PlaceHas
<1>4. ASSUME NEW x \in Objects PROVE PageObj(x)'
  <2>1. PageObj(x)
    BY DEF MemInv
  <2>2. \/ pages[x] \in arrays \cup {0}
        \/ pages[x] = ErrPtr /\ \E u \in Threads : obj'[u] = x /\ at'[u] \in {"test", "vtest"}
    <3>1. ASSUME NEW u \in Threads, obj[u] = x, at[u] \in {"test", "vtest"}
          PROVE  obj'[u] = x /\ at'[u] \in {"test", "vtest"}
      BY <1>1, <3>1
    <3> QED  BY <2>1, <3>1 DEF PageObj
  <2>3. /\ x = obj[t] => offset'[x]
        /\ x # obj[t] => offset'[x] = offset[x]
    BY DEF MemType
  <2> QED  BY <1>2, <1>3, <2>1, <2>2, <2>3 DEF PageObj
<1>5. ASSUME NEW u \in Threads PROVE PlaceHas(at[u], obj[u])'
  <2>1. PlaceHas(at[u], obj[u])
    BY DEF MemInv
  <2> QED  BY <1>1, <1>2, <2>1 DEF PlaceHas
<1>6. OwnInv'
  BY <1>2 DEF MemInv, OwnInv
<1> QED  BY <1>4, <1>5, <1>6 DEF MemInv

\* References are given back at the end of an ioctl.
LEMMA MemPut ==
  ASSUME UseType, MemType, MemInv, Holding', RefsBalance', UseType',
         NEW t \in Threads, Moves(t, "user", 0), at[t] \notin {"test", "vtest"},
         NEW o \in Objects, NEW n \in Nat, Put(o, n),
         \A x \in Objects : maps'[x] > 0 => maps[x] > 0
  PROVE  MemInv'
<1>1. CASE ref[o] = n
  BY <1>1, MemFreed
<1>2. CASE ref[o] # n
  <2>1. UNCHANGED <<memVars, offset>> /\ ref' = [ref EXCEPT ![o] = @ - n]
    BY <1>2 DEF Put, memVars
  <2>2. \A x \in Objects : ref'[x] = 0 => ref[x] = 0
    BY <1>2, <2>1 DEF UseType
  <2>3. \A x \in Objects : maps'[x] > 0 => offset[x]
    BY DEF MemInv, PageObj
  <2>4. PlaceHas("user", 0)
    BY DEF PlaceHas
  <2> QED  BY <2>1, <2>2, <2>3, <2>4, MemQuiet
<1> QED  BY <1>1, <1>2

LEMMA MemPutFb ==
  ASSUME UseType, MemType, MemInv, Holding', RefsBalance', UseType',
         NEW t \in Threads, Moves(t, "user", 0), at[t] \notin {"test", "vtest"},
         NEW o \in Objects, NEW n \in Nat, PutFb(o, n), UNCHANGED maps
  PROVE  MemInv'
<1>1. CASE fbref[o] = n
  BY <1>1, MemPut DEF PutFb
<1>2. CASE fbref[o] # n
  <2>1. UNCHANGED <<memVars, offset, ref>>
    BY <1>2 DEF PutFb
  <2>2. \A x \in Objects : maps'[x] > 0 => offset[x]
    BY DEF MemInv, PageObj
  <2>3. PlaceHas("user", 0)
    BY DEF PlaceHas
  <2> QED  BY <2>1, <2>2, <2>3, MemQuiet
<1> QED  BY <1>1, <1>2

\* A step that changes neither memory nor references.
LEMMA MemStill ==
  ASSUME UseType, MemInv, NEW t \in Threads, NEW p, NEW q, Moves(t, p, q),
         UNCHANGED <<memVars, offset, ref, maps>>, PlaceHas(p, q),
         at[t] \notin {"test", "vtest"}
  PROVE  MemInv'
<1>1. \A o \in Objects : maps'[o] > 0 => offset[o]
  BY DEF MemInv, PageObj
<1> QED  BY <1>1, MemQuiet

\* The steps of ioctls that look at obj->pages and obj->vaddr.
LEMMA MemPaging ==
  ASSUME UseType, MemType, RefsBalance, PlaceInv, MemInv, PagingInv, NEW t \in Threads,
         \/ CheckPages(t, "pages", "get", "offset") \/ GetPages(t, "get", "test")
         \/ TestPages(t, "test", "fail", "offset")
         \/ CheckPages(t, "vpages", "vget", "vmap") \/ GetPages(t, "vget", "vtest")
         \/ TestPages(t, "vtest", "swap", "vmap")
         \/ CheckVaddr(t) \/ Vmap(t) \/ Read(t)
  PROVE  MemInv'
<1>h. Holding
  BY Holds
<1>m. ASSUME NEW p, Goto(t, p), UNCHANGED obj
      PROVE  Moves(t, p, obj[t])
  BY <1>m DEF Moves, Keep, UseType
<1>o. PlaceHas(at[t], obj[t]) /\ (at[t] # "user" => obj[t] \in Objects /\ PageObj(obj[t]))
  BY <1>h DEF MemInv, Holding
<1>f. Fresh \in Nat \ {0} /\ Fresh \notin arrays /\ Fresh \notin kmaps
  BY FreshIsUnused
<1>0. 0 \notin arrays /\ ErrPtr \notin arrays /\ ErrPtr # 0
  BY DEF MemType, ErrPtr
<1>1. ASSUME NEW here \in {"pages", "vpages"}, NEW get \in {"get", "vget"},
             NEW after \in {"offset", "vmap"}, CheckPages(t, here, get, after)
      PROVE  MemInv'
  <2>1. PICK p \in {get, after} :
          /\ Goto(t, p) /\ UNCHANGED <<obj, memVars, offset, ref, maps>> /\ at[t] = here
          /\ p = get => pages[obj[t]] = 0
          /\ p = after => pages[obj[t]] # 0
    BY <1>1 DEF CheckPages, objVars
  <2>2. Moves(t, p, obj[t])
    BY <1>m, <2>1
  <2>3. p = after => pages[obj[t]] \in arrays
    <3>1. ASSUME pages[obj[t]] = ErrPtr, NEW u \in Threads, obj[u] = obj[t], at[u] \in {"test", "vtest"}
          PROVE  FALSE
      BY <2>1, <3>1 DEF PagingInv, Paging
    <3> QED  BY <1>o, <2>1, <3>1 DEF PageObj
  <2>4. PlaceHas(p, obj[t])
    BY <2>1, <2>3 DEF PlaceHas
  <2> QED  BY <2>1, <2>2, <2>4, MemStill
<1>2. ASSUME NEW here \in {"get", "vget"}, NEW test \in {"test", "vtest"}, GetPages(t, here, test)
      PROVE  MemInv'
  <2>1. /\ Goto(t, test) /\ at[t] = here /\ UNCHANGED <<obj, ref, offset, maps, vaddr, kmaps>>
        /\ \/ arrays' = arrays \cup {Fresh} /\ pages' = [pages EXCEPT ![obj[t]] = Fresh]
           \/ pages' = [pages EXCEPT ![obj[t]] = ErrPtr] /\ UNCHANGED arrays
    BY <1>2 DEF GetPages, objVars
  <2>2. Moves(t, test, obj[t]) /\ at[t] \in Paging /\ pages[obj[t]] \notin arrays
    BY <1>0, <1>m, <1>o, <2>1 DEF PlaceHas, Paging
  <2>3. CASE arrays' = arrays \cup {Fresh} /\ pages' = [pages EXCEPT ![obj[t]] = Fresh]
    BY <1>f, <1>h, <2>1, <2>2, <2>3, MemPages
  <2>4. CASE pages' = [pages EXCEPT ![obj[t]] = ErrPtr] /\ UNCHANGED arrays
    BY <1>h, <2>1, <2>2, <2>4, MemPages
  <2> QED  BY <2>1, <2>3, <2>4
<1>3. ASSUME NEW here \in {"test", "vtest"}, NEW failed \in {"fail", "swap"},
             NEW after \in {"offset", "vmap"}, TestPages(t, here, failed, after)
      PROVE  MemInv'
  <2>1. at[t] = here /\ UNCHANGED <<obj, ref, offset, maps, vaddr, arrays, kmaps>>
    BY <1>3 DEF TestPages, objVars
  <2>2. CASE pages[obj[t]] = ErrPtr
    <3>1. pages' = [pages EXCEPT ![obj[t]] = 0] /\ Moves(t, failed, obj[t])
      BY <1>3, <1>m, <2>1, <2>2 DEF TestPages
    <3>2. at[t] \in Paging /\ pages[obj[t]] \notin arrays
      BY <1>0, <2>1, <2>2 DEF Paging
    <3> QED  BY <1>h, <2>1, <3>1, <3>2, MemPages
  <2>3. CASE pages[obj[t]] # ErrPtr
    <3>1. UNCHANGED memVars /\ Moves(t, after, obj[t])
      BY <1>3, <1>m, <2>1, <2>3 DEF TestPages, memVars
    <3>2. pages[obj[t]] \in arrays
      BY <1>o, <2>1, <2>3 DEF PageObj, PlaceHas
    <3>3. PlaceHas(after, obj[t])
      BY <3>2 DEF PlaceHas
    <3>4. \A o \in Objects : maps'[o] > 0 => offset[o]
      BY <2>1 DEF MemInv, PageObj
    <3> QED  BY <2>1, <2>3, <3>1, <3>3, <3>4, MemQuiet
  <2> QED  BY <2>2, <2>3
<1>4. CASE CheckVaddr(t)
  <2>1. PICK p \in {"vset", "read"} :
          /\ Goto(t, p) /\ UNCHANGED <<obj, memVars, offset, ref, maps>> /\ at[t] = "vmap"
          /\ p = "vset" => vaddr[obj[t]] = 0
          /\ p = "read" => vaddr[obj[t]] # 0
    BY <1>4 DEF CheckVaddr, objVars
  <2>2. Moves(t, p, obj[t]) /\ PlaceHas(p, obj[t])
    BY <1>m, <1>o, <2>1 DEF PlaceHas, PageObj
  <2> QED  BY <2>1, <2>2, MemStill
<1>5. CASE Vmap(t)
  <2>1. at[t] = "vset" /\ UNCHANGED <<offset, maps, ref, pages, arrays, obj>>
    BY <1>5 DEF Vmap, objVars
  <2>2. CASE kmaps' = kmaps \cup {Fresh} /\ vaddr' = [vaddr EXCEPT ![obj[t]] = Fresh] /\ Goto(t, "read")
    BY <1>f, <1>h, <1>m, <2>1, <2>2, MemMapped
  <2>3. CASE Goto(t, "swap") /\ UNCHANGED <<kmaps, vaddr>>
    BY <1>m, <2>1, <2>3, MemStill DEF memVars, PlaceHas
  <2> QED  BY <1>5, <2>2, <2>3 DEF Vmap
<1>6. CASE Read(t)
  <2>1. at[t] = "read" /\ Goto(t, "swap") /\ UNCHANGED <<obj, memVars, offset, ref, maps>>
    BY <1>6 DEF Read, objVars
  <2> QED  BY <1>m, <2>1, MemStill DEF PlaceHas
<1> QED  BY <1>1, <1>2, <1>3, <1>4, <1>5, <1>6

\* The other steps: what begins and ends ioctls.
LEMMA MemActs ==
  ASSUME UseInv, MemType, MemInv, UseType', RefsBalance', Holding',
         NEW t \in Threads, Acts(t)
  PROVE  MemInv'
<1> USE DEF UseInv
<1>h. Holding
  BY Holds
<1>o. (at[t] # "user" => obj[t] \in Objects) /\ (at[t] = "user" => obj[t] = 0)
  BY <1>h DEF Holding, PlaceInv
<1>m. \A o \in Objects : maps[o] > 0 => offset[o]
  BY DEF MemInv, PageObj
<1>t. ref \in [Objects -> Nat]
  BY DEF UseType
<1>g. ASSUME NEW o \in Objects, Get(o)
      PROVE  \A x \in Objects : ref'[x] = 0 => ref[x] = 0
  BY <1>g, <1>t DEF Get
<1>u. ASSUME at[t] = "user", UNCHANGED <<at, obj>>
      PROVE  Moves(t, "user", 0) /\ at[t] \notin {"test", "vtest"}
  BY <1>u, <1>o DEF Moves, Goto, Keep, UseType
<1>p. \A p \in {"user", "handle", "unref", "pages", "fb", "check"} : \A q : PlaceHas(p, q)
  BY DEF PlaceHas
<1>1. ASSUME NEW o \in Objects, NEW a \in DumbArgs, Create(t, o, a)
      PROVE  MemInv'
  <2>1. Moves(t, "handle", o) /\ UNCHANGED <<memVars, offset, maps>> /\ Get(o) /\ at[t] = "user"
    BY <1>1 DEF Create, Looked, Moves
  <2> QED  BY <1>g, <1>m, <1>p, <2>1, MemQuiet
<1>2. CASE CreateHandle(t)
  <2>1. at[t] = "handle" /\ obj[t] \in Objects /\ UNCHANGED maps
    BY <1>2, <1>o DEF CreateHandle
  <2>2. CASE Get(obj[t]) /\ Goto(t, "unref") /\ UNCHANGED <<memVars, size, offset, obj>>
    <3>1. Moves(t, "unref", obj[t])
      BY <2>2 DEF Moves, Keep, UseType
    <3> QED  BY <1>g, <1>m, <1>p, <2>1, <2>2, <3>1, MemQuiet
  <2>3. CASE Put(obj[t], ref[obj[t]]) /\ Return(t)
    BY <1>t, <2>1, <2>3, MemPut DEF Return, Moves
  <2> QED  BY <1>2, <2>2, <2>3 DEF CreateHandle
<1>3. CASE CreateReturn(t) \/ MapReturn(t)
  BY <1>3, <1>o, MemPut DEF CreateReturn, MapReturn, Return, Moves
<1>4. CASE Refused(t)
  BY <1>4, <1>o, MemPutFb DEF Refused, Return, Moves
<1>5. CASE Swap(t)
  <2>1. Moves(t, "user", 0) /\ UNCHANGED maps /\ at[t] = "swap"
    BY <1>5 DEF Swap, Return, Moves
  <2>2. CASE shown # 0
    BY <1>5, <2>1, <2>2, MemPutFb DEF Swap, UseType
  <2>3. CASE shown = 0
    BY <1>5, <1>p, <2>1, <2>3, MemStill DEF Swap
  <2> QED  BY <2>2, <2>3
<1>6. ASSUME NEW a \in FbArgs, AddFbChecked(t, a)
      PROVE  MemInv'
  <2>1. Moves(t, "user", 0) /\ UNCHANGED maps /\ at[t] = "fb" /\ obj[t] \in Objects
    BY <1>6, <1>o DEF AddFbChecked, Return, Moves
  <2>2. CASE Put(obj[t], 1)
    BY <2>1, <2>2, MemPut
  <2>3. CASE UNCHANGED <<ref, memVars, size, offset>>
    BY <1>p, <2>1, <2>3, MemStill
  <2> QED  BY <1>6, <2>2, <2>3 DEF AddFbChecked
<1>7. ASSUME NEW o \in Objects, CloseHandle(t, o) \/ Munmap(t, o)
      PROVE  MemInv'
  <2>1. at[t] = "user" /\ UNCHANGED <<at, obj>> /\ Put(o, 1)
    BY <1>7 DEF CloseHandle, Munmap
  <2>2. \A x \in Objects : maps'[x] > 0 => maps[x] > 0
    BY <1>7, GemAssumption DEF CloseHandle, Munmap, UseType, GemAssumption
  <2> QED  BY <1>u, <2>1, <2>2, MemPut
<1>8. ASSUME NEW o \in Objects, Mmap(t, o)
      PROVE  MemInv'
  <2>1. at[t] = "user" /\ UNCHANGED <<at, obj, memVars, offset>> /\ Get(o)
    BY <1>8 DEF Mmap
  <2>2. \A x \in Objects : maps'[x] > 0 => offset[x]
    BY <1>8, <1>m DEF Mmap, UseType
  <2> QED  BY <1>g, <1>p, <1>u, <2>1, <2>2, MemQuiet
<1>9. ASSUME NEW o \in Objects, MapOffset(t, o) \/ AddFb(t, o)
      PROVE  MemInv'
  <2>1. PICK p \in {"pages", "fb"} : Moves(t, p, o) /\ Get(o) /\ at[t] = "user"
    BY <1>9 DEF MapOffset, AddFb, Looked, Moves
  <2>2. UNCHANGED <<memVars, offset, maps>>
    BY <1>9 DEF MapOffset, AddFb, objVars
  <2> QED  BY <1>g, <1>m, <1>p, <2>1, <2>2, MemQuiet
<1>10. ASSUME NEW o \in Objects, RmFb(t, o)
       PROVE  MemInv'
  <2>1. at[t] = "user" /\ UNCHANGED <<at, obj, maps>> /\ \E n \in {1, 2} : PutFb(o, n)
    BY <1>10 DEF RmFb
  <2> QED  BY <1>u, <2>1, MemPutFb
<1>11. ASSUME NEW o \in Objects, Commit(t, o)
       PROVE  MemInv'
  <2>1. Moves(t, "check", o) /\ UNCHANGED <<memVars, offset, ref, maps>> /\ at[t] = "user"
    BY <1>11 DEF Commit, Moves, objVars
  <2> QED  BY <1>p, <2>1, MemStill
<1> QED  BY <1>1, <1>2, <1>3, <1>4, <1>5, <1>6, <1>7, <1>8, <1>9, <1>10, <1>11 DEF Acts

LEMMA MemStep ==
  ASSUME UseInv, MemType, MemInv, PagingInv, [Next]_vars
  PROVE  MemInv'
<1>1. UseType' /\ RefsBalance' /\ Holding'
  <2>1. UseType' /\ RefsBalance' /\ PlaceInv'
    BY UseTypeStep, BalanceStep, PlaceStep DEF UseInv
  <2> QED  BY <2>1, Holds, PTL
<1>2. CASE UNCHANGED vars
  BY <1>2 DEF vars, objVars, fbVars, memVars, MemInv, PageObj, PlaceHas, OwnInv
<1>3. ASSUME NEW t \in Threads, Acts(t) PROVE MemInv'
  BY <1>1, <1>3, MemActs
<1>4. ASSUME NEW t \in Threads, Ioctl(t) PROVE MemInv'
  <2>1. CASE MapUnref(t)
    <3>1. CASE MapReturn(t)
      BY <1>3, <3>1 DEF Acts
    <3>2. CASE Marked(t)
      <4>1. Moves(t, "fail", obj[t]) /\ Holding
        BY <3>2, Holds DEF Marked, Moves, Keep, UseInv, UseType
      <4> QED  BY <3>2, <4>1, MemOffset DEF Marked, UseInv
    <3> QED  BY <2>1, <3>1, <3>2 DEF MapUnref, MapReturn, Marked
  <2>2. CASE Check(t)
    <3>1. CASE Refused(t)
      BY <1>3, <3>1 DEF Acts
    <3>2. CASE Goto(t, "vpages") /\ UNCHANGED <<ref, memVars, size, offset, maps, obj>> /\ at[t] = "check"
      BY <3>2, MemStill DEF Moves, Keep, UseInv, UseType, PlaceHas
    <3> QED  BY <2>2, <3>1, <3>2 DEF Check, Refused
  <2>3. CASE CreateHandle(t) \/ CreateReturn(t) \/ Swap(t) \/ \E a \in FbArgs : AddFbChecked(t, a)
    BY <1>3, <2>3 DEF Acts
  <2> QED  BY <1>4, <2>1, <2>2, <2>3, MemPaging DEF Ioctl, UseInv
<1> QED  BY <1>2, <1>3, <1>4 DEF Next, Acts

\* A thread that comes to the pages of an object comes alone.
LEMMA PagingMoved ==
  ASSUME UseType, PagingInv, NEW t \in Threads, NEW p, NEW q, Moves(t, p, q),
         \/ p \notin Paging
         \/ at[t] \in Paging /\ q = obj[t]
         \/ \A u \in Threads : obj[u] = q => at[u] \notin Paging
  PROVE  PagingInv'
<1>1. /\ at'[t] = p /\ obj'[t] = q
      /\ \A u \in Threads \ {t} : at'[u] = at[u] /\ obj'[u] = obj[u]
  BY Moved
<1>2. Paging' = Paging
  BY DEF Paging
<1>3. ASSUME NEW u \in Threads, NEW v \in Threads, u # v, obj'[u] = obj'[v],
             at'[u] \in Paging, at'[v] \in Paging
      PROVE  FALSE
  BY <1>1, <1>3 DEF PagingInv
<1> QED  BY <1>2, <1>3 DEF PagingInv

LEMMA PagingStep ==
  ASSUME ~Overlap, UseInv, PagingInv, [Next]_vars
  PROVE  PagingInv'
<1> USE DEF UseInv
<1>m. ASSUME NEW t \in Threads, NEW p, Goto(t, p), UNCHANGED obj
      PROVE  Moves(t, p, obj[t])
  BY <1>m DEF Moves, Keep, UseType
<1>1. CASE UNCHANGED vars
  BY <1>1 DEF vars, PagingInv, Paging
<1>2. ASSUME NEW t \in Threads, NEW p, p \notin Paging, NEW q, Moves(t, p, q)
      PROVE  PagingInv'
  BY <1>2, PagingMoved
<1>3. ASSUME NEW t \in Threads, Ioctl(t)
      PROVE  PagingInv'
  <2>1. CASE CheckPages(t, "pages", "get", "offset") \/ CheckPages(t, "vpages", "vget", "vmap")
    <3>1. PICK p : Goto(t, p) /\ UNCHANGED obj /\ at[t] \in Paging
      BY <2>1 DEF CheckPages, Paging
    <3> QED  BY <1>m, <3>1, PagingMoved
  <2>2. CASE GetPages(t, "get", "test") \/ GetPages(t, "vget", "vtest")
    <3>1. PICK p : Goto(t, p) /\ UNCHANGED obj /\ at[t] \in Paging
      BY <2>2 DEF GetPages, Paging
    <3> QED  BY <1>m, <3>1, PagingMoved
  <2>3. CASE TestPages(t, "test", "fail", "offset") \/ TestPages(t, "vtest", "swap", "vmap")
    <3>1. PICK p : Goto(t, p) /\ UNCHANGED obj /\ at[t] \in Paging
      BY <2>3 DEF TestPages, Paging
    <3> QED  BY <1>m, <3>1, PagingMoved
  <2>4. CASE Check(t)
    <3>1. CASE Goto(t, "vpages") /\ UNCHANGED obj /\ at[t] = "check"
      BY <1>m, <3>1, PagingMoved DEF Paging
    <3>2. CASE Return(t)
      BY <1>2, <3>2 DEF Return, Moves, Paging
    <3> QED  BY <2>4, <3>1, <3>2 DEF Check
  <2>5. CASE CheckVaddr(t) \/ Vmap(t) \/ Read(t)
    <3>1. PICK p \in {"vset", "read", "swap"} : Goto(t, p) /\ UNCHANGED obj
      BY <2>5 DEF CheckVaddr, Vmap, Read
    <3> QED  BY <1>2, <1>m, <3>1 DEF Paging
  <2>6. CASE MapUnref(t)
    <3>1. (Goto(t, "fail") /\ UNCHANGED obj) \/ Return(t)
      BY <2>6 DEF MapUnref
    <3> QED  BY <1>2, <1>m, <3>1 DEF Return, Moves, Paging
  <2>7. CASE CreateHandle(t)
    <3>1. (Goto(t, "unref") /\ UNCHANGED obj) \/ Return(t)
      BY <2>7 DEF CreateHandle
    <3> QED  BY <1>2, <1>m, <3>1 DEF Return, Moves, Paging
  <2>8. CASE CreateReturn(t) \/ Swap(t) \/ \E a \in FbArgs : AddFbChecked(t, a)
    <3>1. Return(t)
      BY <2>8 DEF CreateReturn, Swap, AddFbChecked
    <3> QED  BY <1>2, <3>1 DEF Return, Moves, Paging
  <2> QED  BY <1>3, <2>1, <2>2, <2>3, <2>4, <2>5, <2>6, <2>7, <2>8 DEF Ioctl
<1>4. ASSUME NEW t \in Threads, NEW o \in Objects, NEW a \in DumbArgs, Create(t, o, a)
      PROVE  PagingInv'
  BY <1>2, <1>4 DEF Create, Looked, Moves, Paging
<1>5. ASSUME NEW t \in Threads, NEW o \in Objects,
             CloseHandle(t, o) \/ Mmap(t, o) \/ Munmap(t, o) \/ RmFb(t, o)
      PROVE  PagingInv'
  BY <1>5 DEF CloseHandle, Mmap, Munmap, RmFb, PagingInv, Paging
<1>6. ASSUME NEW t \in Threads, NEW o \in Objects, MapOffset(t, o) \/ Commit(t, o)
      PROVE  PagingInv'
  <2>1. Alone(o) /\ \E p : Moves(t, p, o)
    BY <1>6 DEF MapOffset, Commit, Looked, Moves
  <2> QED  BY <2>1, PagingMoved DEF Alone
<1>7. ASSUME NEW t \in Threads, NEW o \in Objects, AddFb(t, o)
      PROVE  PagingInv'
  BY <1>2, <1>7 DEF AddFb, Looked, Moves, Paging
<1> QED  BY <1>1, <1>3, <1>4, <1>5, <1>6, <1>7 DEF Next

LEMMA MemAlways ==
  ASSUME ~Overlap
  PROVE  Spec => [](UseInv /\ MemType /\ MemInv /\ PagingInv)
<1>1. Init => MemInv /\ PagingInv
  <2> SUFFICES ASSUME Init PROVE MemInv /\ PagingInv
    OBVIOUS
  <2> USE DEF Init
  <2>1. MemInv
    BY DEF MemInv, PageObj, PlaceHas, OwnInv
  <2>2. PagingInv
    BY DEF PagingInv, Paging
  <2> QED  BY <2>1, <2>2
<1>2. UseInv /\ MemType /\ MemInv /\ PagingInv /\ [Next]_vars => MemInv' /\ PagingInv'
  BY MemStep, PagingStep
<1> QED  BY UseAlways, <1>1, <1>2, PTL DEF Spec

\* PagesLive: while an object is mapped or its frame is read, its page array and
\* its kernel mapping exist, whoever closes handles and removes framebuffers.
THEOREM PagesOutliveUse ==
  ASSUME ~Overlap
  PROVE  Spec => []PagesLive
<1>1. UseInv /\ MemInv => PagesLive
  BY DEF UseInv, MemInv, PageObj, PlaceHas, PagesLive
<1> QED  BY MemAlways, <1>1, PTL

\* NothingLeaks: gud_gem_free_object will find every page array and every kernel
\* mapping in an object, also after allocations have failed.
THEOREM MemoryIsReleased ==
  ASSUME ~Overlap
  PROVE  Spec => []NothingLeaks
<1>1. UseInv /\ MemType /\ MemInv => NothingLeaks
  <2> SUFFICES ASSUME UseInv, MemType, MemInv PROVE NothingLeaks
    OBVIOUS
  <2>1. \A o \in Objects : ref[o] \in Nat /\ (ref[o] = 0 => pages[o] = 0 /\ vaddr[o] = 0)
    BY DEF UseInv, UseType, MemInv, PageObj
  <2>2. 0 \notin arrays /\ 0 \notin kmaps
    BY DEF MemType
  <2>3. ASSUME NEW a \in arrays PROVE \E o \in Objects : ref[o] > 0 /\ pages[o] = a
    BY <2>1, <2>2 DEF MemInv, OwnInv
  <2>4. ASSUME NEW k \in kmaps PROVE \E o \in Objects : ref[o] > 0 /\ vaddr[o] = k
    BY <2>1, <2>2 DEF MemInv, OwnInv
  <2> QED  BY <2>3, <2>4 DEF NothingLeaks
<1> QED  BY MemAlways, <1>1, PTL
=============================================================================
