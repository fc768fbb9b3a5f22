------------------------- MODULE GudReconnectProofs -------------------------
(***************************************************************************)
(* Theorems about GudReconnect, for every finite set of devices, every set *)
(* of root ports and controllers, and every limit of the counters.         *)
(***************************************************************************)
EXTENDS GudReconnect, FiniteSetTheorems, TLAPS

\* An occupied slot has polls left.
PollsLeft == slot # NoPort => polls < MaxPolls /\ stable < StablePolls

\* Where a thread's local variable owns a reference.
LocalRefs ==
  /\ \A t \in Threads :
       held[t] # NoHcd => pc[t] \in {"arm", "grab", "wait", "put", "report"}
  /\ \A d \in Devices : pc[d] = "arm" => held[d] = HcdOf[Root[d]]
  /\ pc["worker"] = "report" => held["worker"] # NoHcd

RefInv == TypeOK /\ PollsLeft /\ LocalRefs /\ HcdRefsBalance

-----------------------------------------------------------------------------
(* Counting the holders of a reference.                                    *)

LEMMA ThreadsFinite == IsFiniteSet(Threads)
  <1>1. IsFiniteSet(Cancellers)
    BY ReconnectAssumption, FS_AddElement DEF ReconnectAssumption, Cancellers
  <1> QED BY <1>1, FS_AddElement DEF Threads

Count(f, g) == Cardinality({u \in Threads : f[u] = g})

LEMMA CountIsNat == ASSUME NEW f, NEW g PROVE Count(f, g) \in Nat
  BY ThreadsFinite, FS_Subset, FS_CardinalityType DEF Count

\* A thread that held nothing now holds h.
LEMMA CountAdd ==
  ASSUME NEW f \in [Threads -> Hcds \cup {NoHcd}], NEW t \in Threads,
         NEW h \in Hcds, f[t] = NoHcd, NEW g \in Hcds
  PROVE  Count([f EXCEPT ![t] = h], g) = Count(f, g) + IF g = h THEN 1 ELSE 0
  <1> DEFINE old == {u \in Threads : f[u] = g}
             new == {u \in Threads : [f EXCEPT ![t] = h][u] = g}
  <1>1. IsFiniteSet(old)
    BY ThreadsFinite, FS_Subset
  <1>2. CASE g = h
    <2>1. new = old \cup {t} /\ t \notin old
      BY <1>2, ReconnectAssumption DEF ReconnectAssumption
    <2> QED BY <1>1, <1>2, <2>1, FS_AddElement DEF Count
  <1>3. CASE g # h
    <2>1. new = old
      BY <1>3, ReconnectAssumption DEF ReconnectAssumption
    <2>2. Cardinality(old) \in Nat
      BY <1>1, FS_CardinalityType
    <2>3. Cardinality(new) = Cardinality(old)
      BY <2>1
    <2> QED BY <1>3, <2>2, <2>3 DEF Count
  <1> QED BY <1>2, <1>3

\* A thread that held h now holds nothing.
LEMMA CountDrop ==
  ASSUME NEW f \in [Threads -> Hcds \cup {NoHcd}], NEW t \in Threads,
         f[t] \in Hcds, NEW g \in Hcds
  PROVE  /\ Count([f EXCEPT ![t] = NoHcd], g)
              = Count(f, g) - IF g = f[t] THEN 1 ELSE 0
         /\ g = f[t] => Count(f, g) > 0
  <1> DEFINE old == {u \in Threads : f[u] = g}
             new == {u \in Threads : [f EXCEPT ![t] = NoHcd][u] = g}
  <1>1. IsFiniteSet(old)
    BY ThreadsFinite, FS_Subset
  <1>2. CASE g = f[t]
    <2>1. new = old \ {t} /\ t \in old
      BY <1>2, ReconnectAssumption DEF ReconnectAssumption
    <2>2. Cardinality(old \ {t}) = Cardinality(old) - 1
      BY <1>1, <2>1, FS_RemoveElement
    <2>3. Cardinality(old) # 0
      BY <1>1, <2>1, FS_EmptySet
    <2>4. Cardinality(old) \in Nat
      BY <1>1, FS_CardinalityType
    <2>5. Cardinality(new) = Cardinality(old) - 1
      BY <2>1, <2>2
    <2> QED BY <1>2, <2>3, <2>4, <2>5 DEF Count
  <1>3. CASE g # f[t]
    <2>1. new = old
      BY <1>3, ReconnectAssumption DEF ReconnectAssumption
    <2>2. Cardinality(old) \in Nat
      BY <1>1, FS_CardinalityType
    <2>3. Cardinality(new) = Cardinality(old)
      BY <2>1
    <2> QED BY <1>3, <2>2, <2>3 DEF Count
  <1> QED BY <1>2, <1>3

-----------------------------------------------------------------------------
(* How a reference moves.                                                  *)

Balance(r, f, h) ==
  \A g \in Hcds : r[g] = Count(f, g) + IF h = g THEN 1 ELSE 0

LEMMA BalanceDef ==
  /\ HcdRefsBalance <=> Balance(refs, held, SlotHcd)
  /\ HcdRefsBalance' <=> Balance(refs', held', SlotHcd')
  BY DEF HcdRefsBalance, Balance, Count, Holders

\* usb_get_hcd into a local variable.
LEMMA GetRef ==
  ASSUME TypeOK, HcdRefsBalance, NEW t \in Threads, held[t] = NoHcd,
         NEW h \in Hcds, GetHcd(h), Hold(t, h), slot' = slot
  PROVE  HcdRefsBalance' /\ refs' \in [Hcds -> Nat]
  <1>1. held \in [Threads -> Hcds \cup {NoHcd}] /\ refs \in [Hcds -> Nat]
    BY DEF TypeOK, RefType
  <1>2. Balance(refs, held, SlotHcd)
    BY BalanceDef
  <1>3. SlotHcd' = SlotHcd
    BY DEF SlotHcd
  <1>4. ASSUME NEW g \in Hcds
        PROVE  refs'[g] = Count(held', g) + IF SlotHcd = g THEN 1 ELSE 0
    <2>1. Count(held', g) = Count(held, g) + IF g = h THEN 1 ELSE 0
      BY <1>1, CountAdd DEF Hold
    <2>2. refs'[g] = refs[g] + IF g = h THEN 1 ELSE 0
      BY <1>1 DEF GetHcd
    <2>3. refs[g] = Count(held, g) + IF SlotHcd = g THEN 1 ELSE 0
      BY <1>2 DEF Balance
    <2> QED BY <2>1, <2>2, <2>3, CountIsNat
  <1>5. refs' \in [Hcds -> Nat]
    BY <1>1 DEF GetHcd
  <1> QED BY <1>3, <1>4, <1>5, BalanceDef DEF Balance

\* usb_put_hcd of what a local variable holds.
LEMMA PutRef ==
  ASSUME TypeOK, HcdRefsBalance, NEW t \in Threads, held[t] \in Hcds,
         PutHcd(held[t]), Hold(t, NoHcd), slot' = slot
  PROVE  HcdRefsBalance' /\ refs' \in [Hcds -> Nat]
  <1>1. held \in [Threads -> Hcds \cup {NoHcd}] /\ refs \in [Hcds -> Nat]
    BY DEF TypeOK, RefType
  <1>2. Balance(refs, held, SlotHcd)
    BY BalanceDef
  <1>3. SlotHcd' = SlotHcd
    BY DEF SlotHcd
  <1>4. ASSUME NEW g \in Hcds
        PROVE  /\ refs'[g] = Count(held', g) + IF SlotHcd = g THEN 1 ELSE 0
               /\ refs'[g] \in Nat
    <2>1. /\ Count(held', g) = Count(held, g) - IF g = held[t] THEN 1 ELSE 0
          /\ g = held[t] => Count(held, g) > 0
      BY <1>1, CountDrop DEF Hold
    <2>2. refs'[g] = refs[g] - IF g = held[t] THEN 1 ELSE 0
      BY <1>1 DEF PutHcd
    <2>3. refs[g] = Count(held, g) + IF SlotHcd = g THEN 1 ELSE 0
      BY <1>2 DEF Balance
    <2>4. Count(held, g) \in Nat
      BY CountIsNat
    <2> QED BY <2>1, <2>2, <2>3, <2>4
  <1>5. refs' = [g \in Hcds |-> refs'[g]]
    BY <1>1 DEF PutHcd
  <1>6. refs' \in [Hcds -> Nat]
    BY <1>4, <1>5
  <1> QED BY <1>3, <1>4, <1>6, BalanceDef DEF Balance

\* gud_reconnect_arm hands its reference over to the slot.
LEMMA GiveRef ==
  ASSUME TypeOK, HcdRefsBalance, NEW t \in Threads, NEW p \in Ports,
         held[t] = HcdOf[p], slot = NoPort, slot' = p, Hold(t, NoHcd),
         refs' = refs
  PROVE  HcdRefsBalance'
  <1>1. held \in [Threads -> Hcds \cup {NoHcd}] /\ refs \in [Hcds -> Nat]
    BY DEF TypeOK, RefType
  <1>2. Balance(refs, held, NoHcd)
    BY BalanceDef DEF SlotHcd
  <1>3. SlotHcd' = HcdOf[p] /\ HcdOf[p] \in Hcds
    BY ReconnectAssumption DEF SlotHcd, ReconnectAssumption
  <1>4. ASSUME NEW g \in Hcds
        PROVE  refs'[g] = Count(held', g) + IF HcdOf[p] = g THEN 1 ELSE 0
    <2>1. Count(held', g) = Count(held, g) - IF g = held[t] THEN 1 ELSE 0
      BY <1>1, <1>3, CountDrop DEF Hold
    <2>2. refs[g] = Count(held, g)
      BY <1>1, <1>2, CountIsNat, ReconnectAssumption
         DEF Balance, ReconnectAssumption
    <2> QED BY <2>1, <2>2, CountIsNat
  <1> QED BY <1>3, <1>4, BalanceDef DEF Balance

\* Cancel, exit and the work item take the slot's reference.
LEMMA TakeRef ==
  ASSUME TypeOK, HcdRefsBalance, NEW t \in Threads, held[t] = NoHcd,
         slot' = NoPort, Hold(t, SlotHcd), refs' = refs
  PROVE  HcdRefsBalance'
  <1>1. held \in [Threads -> Hcds \cup {NoHcd}] /\ refs \in [Hcds -> Nat]
    BY DEF TypeOK, RefType
  <1>2. Balance(refs, held, SlotHcd)
    BY BalanceDef
  <1>3. SlotHcd' = NoHcd
    BY DEF SlotHcd
  <1>4. CASE slot = NoPort
    <2>1. held' = held
      BY <1>1, <1>4 DEF Hold, SlotHcd
    <2> QED BY <1>2, <1>3, <1>4, <2>1, BalanceDef DEF SlotHcd
  <1>5. CASE slot # NoPort
    <2> DEFINE h == HcdOf[slot]
    <2>1. SlotHcd = h /\ h \in Hcds
      BY <1>5, ReconnectAssumption DEF SlotHcd, ReconnectAssumption, TypeOK, MonitorType
    <2>2. ASSUME NEW g \in Hcds
          PROVE  refs'[g] = Count(held', g) + IF NoHcd = g THEN 1 ELSE 0
      <3>1. Count(held', g) = Count(held, g) + IF g = h THEN 1 ELSE 0
        BY <1>1, <2>1, CountAdd DEF Hold
      <3>2. refs[g] = Count(held, g) + IF h = g THEN 1 ELSE 0
        BY <1>2, <2>1 DEF Balance
      <3> QED BY <3>1, <3>2, CountIsNat, ReconnectAssumption DEF ReconnectAssumption
    <2> QED BY <1>3, <2>2, BalanceDef DEF Balance
  <1> QED BY <1>4, <1>5

LEMMA SameRef ==
  HcdRefsBalance /\ UNCHANGED <<refs, held, slot>> => HcdRefsBalance'
  BY DEF HcdRefsBalance, Holders, SlotHcd

-----------------------------------------------------------------------------
(* The reference invariant is inductive.                                   *)

LEMMA InitRefInv == Init => RefInv
  <1> SUFFICES ASSUME Init PROVE RefInv
    OBVIOUS
  <1>1. TypeOK
    <2> USE ReconnectAssumption DEF ReconnectAssumption, Init
    <2>1. PortType
      BY DEF PortType
    <2>2. MonitorType
      <3>1. 0 \in 0..MaxPolls /\ 0 \in 0..StablePolls
        OBVIOUS
      <3> QED BY <3>1 DEF MonitorType
    <2>3. WorkType
      BY DEF WorkType, Cancellers
    <2>4. RefType
      BY DEF RefType
    <2>5. LocalType
      BY DEF LocalType, Labels, Outcomes
    <2>6. HistoryType
      BY DEF HistoryType
    <2> QED BY <2>1, <2>2, <2>3, <2>4, <2>5, <2>6 DEF TypeOK
  <1>2. LocalRefs /\ PollsLeft
    BY ReconnectAssumption
       DEF Init, LocalRefs, PollsLeft, ReconnectAssumption, Threads, Cancellers
  <1>3. ASSUME NEW h \in Hcds PROVE Cardinality(Holders(h)) = 0
    <2>1. Holders(h) = {}
      BY ReconnectAssumption DEF Init, Holders, ReconnectAssumption
    <2> QED BY <2>1, FS_EmptySet
  <1>4. HcdRefsBalance
    BY <1>3, ReconnectAssumption
       DEF Init, HcdRefsBalance, SlotHcd, ReconnectAssumption
  <1> QED BY <1>1, <1>2, <1>4 DEF RefInv

LEMMA AttachRef ==
  ASSUME RefInv, NEW p \in Ports, Attach(p)
  PROVE  RefInv'
  <1> USE ReconnectAssumption
      DEF ReconnectAssumption, RefInv, TypeOK, PortType, MonitorType, WorkType,
          RefType, LocalType, HistoryType, portVars, monitorVars,
          workVars, localVars, history, At, Go, Hold, Labels, Threads,
          Cancellers
  <1>1. TypeOK'
    BY DEF Attach
  <1>2. PollsLeft' /\ LocalRefs'
    BY DEF PollsLeft, LocalRefs, Attach
  <1>3. HcdRefsBalance'
    BY SameRef DEF Attach
  <1> QED BY <1>1, <1>2, <1>3

LEMMA DetachRef ==
  ASSUME RefInv, NEW p \in Ports, Detach(p)
  PROVE  RefInv'
  <1> USE ReconnectAssumption
      DEF ReconnectAssumption, RefInv, TypeOK, PortType, MonitorType, WorkType,
          RefType, LocalType, HistoryType, portVars, monitorVars,
          workVars, localVars, history, At, Go, Hold, Labels, Threads,
          Cancellers
  <1>1. TypeOK'
    BY DEF Detach
  <1>2. PollsLeft' /\ LocalRefs'
    BY DEF PollsLeft, LocalRefs, Detach
  <1>3. HcdRefsBalance'
    BY SameRef DEF Detach
  <1> QED BY <1>1, <1>2, <1>3

LEMMA ProbeRef ==
  ASSUME RefInv, NEW d \in Devices, Probe(d)
  PROVE  RefInv'
  <1> USE ReconnectAssumption
      DEF ReconnectAssumption, RefInv, TypeOK, PortType, MonitorType, WorkType,
          RefType, LocalType, HistoryType, portVars, monitorVars,
          workVars, localVars, history, At, Go, Hold, Labels, Threads,
          Cancellers
  <1>1. TypeOK'
    BY DEF Probe
  <1>2. PollsLeft' /\ LocalRefs'
    BY DEF PollsLeft, LocalRefs, Probe
  <1>3. HcdRefsBalance'
    BY SameRef DEF Probe
  <1> QED BY <1>1, <1>2, <1>3

LEMMA ArmRefusedRef ==
  ASSUME RefInv, NEW d \in Devices, ArmRefused(d)
  PROVE  RefInv'
  <1> USE ReconnectAssumption
      DEF ReconnectAssumption, RefInv, TypeOK, PortType, MonitorType, WorkType,
          RefType, LocalType, HistoryType, portVars, monitorVars,
          workVars, localVars, history, At, Go, Hold, Labels, Threads,
          Cancellers
  <1>1. TypeOK'
    BY DEF ArmRefused, Refused
  <1>2. PollsLeft' /\ LocalRefs'
    BY DEF PollsLeft, LocalRefs, ArmRefused, Refused
  <1>3. HcdRefsBalance'
    BY SameRef DEF ArmRefused, Refused
  <1> QED BY <1>1, <1>2, <1>3

LEMMA CancelNothingRef ==
  ASSUME RefInv, NEW d \in Devices, CancelNothing(d)
  PROVE  RefInv'
  <1> USE ReconnectAssumption
      DEF ReconnectAssumption, RefInv, TypeOK, PortType, MonitorType, WorkType,
          RefType, LocalType, HistoryType, portVars, monitorVars,
          workVars, localVars, history, At, Go, Hold, Labels, Threads,
          Cancellers
  <1>1. TypeOK'
    BY DEF CancelNothing
  <1>2. PollsLeft' /\ LocalRefs'
    BY DEF PollsLeft, LocalRefs, CancelNothing
  <1>3. HcdRefsBalance'
    BY SameRef DEF CancelNothing
  <1> QED BY <1>1, <1>2, <1>3

LEMMA GrabRef ==
  ASSUME RefInv, NEW t \in Cancellers, Grab(t)
  PROVE  RefInv'
  <1> USE ReconnectAssumption
      DEF ReconnectAssumption, RefInv, TypeOK, PortType, MonitorType, WorkType,
          RefType, LocalType, HistoryType, portVars, monitorVars,
          workVars, localVars, history, At, Go, Hold, Labels, Threads,
          Cancellers
  <1>1. TypeOK'
    BY DEF Grab
  <1>2. PollsLeft' /\ LocalRefs'
    BY DEF PollsLeft, LocalRefs, Grab
  <1>3. HcdRefsBalance'
    BY SameRef DEF Grab
  <1> QED BY <1>1, <1>2, <1>3

LEMMA WaitRef ==
  ASSUME RefInv, NEW t \in Cancellers, Wait(t)
  PROVE  RefInv'
  <1> USE ReconnectAssumption
      DEF ReconnectAssumption, RefInv, TypeOK, PortType, MonitorType, WorkType,
          RefType, LocalType, HistoryType, portVars, monitorVars,
          workVars, localVars, history, At, Go, Hold, Labels, Threads,
          Cancellers
  <1>1. TypeOK'
    BY DEF Wait
  <1>2. PollsLeft' /\ LocalRefs'
    BY DEF PollsLeft, LocalRefs, Wait
  <1>3. HcdRefsBalance'
    BY SameRef DEF Wait
  <1> QED BY <1>1, <1>2, <1>3

LEMMA DeregisterRef ==
  ASSUME RefInv, Deregister
  PROVE  RefInv'
  <1> USE ReconnectAssumption
      DEF ReconnectAssumption, RefInv, TypeOK, PortType, MonitorType, WorkType,
          RefType, LocalType, HistoryType, portVars, monitorVars,
          workVars, localVars, history, At, Go, Hold, Labels, Threads,
          Cancellers
  <1>1. TypeOK'
    BY DEF Deregister
  <1>2. PollsLeft' /\ LocalRefs'
    BY DEF PollsLeft, LocalRefs, Deregister
  <1>3. HcdRefsBalance'
    BY SameRef DEF Deregister
  <1> QED BY <1>1, <1>2, <1>3

LEMMA WorkStartRef ==
  ASSUME RefInv, WorkStart
  PROVE  RefInv'
  <1> USE ReconnectAssumption
      DEF ReconnectAssumption, RefInv, TypeOK, PortType, MonitorType, WorkType,
          RefType, LocalType, HistoryType, portVars, monitorVars,
          workVars, localVars, history, At, Go, Hold, Labels, Threads,
          Cancellers
  <1>1. TypeOK'
    BY DEF WorkStart
  <1>2. PollsLeft' /\ LocalRefs'
    BY DEF PollsLeft, LocalRefs, WorkStart
  <1>3. HcdRefsBalance'
    BY SameRef DEF WorkStart
  <1> QED BY <1>1, <1>2, <1>3

LEMMA PollNothingRef ==
  ASSUME RefInv, PollNothing
  PROVE  RefInv'
  <1> USE ReconnectAssumption
      DEF ReconnectAssumption, RefInv, TypeOK, PortType, MonitorType, WorkType,
          RefType, LocalType, HistoryType, portVars, monitorVars,
          workVars, localVars, history, At, Go, Hold, Labels, Threads,
          Cancellers
  <1>1. TypeOK'
    BY DEF PollNothing
  <1>2. PollsLeft' /\ LocalRefs'
    BY DEF PollsLeft, LocalRefs, PollNothing
  <1>3. HcdRefsBalance'
    BY SameRef DEF PollNothing
  <1> QED BY <1>1, <1>2, <1>3

LEMMA ArmRef ==
  ASSUME RefInv, NEW d \in Devices, Arm(d)
  PROVE  RefInv'
  <1> USE ReconnectAssumption DEF ReconnectAssumption
  <1>1. TypeOK'
    <2> USE DEF RefInv, TypeOK, Arm, At, Go, Hold, portVars, localVars
    <2>1. PortType'
      BY DEF PortType
    <2>2. MonitorType'
      <3>1. slot' \in Ports \cup {NoPort} /\ polls' = 0 /\ stable' = 0
        BY DEF ResetPolls
      <3>2. detached' \in BOOLEAN /\ stopping' \in BOOLEAN
        BY DEF MonitorType, ResetDetached
      <3>3. 0 \in 0..MaxPolls /\ 0 \in 0..StablePolls
        OBVIOUS
      <3> QED BY <3>1, <3>2, <3>3 DEF MonitorType
    <2>3. WorkType'
      BY DEF WorkType, Schedule
    <2>4. RefType'
      BY DEF RefType
    <2>5. LocalType'
      BY DEF LocalType, Labels
    <2>6. HistoryType'
      BY DEF HistoryType, PortType
    <2> QED BY <2>1, <2>2, <2>3, <2>4, <2>5, <2>6
  <1>2. PollsLeft' /\ LocalRefs'
    BY DEF RefInv, TypeOK, MonitorType, RefType, LocalType, PollsLeft, LocalRefs, Arm,
           Occupied, ResetPolls, At, Go, Hold, Threads, Cancellers
  <1>3. HcdRefsBalance'
    BY GiveRef DEF RefInv, LocalRefs, Arm, Occupied, Threads, Cancellers, At
  <1> QED BY <1>1, <1>2, <1>3 DEF RefInv

LEMMA CancelTakeRef ==
  ASSUME RefInv, NEW d \in Devices, CancelTake(d)
  PROVE  RefInv'
  <1> USE ReconnectAssumption
      DEF ReconnectAssumption, RefInv, TypeOK, PortType, MonitorType, WorkType,
          RefType, LocalType, HistoryType, portVars, monitorVars,
          workVars, localVars, history, At, Go, Hold, Labels, Threads,
          Cancellers
  <1>1. TypeOK'
    BY DEF CancelTake, SlotHcd
  <1>2. PollsLeft' /\ LocalRefs'
    BY DEF PollsLeft, LocalRefs, CancelTake, SlotHcd
  <1>3. HcdRefsBalance'
    BY TakeRef DEF LocalRefs, CancelTake
  <1> QED BY <1>1, <1>2, <1>3

LEMMA ExitTakeRef ==
  ASSUME RefInv, ExitTake
  PROVE  RefInv'
  <1> USE ReconnectAssumption
      DEF ReconnectAssumption, RefInv, TypeOK, PortType, MonitorType, WorkType,
          RefType, LocalType, HistoryType, portVars, monitorVars,
          workVars, localVars, history, At, Go, Hold, Labels, Threads,
          Cancellers
  <1>1. TypeOK'
    BY DEF ExitTake, SlotHcd
  <1>2. PollsLeft' /\ LocalRefs'
    BY DEF PollsLeft, LocalRefs, ExitTake, SlotHcd
  <1>3. HcdRefsBalance'
    BY TakeRef DEF LocalRefs, ExitTake
  <1> QED BY <1>1, <1>2, <1>3

LEMMA DisconnectRef ==
  ASSUME RefInv, NEW d \in Devices, Disconnect(d)
  PROVE  RefInv'
  <1> USE ReconnectAssumption DEF ReconnectAssumption
  <1>1. d \in Threads /\ held[d] = NoHcd /\ HcdOf[Root[d]] \in Hcds
    BY DEF RefInv, LocalRefs, Disconnect, Threads, Cancellers, At
  <1>2. HcdRefsBalance' /\ refs' \in [Hcds -> Nat]
    BY <1>1, GetRef DEF RefInv, Disconnect, monitorVars
  <1>3. TypeOK'
    BY <1>1, <1>2
       DEF RefInv, TypeOK, PortType, MonitorType, WorkType, RefType, LocalType,
           HistoryType, Disconnect, Go, Hold, Labels, monitorVars, workVars,
           localVars, history
  <1>4. PollsLeft' /\ LocalRefs'
    BY <1>1
       DEF RefInv, TypeOK, RefType, LocalType, PollsLeft, LocalRefs, Disconnect,
           Go, Hold, monitorVars
  <1> QED BY <1>2, <1>3, <1>4 DEF RefInv

LEMMA PutRefInv ==
  ASSUME RefInv, NEW t \in Cancellers, Put(t)
  PROVE  RefInv'
  <1> USE ReconnectAssumption DEF ReconnectAssumption
  <1>1. t \in Threads /\ t # "worker" /\ held[t] \in Hcds \cup {NoHcd}
    BY DEF RefInv, TypeOK, RefType, Threads, Cancellers
  <1>2. HcdRefsBalance' /\ refs' \in [Hcds -> Nat]
    <2>1. CASE held[t] = NoHcd
      <3>1. held' = held
        BY <2>1 DEF RefInv, TypeOK, RefType, Put, Hold
      <3> QED BY <2>1, <3>1, SameRef
              DEF RefInv, TypeOK, RefType, Put, monitorVars
    <2>2. CASE held[t] # NoHcd
      BY <1>1, <2>2, PutRef DEF RefInv, Put, monitorVars
    <2> QED BY <2>1, <2>2
  <1>3. TypeOK'
    BY <1>1, <1>2
       DEF RefInv, TypeOK, PortType, MonitorType, WorkType, RefType, LocalType,
           HistoryType, Put, Go, Hold, Labels, portVars, monitorVars, workVars,
           localVars, history
  <1>4. PollsLeft' /\ LocalRefs'
    BY <1>1
       DEF RefInv, TypeOK, RefType, LocalType, PollsLeft, LocalRefs, Put, Go,
           Hold, monitorVars
  <1> QED BY <1>2, <1>3, <1>4 DEF RefInv

LEMMA ReportRef ==
  ASSUME RefInv, Report
  PROVE  RefInv'
  <1> USE ReconnectAssumption DEF ReconnectAssumption
  <1>1. "worker" \in Threads /\ held["worker"] \in Hcds
    BY DEF RefInv, TypeOK, RefType, LocalRefs, Report, At, Threads
  <1>2. HcdRefsBalance' /\ refs' \in [Hcds -> Nat]
    BY <1>1, PutRef DEF RefInv, Report, monitorVars
  <1>3. TypeOK'
    BY <1>1, <1>2
       DEF RefInv, TypeOK, PortType, MonitorType, WorkType, RefType, LocalType,
           HistoryType, Report, Go, Hold, Labels, Outcomes, portVars,
           monitorVars, workVars, history
  <1>4. PollsLeft' /\ LocalRefs'
    BY <1>1
       DEF RefInv, TypeOK, RefType, LocalType, PollsLeft, LocalRefs, Report, Go,
           Hold, monitorVars
  <1> QED BY <1>2, <1>3, <1>4 DEF RefInv

LEMMA PollRef ==
  ASSUME RefInv, NEW read \in BOOLEAN, Poll(read)
  PROVE  RefInv'
  <1> USE ReconnectAssumption DEF ReconnectAssumption
  <1>1. "worker" \in Threads /\ held["worker"] = NoHcd
    BY DEF RefInv, LocalRefs, Poll, At, Threads
  <1>2. polls' \in 0..MaxPolls /\ stable' \in 0..StablePolls
    BY DEF RefInv, TypeOK, MonitorType, PollsLeft, Poll, Observe
  <1>3. detached' \in BOOLEAN /\ stopping' \in BOOLEAN
    BY DEF RefInv, TypeOK, MonitorType, PortType, Poll, Observe
  <1>4. /\ PortType' /\ HistoryType'
        /\ canceler' \in Cancellers \cup {NoOne}
        /\ refs' \in [Hcds -> Nat]
    BY DEF RefInv, TypeOK, PortType, WorkType, RefType, HistoryType, Poll,
           portVars, history
  <1>5. CASE Result = "none"
    <2>1. UNCHANGED <<slot, held, localVars, refs>> /\ Go("worker", "idle")
      BY <1>5 DEF Poll
    <2>2. queued' \in BOOLEAN
      BY <1>5 DEF Poll, Again, Schedule, RefInv, TypeOK, WorkType
    <2>3. TypeOK'
      BY <1>2, <1>3, <1>4, <2>1, <2>2
         DEF RefInv, TypeOK, MonitorType, WorkType, RefType, LocalType, Go,
             Labels, localVars
    <2>4. PollsLeft'
      BY <1>2, <1>5 DEF Result, PollsLeft
    <2>5. LocalRefs'
      BY <2>1 DEF RefInv, TypeOK, RefType, LocalType, LocalRefs, Poll, At, Go
    <2>6. HcdRefsBalance'
      BY <2>1, SameRef DEF RefInv
    <2> QED BY <2>3, <2>4, <2>5, <2>6 DEF RefInv
  <1>6. CASE Result # "none"
    <2>1. /\ outcome' = Result /\ reported' = slot /\ slot' = NoPort
          /\ Hold("worker", SlotHcd) /\ Go("worker", "report")
          /\ queued' = queued /\ refs' = refs /\ slot \in Ports
      BY <1>6 DEF Poll, RefInv, TypeOK, MonitorType
    <2>2. SlotHcd \in Hcds
      BY <2>1 DEF SlotHcd
    <2>3. Result \in Outcomes
      BY DEF Result, Outcomes
    <2>4. TypeOK'
      BY <1>2, <1>3, <1>4, <2>1, <2>2, <2>3
         DEF RefInv, TypeOK, MonitorType, WorkType, RefType, LocalType, Go, Hold,
             Labels
    <2>5. PollsLeft'
      BY <2>1 DEF PollsLeft
    <2>6. LocalRefs'
      BY <1>1, <2>1, <2>2 DEF RefInv, TypeOK, RefType, LocalType, LocalRefs, Go, Hold
    <2>7. HcdRefsBalance'
      BY <1>1, <2>1, TakeRef DEF RefInv
    <2> QED BY <2>4, <2>5, <2>6, <2>7 DEF RefInv
  <1> QED BY <1>5, <1>6

LEMMA NextRefInv == RefInv /\ [Next]_vars => RefInv'
  <1> SUFFICES ASSUME RefInv, [Next]_vars PROVE RefInv'
    OBVIOUS
  <1>1. ASSUME NEW p \in Ports, Attach(p) \/ Detach(p) PROVE RefInv'
    BY <1>1, AttachRef, DetachRef
  <1>2. ASSUME NEW d \in Devices, Probe(d) \/ Disconnect(d) \/ CallStep(d)
        PROVE  RefInv'
    BY <1>2, ProbeRef, DisconnectRef, ArmRefusedRef, ArmRef, CancelNothingRef,
       CancelTakeRef, GrabRef, WaitRef, PutRefInv
       DEF CallStep, CancelStep, Cancellers
  <1>3. CASE WorkStep
    BY <1>3, WorkStartRef, PollNothingRef, PollRef, ReportRef DEF WorkStep
  <1>4. CASE ExitTake \/ ExitStep
    BY <1>4, ExitTakeRef, GrabRef, WaitRef, PutRefInv, DeregisterRef
       DEF ExitStep, CancelStep, Cancellers
  <1>5. CASE UNCHANGED vars
    <2>1. HcdRefsBalance'
      BY <1>5, SameRef DEF RefInv, vars, monitorVars
    <2>2. TypeOK' /\ PollsLeft' /\ LocalRefs'
      BY <1>5 DEF RefInv, TypeOK, PortType, MonitorType, WorkType, RefType,
                  LocalType, HistoryType, PollsLeft, LocalRefs, vars, portVars,
                  monitorVars, workVars, localVars, history
    <2> QED BY <2>1, <2>2 DEF RefInv
  <1> QED BY <1>1, <1>2, <1>3, <1>4, <1>5 DEF Next, Unloaded

LEMMA RefInvHolds == Spec => []RefInv
  BY InitRefInv, NextRefInv, PTL DEF Spec

-----------------------------------------------------------------------------
(* Exit: once gud_reconnect_exit has taken the slot nobody fills it again,  *)
(* and what it waited for does not come back.                               *)

ExitInv ==
  /\ stopping <=> pc["exit"] # "idle"
  /\ stopping => slot = NoPort
  /\ pc["exit"] \in {"wait", "put", "deregister", "done"} => ~queued
  /\ pc["exit"] \in {"put", "deregister", "done"} => pc["worker"] = "idle"
  /\ pc["exit"] = "done" => bound = {} /\ \A d \in Devices : pc[d] = "idle"

LEMMA InitExitInv == Init => ExitInv
  BY DEF Init, ExitInv, Threads, Cancellers

\* A step of a device's call that is under way, and leaves the monitor alone.
LEMMA ExitFrame ==
  ASSUME NEW d \in Devices, NEW l, pc \in [Threads -> Labels], ExitInv,
         pc[d] # "idle", pc' = [pc EXCEPT ![d] = l],
         UNCHANGED <<slot, stopping, bound>>, queued' => queued
  PROVE  ExitInv'
  <1> d # "exit" /\ d # "worker" /\ d \in Threads
    BY ReconnectAssumption DEF ReconnectAssumption, Threads, Cancellers
  <1>1. pc'["exit"] = pc["exit"] /\ pc'["worker"] = pc["worker"]
    OBVIOUS
  <1>2. pc["exit"] # "done"
    BY DEF ExitInv
  <1> QED BY <1>1, <1>2 DEF ExitInv

LEMMA NextExitInv == TypeOK /\ ExitInv /\ [Next]_vars => ExitInv'
  <1> SUFFICES ASSUME TypeOK, ExitInv, [Next]_vars PROVE ExitInv'
    OBVIOUS
  <1> USE ReconnectAssumption DEF ReconnectAssumption, At, Go
  <1>0. pc \in [Threads -> Labels]
    BY DEF TypeOK, LocalType
  <1>1. ASSUME NEW p \in Ports, Attach(p) \/ Detach(p) PROVE ExitInv'
    BY <1>1 DEF Attach, Detach, ExitInv, monitorVars, workVars
  <1>2. ASSUME NEW d \in Devices, Probe(d) \/ Disconnect(d) PROVE ExitInv'
    BY <1>0, <1>2 DEF Probe, Disconnect, ExitInv, monitorVars, workVars, Threads,
                      Cancellers
  <1>3. ASSUME NEW d \in Devices, CallStep(d) PROVE ExitInv'
    <2> d # "exit" /\ d # "worker" /\ d \in Threads
      BY DEF Threads, Cancellers
    <2>1. CASE ArmRefused(d)
      BY <1>0, <2>1, ExitFrame DEF ArmRefused, Refused, portVars, monitorVars, workVars
    <2>2. CASE Arm(d)
      BY <1>0, <2>2 DEF Arm, Occupied, ExitInv, portVars
    <2>3. CASE CancelNothing(d)
      BY <1>0, <2>3, ExitFrame DEF CancelNothing, portVars, monitorVars, workVars
    <2>4. CASE CancelTake(d)
      BY <1>0, <2>4 DEF CancelTake, ExitInv, portVars, workVars
    <2>5. CASE Grab(d)
      BY <1>0, <2>5, ExitFrame DEF Grab, portVars, monitorVars
    <2>6. CASE Wait(d)
      BY <1>0, <2>6, ExitFrame DEF Wait, portVars, monitorVars
    <2>7. CASE Put(d)
      <3>1. pc' = [pc EXCEPT ![d] = "idle"] /\ pc[d] # "idle"
        BY <2>7 DEF Put
      <3> QED BY <1>0, <2>7, <3>1, ExitFrame DEF Put, portVars, monitorVars, workVars
    <2> QED BY <1>3, <2>1, <2>2, <2>3, <2>4, <2>5, <2>6, <2>7 DEF CallStep, CancelStep
  <1>4. CASE WorkStep
    <2> "worker" \in Threads
      BY DEF Threads
    <2>1. CASE WorkStart
      BY <1>0, <2>1 DEF WorkStart, ExitInv, portVars, monitorVars
    <2>2. CASE PollNothing
      BY <1>0, <2>2 DEF PollNothing, ExitInv, portVars, monitorVars, workVars
    <2>3. ASSUME NEW read \in BOOLEAN, Poll(read) PROVE ExitInv'
      <3>1. /\ pc' = [pc EXCEPT !["worker"] = pc'["worker"]]
            /\ UNCHANGED <<stopping, bound>>
        BY <1>0, <2>3 DEF Poll, portVars
      <3>2. ~stopping /\ ~stopping'
        BY <2>3, <3>1 DEF Poll
      <3>3. pc["exit"] = "idle" /\ pc'["exit"] = "idle"
        BY <1>0, <3>1, <3>2 DEF ExitInv, Threads, Cancellers
      <3> QED BY <3>2, <3>3 DEF ExitInv
    <2>4. CASE Report
      BY <1>0, <2>4 DEF Report, ExitInv, portVars, monitorVars, workVars
    <2> QED BY <1>4, <2>1, <2>2, <2>3, <2>4 DEF WorkStep
  <1>5. CASE ExitTake
    BY <1>0, <1>5 DEF ExitTake, ExitInv, portVars, workVars, Threads, Cancellers
  <1>6. CASE ExitStep
    <2> "exit" \in Threads
      BY DEF Threads, Cancellers
    <2>1. CASE Grab("exit")
      BY <1>0, <2>1 DEF Grab, ExitInv, portVars, monitorVars
    <2>2. CASE Wait("exit")
      BY <1>0, <2>2 DEF Wait, Synced, ExitInv, portVars, monitorVars
    <2>3. CASE Put("exit")
      BY <1>0, <2>3 DEF Put, ExitInv, portVars, monitorVars, workVars
    <2>4. CASE Deregister
      BY <1>0, <2>4 DEF Deregister, ExitInv, portVars, monitorVars, workVars
    <2> QED BY <1>6, <2>1, <2>2, <2>3, <2>4 DEF ExitStep, CancelStep
  <1>7. CASE UNCHANGED vars
    BY <1>7 DEF ExitInv, vars, portVars, monitorVars, workVars
  <1> QED BY <1>1, <1>2, <1>3, <1>4, <1>5, <1>6, <1>7 DEF Next, Unloaded

LEMMA ExitInvHolds == Spec => []ExitInv
  BY InitExitInv, NextExitInv, RefInvHolds, PTL DEF Spec, RefInv

-----------------------------------------------------------------------------
(* What the history variables say of the slot.                             *)

SlotInv ==
  /\ slot # NoPort => slot \notin quiet
  /\ slot # NoPort /\ ~connected[slot] => down
  /\ SignalNeedsDetach
  /\ CancelIsFinal

LEMMA InitSlotInv == Init => SlotInv
  BY DEF Init, SlotInv, SignalNeedsDetach, CancelIsFinal

\* A step of a device's call, or of module exit, that leaves the slot alone.
LEMMA SlotFrame ==
  ASSUME SlotInv, pc'["worker"] = pc["worker"],
         UNCHANGED <<connected, slot, detached, localVars, history>>
  PROVE  SlotInv'
  <1>1. At("worker", "report")' <=> At("worker", "report")
    BY DEF At
  <1> QED BY <1>1 DEF SlotInv, SignalNeedsDetach, CancelIsFinal, localVars, history

LEMMA NextSlotInv == TypeOK /\ SlotInv /\ [Next]_vars => SlotInv'
  <1> SUFFICES ASSUME TypeOK, SlotInv, [Next]_vars PROVE SlotInv'
    OBVIOUS
  <1> USE ReconnectAssumption
      DEF ReconnectAssumption, At, Go, SlotInv, SignalNeedsDetach, CancelIsFinal
  <1>0. /\ pc \in [Threads -> Labels] /\ connected \in [Ports -> BOOLEAN]
        /\ slot \in Ports \cup {NoPort}
    BY DEF TypeOK, LocalType, PortType, MonitorType
  <1>1. ASSUME NEW p \in Ports, Attach(p) \/ Detach(p) PROVE SlotInv'
    BY <1>0, <1>1 DEF Attach, Detach, monitorVars, localVars, history
  <1>2. ASSUME NEW d \in Devices, Probe(d) \/ Disconnect(d) PROVE SlotInv'
    BY <1>0, <1>2 DEF Probe, Disconnect, monitorVars, localVars, history,
                      Threads, Cancellers
  <1>3. ASSUME NEW d \in Devices, CallStep(d) PROVE SlotInv'
    <2> d # "worker" /\ d \in Threads /\ "worker" \in Threads
      BY DEF Threads, Cancellers
    <2>1. CASE ArmRefused(d) \/ CancelNothing(d)
      <3>1. pc'["worker"] = pc["worker"]
        BY <1>0, <2>1 DEF ArmRefused, Refused, CancelNothing
      <3>2. UNCHANGED <<connected, slot, detached, localVars, history>>
        BY <2>1 DEF ArmRefused, Refused, CancelNothing, portVars, monitorVars
      <3> QED BY <3>1, <3>2, SlotFrame
    <2>2. CASE Arm(d)
      <3>1. Root[d] \in Ports /\ Root[d] # NoPort
        OBVIOUS
      <3>2. slot' = Root[d] /\ detached' = FALSE /\ connected' = connected
        BY <2>2 DEF Arm, ResetDetached, portVars
      <3>3. down' = ~connected[Root[d]] /\ quiet' = quiet \ {Root[d]}
        BY <2>2 DEF Arm
      <3>4. pc'["worker"] = pc["worker"] /\ outcome' = outcome /\ reported' = reported
        BY <1>0, <2>2 DEF Arm, localVars
      <3>5. (slot # NoPort => slot \notin quiet)' /\ SignalNeedsDetach'
        BY <3>1, <3>2, <3>3
      <3>6. (slot # NoPort /\ ~connected[slot] => down)'
        BY <3>2, <3>3
      <3>7. CancelIsFinal'
        BY <3>3, <3>4
      <3> QED BY <3>5, <3>6, <3>7
    <2>3. CASE CancelTake(d)
      BY <1>0, <2>3 DEF CancelTake, portVars, localVars, history
    <2>4. CASE Grab(d) \/ Put(d)
      <3>1. pc'["worker"] = pc["worker"]
        BY <1>0, <2>4 DEF Grab, Put
      <3>2. UNCHANGED <<connected, slot, detached, localVars, history>>
        BY <2>4 DEF Grab, Put, portVars, monitorVars
      <3> QED BY <3>1, <3>2, SlotFrame
    <2>5. CASE Wait(d)
      BY <1>0, <2>5 DEF Wait, Synced, portVars, monitorVars, localVars
    <2> QED BY <1>3, <2>1, <2>2, <2>3, <2>4, <2>5 DEF CallStep, CancelStep
  <1>4. CASE WorkStep
    <2> "worker" \in Threads
      BY DEF Threads
    <2>1. CASE WorkStart \/ PollNothing
      BY <1>0, <2>1 DEF WorkStart, PollNothing, portVars, monitorVars, localVars,
                        history
    <2>2. ASSUME NEW read \in BOOLEAN, Poll(read) PROVE SlotInv'
      BY <1>0, <2>2 DEF Poll, Observe, portVars, localVars, history
    <2>3. CASE Report
      BY <1>0, <2>3 DEF Report, portVars, monitorVars, history
    <2> QED BY <1>4, <2>1, <2>2, <2>3 DEF WorkStep
  <1>5. CASE ExitTake
    BY <1>0, <1>5 DEF ExitTake, portVars, localVars, history, Threads, Cancellers
  <1>6. CASE ExitStep
    <2> "exit" \in Threads /\ "worker" \in Threads
      BY DEF Threads, Cancellers
    <2>1. CASE Grab("exit") \/ Put("exit") \/ Deregister
      <3>1. pc'["worker"] = pc["worker"]
        BY <1>0, <2>1 DEF Grab, Put, Deregister
      <3>2. UNCHANGED <<connected, slot, detached, localVars, history>>
        BY <2>1 DEF Grab, Put, Deregister, portVars, monitorVars
      <3> QED BY <3>1, <3>2, SlotFrame
    <2>2. CASE Wait("exit")
      BY <1>0, <2>2 DEF Wait, portVars, monitorVars, localVars
    <2> QED BY <1>6, <2>1, <2>2 DEF ExitStep, CancelStep
  <1>7. CASE UNCHANGED vars
    BY <1>7 DEF vars, portVars, monitorVars, localVars, history
  <1> QED BY <1>1, <1>2, <1>3, <1>4, <1>5, <1>6, <1>7 DEF Next, Unloaded

LEMMA SlotInvHolds == Spec => []SlotInv
  BY InitSlotInv, NextSlotInv, RefInvHolds, PTL DEF Spec, RefInv

-----------------------------------------------------------------------------
(* The theorems.                                                           *)

\* Types, and the limits of the counters: a poll never goes beyond MaxPolls,
\* because every arm resets them and an expired monitor gives up its slot.
THEOREM TypeCorrect == Spec => []TypeOK
  BY RefInvHolds, PTL DEF RefInv

\* gud_reconnect neither leaks nor doubly drops a reference to a controller.
THEOREM HcdReferencesBalance == Spec => []HcdRefsBalance
  BY RefInvHolds, PTL DEF RefInv

\* After gud_reconnect_exit no work item runs or is queued, whatever probe,
\* disconnect and the work item itself were doing when it was called.
THEOREM ExitQuiesces == Spec => []ExitIsFinal
  <1>1. ExitInv => ExitIsFinal
    BY DEF ExitInv, ExitIsFinal, At
  <1> QED BY <1>1, ExitInvHolds, PTL

\* No reference to a controller outlives the module.
THEOREM UnloadLeaksNothing == Spec => []NoLeakAtUnload
  <1>1. RefInv /\ ExitInv => NoLeakAtUnload
    <2> SUFFICES ASSUME RefInv, ExitInv, At("exit", "done"), NEW h \in Hcds
                 PROVE  refs[h] = 0
      BY DEF NoLeakAtUnload
    <2> USE ReconnectAssumption DEF ReconnectAssumption
    <2>1. slot = NoPort /\ \A t \in Threads : pc[t] \in {"idle", "done"}
      BY DEF ExitInv, At, Threads, Cancellers
    <2>2. Holders(h) = {}
      BY <2>1 DEF RefInv, LocalRefs, Holders
    <2>3. SlotHcd # h
      BY <2>1 DEF SlotHcd
    <2> QED BY <2>2, <2>3, FS_EmptySet, SMTT(30) DEF RefInv, HcdRefsBalance
  <1> QED BY <1>1, RefInvHolds, ExitInvHolds, PTL

\* A probe that cancelled the monitor of its port is followed by no signal for
\* that port: cancel_delayed_work_sync has waited for the work item.
THEOREM CancelHolds == Spec => []CancelIsFinal
  BY SlotInvHolds, PTL DEF SlotInv

\* What a monitor saw of an earlier port never counts for a later one.
THEOREM SignalIsEarned == Spec => []SignalNeedsDetach
  BY SlotInvHolds, PTL DEF SlotInv

-----------------------------------------------------------------------------
(* The monitor keeps what PortMonitor promises.                            *)

\* What the work item is about to report is the outcome of its last poll.
ReportInv == At("worker", "report") \/ (outcome = "none" /\ reported = NoPort)

LEMMA NextReportInv == TypeOK /\ ReportInv /\ [Next]_vars => ReportInv'
  <1> SUFFICES ASSUME TypeOK, ReportInv, [Next]_vars PROVE ReportInv'
    OBVIOUS
  <1> USE ReconnectAssumption DEF ReconnectAssumption, At, Go, ReportInv, localVars
  <1>0. pc \in [Threads -> Labels] /\ "worker" \in Threads
    BY DEF TypeOK, LocalType, Threads
  <1>1. CASE WorkStep
    <2>1. CASE WorkStart \/ PollNothing
      BY <1>0, <2>1 DEF WorkStart, PollNothing
    <2>2. ASSUME NEW read \in BOOLEAN, Poll(read) PROVE ReportInv'
      BY <1>0, <2>2 DEF Poll
    <2>3. CASE Report
      BY <2>3 DEF Report
    <2> QED BY <1>1, <2>1, <2>2, <2>3 DEF WorkStep
  <1>2. ASSUME NEW t \in Cancellers, CancelStep(t) PROVE ReportInv'
    BY <1>0, <1>2 DEF CancelStep, Grab, Wait, Put, Cancellers
  <1>3. ASSUME NEW d \in Devices, CallStep(d) PROVE ReportInv'
    <2>1. CASE CancelStep(d)
      BY <1>2, <2>1 DEF Cancellers
    <2>2. CASE ArmRefused(d) \/ Arm(d) \/ CancelNothing(d) \/ CancelTake(d)
      BY <1>0, <2>2 DEF ArmRefused, Refused, Arm, CancelNothing, CancelTake
    <2> QED BY <1>3, <2>1, <2>2 DEF CallStep
  <1>4. ASSUME NEW d \in Devices, Probe(d) \/ Disconnect(d) PROVE ReportInv'
    BY <1>0, <1>4 DEF Probe, Disconnect
  <1>5. CASE ExitTake \/ ExitStep
    BY <1>0, <1>2, <1>5 DEF ExitTake, ExitStep, Deregister, Cancellers
  <1>6. ASSUME NEW p \in Ports, Attach(p) \/ Detach(p) PROVE ReportInv'
    BY <1>6 DEF Attach, Detach
  <1>7. CASE UNCHANGED vars
    BY <1>7 DEF vars
  <1> QED BY <1>1, <1>3, <1>4, <1>5, <1>6, <1>7 DEF Next, Unloaded

\* A step that shows at the monitor: as one of its steps, or not at all.
LEMMA MonitorStep ==
  ASSUME RefInv, ExitInv, SlotInv, ReportInv, [Next]_vars
  PROVE  [Monitor!Next]_(Monitor!vars)
  <1> USE ReconnectAssumption DEF ReconnectAssumption, At, Go, portVars, localVars, history
  <1>0. /\ pc \in [Threads -> Labels] /\ "worker" \in Threads /\ "exit" \in Threads
        /\ Devices \subseteq Threads /\ Root \in [Devices -> Ports] /\ NoPort \notin Ports
        /\ connected \in [Ports -> BOOLEAN] /\ slot \in Ports \cup {NoPort}
    BY DEF RefInv, TypeOK, LocalType, PortType, MonitorType, Threads, Cancellers
  <1>1. ASSUME NEW p \in Ports, Attach(p) PROVE Monitor!Next
    <2>1. Monitor!Attach(p)
      BY <1>1 DEF Attach, Monitor!Attach, monitorVars
    <2> QED BY <2>1 DEF Monitor!Next
  <1>2. ASSUME NEW p \in Ports, Detach(p) PROVE Monitor!Next
    <2>1. Monitor!Detach(p)
      BY <1>2 DEF Detach, Monitor!Detach, monitorVars
    <2> QED BY <2>1 DEF Monitor!Next
  <1>3. ASSUME NEW d \in Devices, Probe(d) \/ Disconnect(d) PROVE UNCHANGED Monitor!vars
    BY <1>0, <1>3 DEF Probe, Disconnect, Monitor!vars, monitorVars
  <1>4. ASSUME NEW d \in Devices, ArmRefused(d) \/ CancelNothing(d)
        PROVE  UNCHANGED Monitor!vars
    BY <1>0, <1>4 DEF ArmRefused, Refused, CancelNothing, Monitor!vars, monitorVars
  <1>5. ASSUME NEW d \in Devices, Arm(d) PROVE Monitor!Next
    <2>1. pc["exit"] = "idle" /\ pc'["exit"] = pc["exit"] /\ slot = NoPort
      BY <1>0, <1>5 DEF Arm, Occupied, ExitInv
    <2>2. Root[d] \in Ports
      BY <1>0
    <2>3. Monitor!Arm(Root[d])
      BY <1>5, <2>1 DEF Arm, Monitor!Arm
    <2> QED BY <2>2, <2>3 DEF Monitor!Next
  <1>6. ASSUME NEW d \in Devices, CancelTake(d) PROVE Monitor!Next
    <2>1. Monitor!Disarm
      BY <1>0, <1>6 DEF CancelTake, Monitor!Disarm
    <2> QED BY <2>1 DEF Monitor!Next
  <1>7. CASE ExitTake
    <2>1. Monitor!Disarm
      BY <1>0, <1>7 DEF ExitTake, Monitor!Disarm
    <2> QED BY <2>1 DEF Monitor!Next
  <1>8. ASSUME NEW t \in Cancellers, Grab(t) PROVE UNCHANGED Monitor!vars
    <2>1. t \in Threads /\ pc'["exit"] \notin {"deregister", "done"}
                            <=> pc["exit"] \notin {"deregister", "done"}
      BY <1>0, <1>8 DEF Grab, Threads
    <2> QED BY <1>8, <2>1 DEF Grab, Monitor!vars, monitorVars
  <1>9. ASSUME NEW t \in Cancellers, Wait(t) PROVE [Monitor!Next]_(Monitor!vars)
    <2>1. /\ pc["exit"] \notin {"deregister", "done"} <=> pc'["exit"] \notin {"deregister", "done"}
          /\ UNCHANGED <<connected, slot, outcome, reported, down>>
      BY <1>0, <1>9 DEF Wait, monitorVars
    <2>2. outcome = "none"
      BY <1>9 DEF Wait, Synced, ReportInv
    <2>3. CASE quiet' = quiet
      BY <2>1, <2>3 DEF Monitor!vars
    <2>4. CASE quiet' # quiet
      <3>1. t \in Devices /\ slot # Root[t] /\ quiet' = quiet \cup {Root[t]}
        BY <1>9, <2>4 DEF Wait, Cancellers
      <3>2. Root[t] \in Ports
        BY <1>0, <3>1
      <3>3. Monitor!Cancelled(Root[t])
        BY <1>0, <2>1, <2>2, <3>1, <3>2 DEF Monitor!Cancelled
      <3> QED BY <3>2, <3>3 DEF Monitor!Next
    <2> QED BY <2>3, <2>4
  <1>10. ASSUME NEW d \in Devices, Put(d) PROVE UNCHANGED Monitor!vars
    BY <1>0, <1>10 DEF Put, Monitor!vars, monitorVars
  <1>11. CASE Put("exit")
    <2>1. slot = NoPort /\ outcome = "none" /\ pc'["exit"] = "deregister"
      BY <1>0, <1>11 DEF Put, ExitInv, ReportInv
    <2>2. Monitor!Close
      BY <1>11, <2>1 DEF Put, Monitor!Close, monitorVars
    <2> QED BY <2>2 DEF Monitor!Next
  <1>12. CASE Deregister
    BY <1>0, <1>12 DEF Deregister, Monitor!vars, monitorVars
  <1>13. CASE WorkStart \/ PollNothing
    BY <1>0, <1>13 DEF WorkStart, PollNothing, Monitor!vars, monitorVars
  <1>14. ASSUME NEW read \in BOOLEAN, Poll(read) PROVE [Monitor!Next]_(Monitor!vars)
    <2>1. /\ slot # NoPort /\ ~stopping /\ outcome = "none" /\ pc'["exit"] = pc["exit"]
          /\ UNCHANGED <<connected, down, quiet>>
      BY <1>0, <1>14 DEF Poll, ReportInv
    <2>2. CASE Result = "none"
      BY <1>14, <2>1, <2>2 DEF Poll, Monitor!vars
    <2>3. CASE Result = "timeout"
      <3>1. slot' = NoPort /\ outcome' = "timeout"
        BY <1>14, <2>3 DEF Poll
      <3>2. Monitor!Disarm
        BY <2>1, <3>1 DEF Monitor!Disarm
      <3> QED BY <3>2 DEF Monitor!Next
    <2>4. CASE Result = "notify"
      <3>1. slot' = NoPort /\ outcome' = "notify" /\ reported' = slot
        BY <1>14, <2>4 DEF Poll
      <3>2. stable' >= StablePolls
        BY <2>4 DEF Result
      <3>3. stable < StablePolls /\ stable \in Nat /\ StablePolls \in Nat \ {0}
        BY <2>1 DEF RefInv, PollsLeft, TypeOK, MonitorType
      <3>4. connected[slot] /\ detached
        BY <1>14, <3>2, <3>3 DEF Poll, Observe
      <3>5. down
        BY <2>1, <3>4 DEF SlotInv, SignalNeedsDetach
      <3>6. pc["exit"] = "idle"
        BY <2>1 DEF ExitInv
      <3>7. Monitor!Signal
        BY <2>1, <3>1, <3>4, <3>5, <3>6 DEF Monitor!Signal
      <3> QED BY <3>7 DEF Monitor!Next
    <2> QED BY <2>2, <2>3, <2>4 DEF Result
  <1>15. CASE Report
    <2>1. /\ outcome' = "none" /\ pc'["exit"] = pc["exit"]
          /\ UNCHANGED <<connected, slot, down, quiet>>
      BY <1>0, <1>15 DEF Report, monitorVars
    <2>2. CASE outcome = "notify" /\ reported # NoPort
      <3>1. Monitor!Sent
        BY <2>1, <2>2 DEF Monitor!Sent
      <3> QED BY <3>1 DEF Monitor!Next
    <2>3. CASE ~(outcome = "notify" /\ reported # NoPort)
      BY <2>1, <2>3 DEF Monitor!vars
    <2> QED BY <2>2, <2>3
  <1>16. CASE UNCHANGED vars
    BY <1>16 DEF vars, Monitor!vars, monitorVars
  <1> QED
    BY <1>1, <1>2, <1>3, <1>4, <1>5, <1>6, <1>7, <1>8, <1>9, <1>10, <1>11, <1>12,
       <1>13, <1>14, <1>15, <1>16
    DEF Next, CallStep, CancelStep, WorkStep, ExitStep, Unloaded, Cancellers

\* Whatever probes, disconnects, the work item and module exit do side by side,
\* the monitor of gud_reconnect.c keeps the promises of PortMonitor.
THEOREM MonitorIsPortMonitor == Spec => MonitorSpec
  <1>1. Init => ReportInv /\ Monitor!Init
    BY ReconnectAssumption DEF Init, ReportInv, Monitor!Init, Threads, Cancellers
  <1>2. Spec => []ReportInv
    BY <1>1, NextReportInv, RefInvHolds, PTL DEF Spec, RefInv
  <1> QED
    BY <1>1, <1>2, RefInvHolds, ExitInvHolds, SlotInvHolds, MonitorStep, PTL
    DEF Spec, MonitorSpec, Monitor!Spec
=============================================================================
