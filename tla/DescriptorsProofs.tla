------------------------- MODULE DescriptorsProofs --------------------------
(***************************************************************************)
(* The counts of descriptors, for any number of threads, handles, sockets  *)
(* and numbers: CountInv of Descriptors is inductive, so a thread's        *)
(* descriptor always denotes its own socket.                               *)
(***************************************************************************)
EXTENDS Descriptors, FiniteSetTheorems, TLAPS

(* The handles are finitely many, and None is none of them.                *)
LEMMA Constants ==
  /\ IsFiniteSet(Handles)
  /\ None \notin Threads /\ None \notin Handles /\ None \notin Sockets /\ None \notin Fds
BY DescriptorsAssumption

(* The handles that are counted for a number are finitely many.            *)
CountedFinite ==
  \A f : /\ IsFiniteSet(Counted(f)) /\ Cardinality(Counted(f)) \in Nat
         /\ \A h \in Counted(f) : Cardinality(Counted(f)) = 1 => Counted(f) = {h}

(* So they are in every state ...                                          *)
LEMMA CountedNow == CountedFinite
<1> SUFFICES ASSUME NEW f
             PROVE  /\ IsFiniteSet(Counted(f)) /\ Cardinality(Counted(f)) \in Nat
                    /\ \A h \in Counted(f) : Cardinality(Counted(f)) = 1 => Counted(f) = {h}
  BY DEF CountedFinite
<1>1. Counted(f) \subseteq Handles
  BY DEF Counted
<1>2. IsFiniteSet(Counted(f)) /\ Cardinality(Counted(f)) \in Nat
  BY <1>1, Constants, FS_Subset, FS_CardinalityType
<1>3. ASSUME NEW h \in Counted(f), Cardinality(Counted(f)) = 1 PROVE Counted(f) = {h}
  <2>1. PICK x : Counted(f) = {x}
    BY <1>2, <1>3, FS_Singleton
  <2> QED
    BY <2>1
<1> QED
  BY <1>2, <1>3

(* What a handle that exists is, and one that does not.                    *)
HandlesTyped ==
  \A h \in Handles :
    IF Exists(h) THEN fd[h] \in Fds /\ socket[h] \in opened /\ owner[h] \in Threads
                 ELSE fd[h] = None /\ socket[h] = None /\ owner[h] = None

(* The invariant taken apart, ...                                          *)
LEMMA CountInvParts ==
  CountInv <=> TypeOK /\ RefsExact /\ OwnSocket /\ LockKept /\ CloneHeld /\ HandlesTyped
BY DEF CountInv, HandlesTyped

(* ... and put together after a step.                                      *)
LEMMA CountInvPartsNext ==
  CountInv' <=> TypeOK' /\ RefsExact' /\ OwnSocket' /\ LockKept' /\ CloneHeld' /\ HandlesTyped'
BY CountInvParts, PTL

(* At first there is no handle.                                            *)
LEMMA InitInvariant == Init => CountInv
<1> SUFFICES ASSUME Init PROVE CountInv
  OBVIOUS
<1>1. TypeOK
  BY DEF Init, TypeOK
<1>2. RefsExact
  <2> SUFFICES ASSUME NEW f \in Fds
               PROVE  /\ refs[f] = Cardinality(Counted(f))
                      /\ kernel[f] # None <=> \E h \in Handles : Exists(h) /\ fd[h] = f
    BY DEF RefsExact
  <2>1. Counted(f) = {}
    BY DEF Init, Counted
  <2>2. Cardinality(Counted(f)) = 0
    BY <2>1, FS_EmptySet
  <2> QED
    BY <2>2 DEF Init, Exists
<1>3. OwnSocket /\ LockKept /\ CloneHeld /\ HandlesTyped
  BY DEF Init, OwnSocket, LockKept, CloneHeld, HandlesTyped, Exists, Locking
<1> QED
  BY <1>1, <1>2, <1>3, CountInvParts
-----------------------------------------------------------------------------
(***************************************************************************)
(* Threads create, clone, move and give up handles.                        *)
(***************************************************************************)

(* A handle is made for a number that is open for its socket: the first of *)
(* the number, or the clone of one its thread has.                         *)
LEMMA MakeInvariant ==
  ASSUME CountInv, NEW t \in Threads, NEW f \in Fds, NEW s \in Sockets, NEW h \in Handles,
         Make(h, t, f, s), UNCHANGED <<refs, seen>>,
         kernel' \in [Fds -> Sockets \cup {None}], opened' \subseteq Sockets,
         opened \subseteq opened', s \in opened', kernel'[f] = s,
         \A g \in Fds \ {f} : kernel'[g] = kernel[g],
         \/ kernel[f] = None
         \/ kernel[f] = s /\ \E g \in Live : fd[g] = f /\ owner[g] = t
  PROVE  CountInv'
<1>1. /\ stage[h] = "none"
      /\ fd'[h] = f /\ socket'[h] = s /\ owner'[h] = t /\ stage'[h] = "made"
      /\ \A g \in Handles \ {h} : /\ fd'[g] = fd[g] /\ socket'[g] = socket[g]
                                  /\ owner'[g] = owner[g] /\ stage'[g] = stage[g]
  BY DEF Make, CountInv, TypeOK
<1>2. TypeOK'
  BY DEF Make, CountInv, TypeOK
<1>3. \A g \in Fds : Counted(g)' = Counted(g)
  BY <1>1 DEF Counted
<1>4. \A g \in Handles : Exists(g)' <=> g = h \/ Exists(g)
  BY <1>1 DEF Exists
<1>5. RefsExact'
  <2> SUFFICES ASSUME NEW e \in Fds
               PROVE  /\ refs'[e] = Cardinality(Counted(e)')
                      /\ kernel'[e] # None <=> \E g \in Handles : Exists(g)' /\ fd'[g] = e
    BY DEF RefsExact
  <2>1. refs'[e] = Cardinality(Counted(e)')
    BY <1>3 DEF CountInv, RefsExact
  <2>2. CASE e = f
    BY <1>1, <1>4, <2>1, <2>2, Constants
  <2>3. CASE e # f
    <3>1. (\E g \in Handles : Exists(g)' /\ fd'[g] = e) <=> \E g \in Handles : Exists(g) /\ fd[g] = e
      BY <1>1, <1>4, <2>3 DEF Exists
    <3> QED
      BY <2>1, <2>3, <3>1 DEF CountInv, RefsExact
  <2> QED
    BY <2>2, <2>3
<1>6. OwnSocket'
  <2> SUFFICES ASSUME NEW g \in Handles, Exists(g)' PROVE kernel'[fd'[g]] = socket'[g]
    BY DEF OwnSocket
  <2>1. CASE g = h
    BY <1>1, <2>1
  <2>2. CASE g # h
    <3>1. Exists(g) /\ fd'[g] = fd[g] /\ socket'[g] = socket[g] /\ fd[g] \in Fds
      BY <1>1, <1>4, <2>2 DEF CountInv
    <3>2. kernel[fd[g]] = socket[g] /\ kernel[fd[g]] # None
      BY <3>1 DEF CountInv, OwnSocket, RefsExact
    <3> QED
      BY <3>1, <3>2
  <2> QED
    BY <2>1, <2>2
<1>7. LockKept'
  <2>1. Locking' = Locking /\ h \notin Locking
    BY <1>1 DEF Locking
  <2> QED
    BY <1>1, <2>1 DEF CountInv, LockKept, Locking
<1>8. CloneHeld'
  <2> SUFFICES ASSUME NEW g \in Handles, stage'[g] \in {"made", "counting"}
               PROVE  \/ \A e \in Handles \ {g} : fd'[e] # fd'[g]
                      \/ \E e \in Live' : fd'[e] = fd'[g] /\ owner'[e] = owner'[g]
    BY DEF CloneHeld
  <2>1. Live' = Live
    BY <1>1 DEF Live
  <2>2. CASE kernel[f] = None
    <3>1. \A e \in Handles : fd[e] # f
      BY <2>2, Constants DEF CountInv, RefsExact, Exists
    <3>2. CASE g = h
      BY <1>1, <3>1, <3>2
    <3>3. CASE g # h
      <4>1. /\ stage[g] \in {"made", "counting"} /\ fd'[g] = fd[g] /\ owner'[g] = owner[g]
            /\ h \notin Live
        BY <1>1, <3>3 DEF Live
      <4>2. CASE \A e \in Handles \ {g} : fd[e] # fd[g]
        BY <1>1, <3>1, <4>1, <4>2
      <4>3. CASE \E e \in Live : fd[e] = fd[g] /\ owner[e] = owner[g]
        BY <1>1, <2>1, <4>1, <4>3 DEF Live
      <4> QED
        BY <4>1, <4>2, <4>3 DEF CountInv, CloneHeld
    <3> QED
      BY <3>2, <3>3
  <2>3. CASE \E e \in Live : fd[e] = f /\ owner[e] = t
    <3>1. PICK k \in Live : fd[k] = f /\ owner[k] = t
      BY <2>3
    <3>2. k \in Handles /\ k # h /\ stage[k] = "live"
      BY <1>1, <3>1 DEF Live
    <3>3. CASE g = h
      BY <1>1, <2>1, <3>1, <3>2, <3>3
    <3>4. CASE g # h
      <4>1. /\ stage[g] \in {"made", "counting"} /\ fd'[g] = fd[g] /\ owner'[g] = owner[g]
            /\ h \notin Live /\ g # k
        BY <1>1, <3>2, <3>4 DEF Live
      <4>2. CASE \A e \in Handles \ {g} : fd[e] # fd[g]
        BY <1>1, <3>1, <3>2, <4>1, <4>2
      <4>3. CASE \E e \in Live : fd[e] = fd[g] /\ owner[e] = owner[g]
        BY <1>1, <2>1, <4>1, <4>3 DEF Live
      <4> QED
        BY <4>1, <4>2, <4>3 DEF CountInv, CloneHeld
    <3> QED
      BY <3>3, <3>4
  <2> QED
    BY <2>2, <2>3
<1>9. HandlesTyped'
  BY <1>1, <1>4, CountInvParts DEF HandlesTyped
<1> QED
  BY <1>2, <1>5, <1>6, <1>7, <1>8, <1>9, CountInvPartsNext

(* socket or accept gives out a number that no handle has.                 *)
LEMMA OpenInvariant ==
  ASSUME CountInv, NEW t \in Threads, Open(t)
  PROVE  CountInv'
<1>1. PICK f \in Fds, s \in Sockets \ opened, h \in Handles :
        /\ kernel[f] = None
        /\ kernel' = [kernel EXCEPT ![f] = s]
        /\ opened' = opened \cup {s}
        /\ Make(h, t, f, s)
  BY DEF Open
<1>2. /\ kernel' \in [Fds -> Sockets \cup {None}] /\ opened' \subseteq Sockets
      /\ opened \subseteq opened' /\ s \in opened' /\ kernel'[f] = s
      /\ \A g \in Fds \ {f} : kernel'[g] = kernel[g]
  BY <1>1 DEF CountInv, TypeOK
<1>3. UNCHANGED <<refs, seen>>
  BY DEF Open
<1> QED
  BY <1>1, <1>2, <1>3, MakeInvariant

(* A clone has the number of a handle its thread holds on to.              *)
LEMMA CloneInvariant ==
  ASSUME CountInv, NEW t \in Threads, Clone(t)
  PROVE  CountInv'
<1>1. PICK g \in Live, h \in Handles : owner[g] = t /\ Make(h, t, fd[g], socket[g])
  BY DEF Clone
<1>2. /\ g \in Handles /\ Exists(g) /\ fd[g] \in Fds /\ socket[g] \in opened
      /\ socket[g] \in Sockets
  BY DEF CountInv, TypeOK, Live, Exists
<1>3. kernel[fd[g]] = socket[g]
  BY <1>2 DEF CountInv, OwnSocket
<1>4. UNCHANGED <<kernel, opened, refs, seen>>
  BY DEF Clone
<1>5. /\ kernel' \in [Fds -> Sockets \cup {None}] /\ opened' \subseteq Sockets
      /\ opened \subseteq opened' /\ socket[g] \in opened' /\ kernel'[fd[g]] = socket[g]
      /\ \A e \in Fds \ {fd[g]} : kernel'[e] = kernel[e]
  BY <1>2, <1>3, <1>4 DEF CountInv, TypeOK
<1>6. kernel[fd[g]] = socket[g] /\ \E e \in Live : fd[e] = fd[g] /\ owner[e] = t
  BY <1>1, <1>3
<1> QED
  BY <1>1, <1>2, <1>4, <1>5, <1>6, MakeInvariant

(* A move: a clone that is being made is held on to by its own thread,     *)
(* which is busy with it, so it is not the one that moves a handle away.   *)
LEMMA HandOverInvariant ==
  ASSUME CountInv, NEW t \in Threads, NEW u \in Threads, HandOver(t, u)
  PROVE  CountInv'
<1>1. PICK h \in Live : owner[h] = t /\ owner' = [owner EXCEPT ![h] = u]
  BY DEF HandOver
<1>2. /\ Idle(t) /\ UNCHANGED <<kernel, opened, refs, fd, socket, stage, seen>>
      /\ h \in Handles
  BY DEF HandOver, Live
<1>3. owner'[h] = u /\ \A g \in Handles \ {h} : owner'[g] = owner[g]
  BY <1>1, <1>2 DEF CountInv, TypeOK
<1>4. TypeOK'
  BY <1>1, <1>2 DEF CountInv, TypeOK
<1>5. RefsExact' /\ OwnSocket' /\ LockKept'
  <2>1. RefsExact'
    BY <1>2 DEF CountInv, RefsExact, Counted, Exists
  <2>2. OwnSocket'
    BY <1>2 DEF CountInv, OwnSocket, Exists
  <2>3. LockKept'
    BY <1>2 DEF CountInv, LockKept, Locking
  <2> QED
    BY <2>1, <2>2, <2>3
<1>6. CloneHeld'
  <2> SUFFICES ASSUME NEW g \in Handles, stage[g] \in {"made", "counting"},
                      \E e \in Handles \ {g} : fd[e] = fd[g]
               PROVE  \E e \in Live : fd[e] = fd[g] /\ owner'[e] = owner'[g]
    BY <1>2 DEF CloneHeld, Live
  <2>1. PICK e \in Live : fd[e] = fd[g] /\ owner[e] = owner[g]
    BY DEF CountInv, CloneHeld
  <2>2. owner[g] # t /\ g # h /\ e # h
    BY <1>1, <1>2, <2>1 DEF Idle, Live
  <2> QED
    BY <1>3, <2>1, <2>2 DEF Live
<1>7. HandlesTyped'
  BY <1>2, <1>3, CountInvParts DEF HandlesTyped, Exists, Live
<1> QED
  BY <1>4, <1>5, <1>6, <1>7, CountInvPartsNext

(* The destructor begins: its thread is not making a clone meanwhile.      *)
LEMMA DestroyInvariant ==
  ASSUME CountInv, NEW t \in Threads, Destroy(t)
  PROVE  CountInv'
<1>1. PICK h \in Live : owner[h] = t /\ stage' = [stage EXCEPT ![h] = "dying"]
  BY DEF Destroy
<1>2. Idle(t) /\ UNCHANGED <<kernel, opened, refs, fd, socket, owner, seen>> /\ h \in Handles
  BY DEF Destroy, Live
<1>3. /\ stage[h] = "live" /\ stage'[h] = "dying"
      /\ \A g \in Handles \ {h} : stage'[g] = stage[g]
  BY <1>1, <1>2 DEF CountInv, TypeOK, Live
<1>4. TypeOK'
  BY <1>1, <1>2 DEF CountInv, TypeOK
<1>5. /\ \A f \in Fds : Counted(f)' = Counted(f)
      /\ \A g \in Handles : Exists(g)' <=> Exists(g)
      /\ Locking' = Locking
  BY <1>2, <1>3 DEF Counted, Exists, Locking
<1>6. RefsExact' /\ OwnSocket' /\ LockKept'
  <2>1. RefsExact'
    BY <1>2, <1>5 DEF CountInv, RefsExact
  <2>2. OwnSocket' /\ LockKept'
    BY <1>2, <1>5 DEF CountInv, OwnSocket, LockKept
  <2> QED
    BY <2>1, <2>2
<1>7. CloneHeld'
  <2> SUFFICES ASSUME NEW g \in Handles, stage'[g] \in {"made", "counting"},
                      \E e \in Handles \ {g} : fd[e] = fd[g]
               PROVE  \E e \in Live' : fd[e] = fd[g] /\ owner[e] = owner[g]
    BY <1>2 DEF CloneHeld
  <2>1. g # h /\ stage[g] \in {"made", "counting"}
    BY <1>3
  <2>2. PICK e \in Live : fd[e] = fd[g] /\ owner[e] = owner[g]
    BY <2>1 DEF CountInv, CloneHeld
  <2>3. e # h
    BY <1>1, <1>2, <2>1, <2>2 DEF Idle
  <2> QED
    BY <1>3, <2>2, <2>3 DEF Live
<1>8. HandlesTyped'
  BY <1>2, <1>5, CountInvParts DEF HandlesTyped
<1> QED
  BY <1>4, <1>6, <1>7, <1>8, CountInvPartsNext
-----------------------------------------------------------------------------
(***************************************************************************)
(* The count, under m_lock.                                                *)
(***************************************************************************)

(* A thread that takes m_lock reads the count as it is.                    *)
LEMMA LockInvariant ==
  ASSUME CountInv, NEW h \in Handles, Lock(h)
  PROVE  CountInv'
<1>1. /\ stage[h] \in {"made", "dying"} /\ Locking = {}
      /\ stage'[h] = (IF stage[h] = "made" THEN "counting" ELSE "uncounting")
      /\ \A g \in Handles \ {h} : stage'[g] = stage[g]
      /\ seen'[h] = refs[fd[h]]
      /\ UNCHANGED <<kernel, opened, refs, fd, socket, owner>>
  BY DEF Lock, CountInv, TypeOK
<1>2. fd[h] \in Fds
  BY <1>1 DEF CountInv, Exists
<1>3. TypeOK'
  BY <1>2 DEF Lock, CountInv, TypeOK
<1>4. /\ \A f \in Fds : Counted(f)' = Counted(f)
      /\ \A g \in Handles : Exists(g)' <=> Exists(g)
      /\ Live' = Live
      /\ Locking' = {h}
  BY <1>1 DEF Counted, Exists, Locking, Live
<1>5. RefsExact'
  BY <1>1, <1>4 DEF CountInv, RefsExact
<1>6. OwnSocket' /\ LockKept'
  BY <1>1, <1>4 DEF CountInv, OwnSocket, LockKept
<1>7. CloneHeld'
  <2>1. \A g \in Handles : stage'[g] \in {"made", "counting"} => stage[g] \in {"made", "counting"}
    BY <1>1
  <2> QED
    BY <1>1, <1>4, <2>1 DEF CountInv, CloneHeld
<1>8. HandlesTyped'
  BY <1>1, <1>4, CountInvParts DEF HandlesTyped
<1> QED
  BY <1>3, <1>5, <1>6, <1>7, <1>8, CountInvPartsNext

(* A handle that is made is counted under the lock.                        *)
LEMMA CountInvariant ==
  ASSUME CountInv, NEW h \in Handles, Count(h)
  PROVE  CountInv'
<1>1. /\ stage[h] = "counting" /\ stage'[h] = "live"
      /\ \A g \in Handles \ {h} : stage'[g] = stage[g]
      /\ UNCHANGED <<kernel, opened, fd, socket, owner, seen>>
  BY DEF Count, CountInv, TypeOK
<1>2. fd[h] \in Fds /\ h \in Locking
  BY <1>1 DEF CountInv, Exists, Locking
<1> PICK f \in Fds : fd[h] = f
  BY <1>2
<1>3. seen[h] = refs[fd[h]] /\ Locking = {h} /\ refs[fd[h]] \in Nat
  BY <1>2 DEF CountInv, LockKept, TypeOK
<1>4. refs'[f] = refs[f] + 1 /\ \A e \in Fds \ {f} : refs'[e] = refs[e]
  BY <1>2, <1>3 DEF Count, CountInv, TypeOK
<1>5. TypeOK'
  BY <1>1, <1>2, <1>3 DEF Count, CountInv, TypeOK
<1>6. /\ Counted(f)' = Counted(f) \cup {h} /\ h \notin Counted(f)
      /\ \A e \in Fds \ {f} : Counted(e)' = Counted(e)
  BY <1>1 DEF Counted
<1>7. /\ \A g \in Handles : Exists(g)' <=> Exists(g)
      /\ Live \subseteq Live' /\ Locking' = {}
  BY <1>1, <1>3 DEF Exists, Live, Locking
<1>8. RefsExact'
  <2>1. ASSUME NEW e \in Fds
        PROVE  kernel'[e] # None <=> \E g \in Handles : Exists(g)' /\ fd'[g] = e
    BY <1>1, <1>7 DEF CountInv, RefsExact
  <2>2. Cardinality(Counted(f)') = Cardinality(Counted(f)) + 1
    BY <1>6, CountedNow, FS_AddElement DEF CountedFinite
  <2>3. refs'[f] = Cardinality(Counted(f)')
    BY <1>4, <2>2 DEF CountInv, RefsExact
  <2>4. ASSUME NEW e \in Fds PROVE refs'[e] = Cardinality(Counted(e)')
    BY <1>4, <1>6, <2>3 DEF CountInv, RefsExact
  <2> QED
    BY <2>1, <2>4 DEF RefsExact
<1>9. OwnSocket' /\ LockKept'
  BY <1>1, <1>7 DEF CountInv, OwnSocket, LockKept
<1>10. CloneHeld'
  <2>1. \A g \in Handles : stage'[g] \in {"made", "counting"} => stage[g] \in {"made", "counting"}
    BY <1>1
  <2> QED
    BY <1>1, <1>7, <2>1 DEF CountInv, CloneHeld
<1>11. HandlesTyped'
  BY <1>1, <1>7, CountInvParts DEF HandlesTyped
<1> QED
  BY <1>5, <1>8, <1>9, <1>10, <1>11, CountInvPartsNext

(* The last counted handle of a number closes it, and nobody is about to   *)
(* count another one of it: a clone has a live handle beside it.           *)
LEMMA LastOne ==
  ASSUME CountInv, NEW h \in Handles, stage[h] = "uncounting", seen[h] = 1,
         NEW g \in Handles \ {h}, Exists(g)
  PROVE  fd[g] # fd[h]
<1>1. h \in Locking /\ fd[h] \in Fds /\ h \in Counted(fd[h])
  BY DEF CountInv, Exists, Locking, Counted
<1>2. Cardinality(Counted(fd[h])) = 1
  BY <1>1 DEF CountInv, LockKept, RefsExact
<1>3. Counted(fd[h]) = {h}
  BY <1>1, <1>2, CountedNow DEF CountedFinite
<1>4. ASSUME fd[g] = fd[h] PROVE FALSE
  <2>1. g \notin Counted(fd[h])
    BY <1>3
  <2>2. stage[g] \in {"made", "counting"}
    BY <1>4, <2>1 DEF CountInv, TypeOK, Exists, Counted
  <2>3. PICK e \in Live : fd[e] = fd[g]
    BY <1>4, <2>2 DEF CountInv, CloneHeld
  <2>4. e \in Counted(fd[h]) /\ e # h
    BY <1>4, <2>3 DEF Counted, Live
  <2> QED
    BY <1>3, <2>4
<1> QED
  BY <1>4

(* The last handle that goes closes the number.                            *)
LEMMA UncountInvariant ==
  ASSUME CountInv, NEW h \in Handles, Uncount(h)
  PROVE  CountInv'
<1>1. /\ stage[h] = "uncounting" /\ stage'[h] = "none"
      /\ fd'[h] = None /\ socket'[h] = None /\ owner'[h] = None
      /\ \A g \in Handles \ {h} : /\ fd'[g] = fd[g] /\ socket'[g] = socket[g]
                                  /\ owner'[g] = owner[g] /\ stage'[g] = stage[g]
      /\ UNCHANGED <<opened, seen>>
  BY DEF Uncount, Forget, CountInv, TypeOK
<1>2. fd[h] \in Fds /\ h \in Locking /\ h \in Counted(fd[h])
  BY <1>1 DEF CountInv, Exists, Locking, Counted
<1> PICK f \in Fds : fd[h] = f
  BY <1>2
<1>3. seen[h] = refs[f] /\ Locking = {h} /\ refs[f] \in Nat
  BY <1>2 DEF CountInv, LockKept, TypeOK
<1>4. refs[f] = Cardinality(Counted(f)) /\ refs[f] # 0
  <2>1. Cardinality(Counted(f)) # 0
    BY <1>2, CountedNow, FS_EmptySet DEF CountedFinite
  <2> QED
    BY <2>1 DEF CountInv, RefsExact
<1>5. /\ refs'[f] = refs[f] - 1 /\ refs' \in [Fds -> Nat]
      /\ \A e \in Fds \ {f} : refs'[e] = refs[e]
  BY <1>3, <1>4 DEF Uncount, CountInv, TypeOK
<1>6. /\ kernel'[f] = (IF seen[h] = 1 THEN None ELSE kernel[f])
      /\ \A e \in Fds \ {f} : kernel'[e] = kernel[e]
      /\ kernel' \in [Fds -> Sockets \cup {None}]
  BY DEF Uncount, CountInv, TypeOK
<1>7. TypeOK'
  BY <1>1, <1>5, <1>6 DEF Uncount, Forget, CountInv, TypeOK
<1>8. /\ Counted(f)' = Counted(f) \ {h}
      /\ \A e \in Fds \ {f} : Counted(e)' = Counted(e)
  BY <1>1, Constants DEF Counted
<1>9. /\ \A g \in Handles : Exists(g)' <=> g # h /\ Exists(g)
      /\ Live' = Live /\ Locking' = {}
  BY <1>1, <1>3 DEF Exists, Live, Locking
<1>10. RefsExact'
  <2>1. Cardinality(Counted(f)') = Cardinality(Counted(f)) - 1
    BY <1>2, <1>8, CountedNow, FS_RemoveElement DEF CountedFinite
  <2>2. refs'[f] = Cardinality(Counted(f)')
    BY <1>4, <1>5, <2>1
  <2>3. kernel'[f] # None <=> \E g \in Handles : Exists(g)' /\ fd'[g] = f
    <3>1. CASE seen[h] = 1
      <4>1. \A g \in Handles \ {h} : Exists(g) => fd[g] # fd[h]
        BY <1>1, <3>1, LastOne
      <4> QED
        BY <1>1, <1>6, <1>9, <3>1, <4>1
    <3>2. CASE seen[h] # 1
      <4>1. Cardinality(Counted(f)') # 0
        BY <1>3, <1>4, <2>1, <3>2
      <4>2. Counted(f)' # {}
        BY <4>1, FS_EmptySet
      <4>3. PICK g : g \in Counted(f) /\ g # h
        BY <1>8, <4>2
      <4>4. g \in Handles /\ Exists(g) /\ fd[g] = f
        BY <4>3 DEF Counted, Exists
      <4>5. kernel[f] # None
        BY <4>4 DEF CountInv, RefsExact
      <4> QED
        BY <1>1, <1>6, <1>9, <3>2, <4>3, <4>4, <4>5
    <3> QED
      BY <3>1, <3>2
  <2>4. ASSUME NEW e \in Fds \ {f}
        PROVE  /\ refs'[e] = Cardinality(Counted(e)')
               /\ kernel'[e] # None <=> \E g \in Handles : Exists(g)' /\ fd'[g] = e
    <3>1. (\E g \in Handles : Exists(g)' /\ fd'[g] = e) <=> \E g \in Handles : Exists(g) /\ fd[g] = e
      BY <1>1, <1>9, Constants
    <3> QED
      BY <1>5, <1>6, <1>8, <3>1 DEF CountInv, RefsExact
  <2> QED
    BY <2>2, <2>3, <2>4 DEF RefsExact
<1>11. OwnSocket'
  <2> SUFFICES ASSUME NEW g \in Handles, Exists(g)' PROVE kernel'[fd'[g]] = socket'[g]
    BY DEF OwnSocket
  <2>1. g # h /\ Exists(g) /\ fd[g] \in Fds /\ fd'[g] = fd[g] /\ socket'[g] = socket[g]
    BY <1>1, <1>9 DEF CountInv
  <2>2. kernel[fd[g]] = socket[g]
    BY <2>1 DEF CountInv, OwnSocket
  <2>3. CASE fd[g] = fd[h]
    <3>1. seen[h] # 1
      BY <1>1, <2>1, <2>3, LastOne
    <3> QED
      BY <1>6, <2>1, <2>2, <2>3, <3>1
  <2>4. CASE fd[g] # fd[h]
    BY <1>6, <2>1, <2>2, <2>4
  <2> QED
    BY <2>3, <2>4
<1>12. LockKept'
  BY <1>9 DEF LockKept
<1>13. CloneHeld'
  <2> SUFFICES ASSUME NEW g \in Handles, stage'[g] \in {"made", "counting"}
               PROVE  \/ \A e \in Handles \ {g} : fd'[e] # fd'[g]
                      \/ \E e \in Live' : fd'[e] = fd'[g] /\ owner'[e] = owner'[g]
    BY DEF CloneHeld
  <2>1. g # h /\ stage[g] \in {"made", "counting"} /\ fd'[g] = fd[g] /\ owner'[g] = owner[g]
    BY <1>1
  <2>2. fd[g] # None
    BY <2>1, Constants DEF CountInv, Exists
  <2>3. CASE \A e \in Handles \ {g} : fd[e] # fd[g]
    BY <1>1, <2>1, <2>2, <2>3
  <2>4. CASE \E e \in Live : fd[e] = fd[g] /\ owner[e] = owner[g]
    <3>1. PICK e \in Live : fd[e] = fd[g] /\ owner[e] = owner[g]
      BY <2>4
    <3>2. e \in Handles /\ e # h
      BY <1>1, <3>1 DEF Live
    <3> QED
      BY <1>1, <1>9, <2>1, <3>1, <3>2
  <2> QED
    BY <2>1, <2>3, <2>4 DEF CountInv, CloneHeld
<1>14. HandlesTyped'
  BY <1>1, <1>9, CountInvParts DEF HandlesTyped
<1> QED
  BY <1>7, <1>10, <1>11, <1>12, <1>13, <1>14, CountInvPartsNext
-----------------------------------------------------------------------------
(* Nothing changes when everything stays as it is.                         *)
LEMMA StutterInvariant == CountInv /\ UNCHANGED vars => CountInv'
<1> SUFFICES ASSUME CountInv, UNCHANGED vars PROVE CountInv'
  OBVIOUS
<1> USE DEF vars
<1>1. TypeOK'
  BY DEF CountInv, TypeOK
<1>2. RefsExact' /\ OwnSocket'
  BY DEF CountInv, RefsExact, OwnSocket, Counted, Exists
<1>3. LockKept' /\ CloneHeld'
  BY DEF CountInv, LockKept, CloneHeld, Locking, Live
<1>4. HandlesTyped'
  BY CountInvParts DEF HandlesTyped, Exists
<1> QED
  BY <1>1, <1>2, <1>3, <1>4, CountInvPartsNext

(* Every step keeps the invariant.                                         *)
LEMMA NextInvariant == CountInv /\ [Next]_vars => CountInv'
<1> SUFFICES ASSUME CountInv, [Next]_vars PROVE CountInv'
  OBVIOUS
<1>1. ASSUME NEW t \in Threads, Open(t) \/ Clone(t) \/ Destroy(t) PROVE CountInv'
  BY <1>1, OpenInvariant, CloneInvariant, DestroyInvariant
<1>2. ASSUME NEW t \in Threads, NEW u \in Threads, HandOver(t, u) PROVE CountInv'
  BY <1>2, HandOverInvariant
<1>3. ASSUME NEW h \in Handles, Lock(h) \/ Count(h) \/ Uncount(h) PROVE CountInv'
  BY <1>3, LockInvariant, CountInvariant, UncountInvariant
<1>4. ASSUME UNCHANGED vars PROVE CountInv'
  BY <1>4, StutterInvariant
<1> QED
  BY <1>1, <1>2, <1>3, <1>4 DEF Next, Over

(* The count of every number is that of its handles, whatever threads      *)
(* create, clone, move and destroy them: no descriptor leaks and none is   *)
(* closed twice (socket.hpp:115).                                          *)
THEOREM Invariant == Spec => []CountInv
BY InitInvariant, NextInvariant, PTL DEF Spec

(* No thread reads or writes the connection of another one: a number that  *)
(* was closed and given out again belongs to the new socket alone.         *)
THEOREM OwnSocketKept == Spec => []OwnSocket
<1>1. CountInv => OwnSocket
  BY DEF CountInv
<1> QED
  BY <1>1, Invariant, PTL
=============================================================================
