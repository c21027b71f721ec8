-------------------------- MODULE ServerPoolProofs --------------------------
(***************************************************************************)
(* The permits, the lists and the destructors of the server side, for any  *)
(* number of servers, threads and connections: PermitInv of ServerPool is  *)
(* inductive and implies the bounds.                                       *)
(***************************************************************************)
EXTENDS ServerPool, FiniteSetTheorems, TLAPS

(* The listeners that hold a permit, and the threads whose post was an     *)
(* extra one.                                                              *)
Accepting == {l \in Listeners : listener[l] = "accepting"}
Exited    == {w \in Workers : thread[w] = "exited"}

(* A part of a finite set has a number of elements, at most that of the    *)
(* whole.                                                                  *)
LEMMA PartOf ==
  ASSUME NEW S, IsFiniteSet(S), NEW P, P \subseteq S
  PROVE  IsFiniteSet(P) /\ Cardinality(P) \in Nat /\ Cardinality(P) <= Cardinality(S)
BY FS_Subset, FS_CardinalityType

(* Threads are finitely many, and the semaphore begins with a permit.      *)
LEMMA Constants ==
  /\ IsFiniteSet(Listeners) /\ IsFiniteSet(Workers) /\ IsFiniteSet(Conns)
  /\ Workers \cap Conns = {} /\ Nobody \notin Listeners
  /\ Limit \in Nat
BY ServerPoolAssumption

(* The sets that are counted are finite.                                   *)
CountsFinite ==
  /\ IsFiniteSet(Accepting) /\ Cardinality(Accepting) \in Nat
  /\ IsFiniteSet(Busy) /\ Cardinality(Busy) \in Nat
  /\ IsFiniteSet(Exited) /\ Cardinality(Exited) \in Nat
  /\ Permits \in Nat /\ Permits = Limit + Cardinality(Exited)
  /\ PermitsKept <=> permits + Cardinality(Accepting) + Cardinality(Busy) <= Permits
  /\ TypeOK => \A l \in Listeners : /\ IsFiniteSet(Survivors(l))
                                    /\ Cardinality(Survivors(l)) \in Nat

(* So the sets that are counted are finite ...                             *)
LEMMA CountsNow == CountsFinite
<1>1. Accepting \subseteq Listeners /\ Busy \subseteq Conns /\ Exited \subseteq Workers
  BY DEF Accepting, Busy, Exited
<1>2. Permits = Limit + Cardinality(Exited)
  BY DEF Permits, Exited
<1>3. PermitsKept <=> permits + Cardinality(Accepting) + Cardinality(Busy) <= Permits
  BY DEF PermitsKept, Accepting
<1>4. /\ IsFiniteSet(Accepting) /\ Cardinality(Accepting) \in Nat
      /\ IsFiniteSet(Busy) /\ Cardinality(Busy) \in Nat
      /\ IsFiniteSet(Exited) /\ Cardinality(Exited) \in Nat
  BY <1>1, Constants, PartOf
<1>5. ASSUME TypeOK, NEW l \in Listeners
      PROVE  IsFiniteSet(Survivors(l)) /\ Cardinality(Survivors(l)) \in Nat
  <2>1. Survivors(l) \subseteq Conns
    BY <1>5 DEF TypeOK, Survivors
  <2> QED
    BY <2>1, Constants, PartOf
<1> QED
  BY <1>2, <1>3, <1>4, <1>5, Constants DEF CountsFinite

(* ... after a step, too.                                                  *)
LEMMA CountsNext == CountsFinite'
BY CountsNow, PTL

(* Both together.                                                          *)
LEMMA Counts == CountsFinite /\ CountsFinite'
BY CountsNow, CountsNext

(* The bounds do not change when no permit, thread or list does.           *)
LEMMA SameCounts ==
  ASSUME UNCHANGED <<list, toVisit, thread>>
  PROVE  /\ Busy' = Busy /\ Exited' = Exited /\ Permits' = Permits
         /\ \A l \in Listeners : Survivors(l)' = Survivors(l)
BY DEF Busy, Exited, Permits, Survivors

(* At first all permits are in the semaphore and all lists are empty.      *)
LEMMA InitInvariant == Init => PermitInv
<1> SUFFICES ASSUME Init PROVE PermitInv
  OBVIOUS
<1>1. TypeOK
  BY Constants DEF Init, TypeOK, Responders
<1>2. Accepting = {} /\ Busy = {} /\ Exited = {}
  BY Constants DEF Init, Accepting, Busy, Exited, Responders
<1>3. PermitsKept
  BY <1>2, Counts, Constants, FS_EmptySet DEF CountsFinite, Init
<1>4. ListsOwn
  BY <1>2 DEF Init, ListsOwn
<1>5. \A l \in Listeners : Survivors(l) = {}
  BY DEF Init, Survivors
<1>6. ASSUME NEW l \in Listeners PROVE Cardinality(Survivors(l)) <= Permits
  <2>1. Cardinality(Survivors(l)) = 0
    BY <1>5, FS_EmptySet, Zenon
  <2>2. Permits \in Nat
    BY Counts DEF CountsFinite
  <2> QED
    BY <2>1, <2>2
<1>7. Joined
  BY DEF Init, Joined
<1> QED
  BY <1>1, <1>3, <1>4, <1>6, <1>7 DEF PermitInv
-----------------------------------------------------------------------------
(***************************************************************************)
(* The listener thread.                                                    *)
(***************************************************************************)

(* A listener that begins holds no permit.                                 *)
LEMMA ListenInvariant ==
  ASSUME PermitInv, NEW l \in Listeners, Listen(l)
  PROVE  PermitInv'
<1>1. TypeOK'
  BY DEF PermitInv, TypeOK, Listen
<1>2. Accepting' = Accepting
  BY DEF PermitInv, TypeOK, Listen, Accepting
<1>3. PermitsKept'
  BY <1>2, Counts, SameCounts DEF CountsFinite, PermitInv, Listen
<1>4. ListsOwn'
  BY DEF PermitInv, TypeOK, ListsOwn, Busy, Listen
<1>5. \A k \in Listeners : Cardinality(Survivors(k)') <= Permits'
  BY SameCounts DEF CountsFinite, PermitInv, Listen
<1>6. Joined'
  BY DEF PermitInv, TypeOK, Joined, Listen
<1> QED
  BY <1>1, <1>3, <1>4, <1>5, <1>6 DEF PermitInv

(* A permit goes from the semaphore to a listener.                         *)
LEMMA TakePermitInvariant ==
  ASSUME PermitInv, NEW l \in Listeners, TakePermit(l)
  PROVE  PermitInv'
<1>1. TypeOK'
  BY DEF PermitInv, TypeOK, TakePermit
<1>2. Accepting' = Accepting \cup {l} /\ l \notin Accepting
  BY DEF PermitInv, TypeOK, TakePermit, Accepting
<1>3. Cardinality(Accepting') = Cardinality(Accepting) + 1
  BY <1>2, Counts, FS_AddElement DEF CountsFinite
<1>4. PermitsKept'
  BY <1>3, Counts, SameCounts DEF CountsFinite, PermitInv, TypeOK, TakePermit
<1>5. ListsOwn'
  BY DEF PermitInv, TypeOK, ListsOwn, Busy, TakePermit
<1>6. \A k \in Listeners : Cardinality(Survivors(k)') <= Permits'
  BY SameCounts DEF CountsFinite, PermitInv, TakePermit
<1>7. Joined'
  BY DEF PermitInv, TypeOK, Joined, TakePermit
<1> QED
  BY <1>1, <1>4, <1>5, <1>6, <1>7 DEF PermitInv

(* The permit goes on to the thread of the connection.                     *)
LEMMA AcceptInvariant ==
  ASSUME PermitInv, NEW l \in Listeners, Accept(l)
  PROVE  PermitInv'
<1>1. PICK c \in Pending(l) :
        /\ thread'  = [thread EXCEPT ![c] = "running"]
        /\ list'    = [list EXCEPT ![l] = @ \cup {c}]
        /\ toVisit' = [toVisit EXCEPT ![l] = list'[l]]
  BY DEF Accept
<1>2. /\ listener[l] = "accepting" /\ listener' = [listener EXCEPT ![l] = "cleaning"]
      /\ UNCHANGED <<port, hungUp, permits, main>>
  BY DEF Accept
<1>3. c \in Conns /\ port[c] = l /\ thread[c] = "none" /\ c \notin Workers
  BY Constants DEF Pending
<1>4. /\ list'[l] = list[l] \cup {c} /\ toVisit'[l] = list'[l]
      /\ \A k \in Listeners \ {l} : list'[k] = list[k] /\ toVisit'[k] = toVisit[k]
  BY <1>1 DEF PermitInv, TypeOK
<1>5. /\ thread'[c] = "running"
      /\ \A r \in Responders \ {c} : thread'[r] = thread[r]
  BY <1>1, <1>3 DEF PermitInv, TypeOK, Responders
<1>6. TypeOK'
  BY <1>1, <1>2, <1>3 DEF PermitInv, TypeOK, Responders
<1>7. Accepting' = Accepting \ {l} /\ l \in Accepting
  BY <1>2 DEF PermitInv, TypeOK, Accepting
<1>8. Busy' = Busy \cup {c} /\ c \notin Busy
  BY <1>3, <1>5 DEF Busy, Responders
<1>9. Exited' = Exited
  BY <1>3, <1>5 DEF Exited, Responders
<1>10. PermitsKept'
  <2>1. Cardinality(Accepting') = Cardinality(Accepting) - 1
    BY <1>7, Counts, FS_RemoveElement DEF CountsFinite
  <2>2. Cardinality(Busy') = Cardinality(Busy) + 1
    BY <1>8, Counts, FS_AddElement DEF CountsFinite
  <2> QED
    BY <1>2, <1>9, <2>1, <2>2, Counts DEF CountsFinite, PermitInv, TypeOK
<1>11. ListsOwn'
  <2>1. \A k \in Listeners : \A d \in list'[k] : port'[d] = k /\ thread'[d] # "none"
    BY <1>2, <1>3, <1>4, <1>5 DEF PermitInv, TypeOK, ListsOwn, Responders
  <2>2. \A d \in Busy' : port'[d] \in Listeners /\ d \in list'[port'[d]]
    BY <1>2, <1>3, <1>4, <1>8 DEF PermitInv, TypeOK, ListsOwn
  <2>3. \A k \in Listeners : /\ toVisit'[k] \subseteq list'[k]
                             /\ listener'[k] # "cleaning" => toVisit'[k] = {}
    BY <1>2, <1>4 DEF PermitInv, TypeOK, ListsOwn
  <2> QED
    BY <2>1, <2>2, <2>3 DEF ListsOwn
<1>12. ASSUME NEW k \in Listeners PROVE Cardinality(Survivors(k)') <= Permits'
  <2>1. CASE k = l
    <3>1. Survivors(k)' \subseteq Busy'
      BY <1>4, <2>1 DEF Survivors
    <3>2. Cardinality(Survivors(k)') <= Cardinality(Busy')
      BY <3>1, Counts, PartOf DEF CountsFinite
    <3>3. Cardinality(Survivors(k)') \in Nat
      BY <1>6, Counts DEF CountsFinite
    <3> QED
      BY <1>6, <1>10, <3>2, <3>3, Counts DEF CountsFinite, TypeOK
  <2>2. CASE k # l
    <3>1. c \notin list[k]
      BY <1>3 DEF PermitInv, ListsOwn
    <3>2. Survivors(k)' = Survivors(k)
      BY <1>4, <1>8, <2>2, <3>1 DEF Survivors
    <3> QED
      BY <1>9, <3>2, Counts DEF CountsFinite, PermitInv
  <2> QED
    BY <2>1, <2>2
<1>13. Joined'
  <2>1. main # "over"
    BY <1>2 DEF PermitInv, Joined
  <2>2. \A w \in Workers : thread'[w] = thread[w]
    BY <1>3, <1>5 DEF Responders
  <2> QED
    BY <1>2, <2>1, <2>2 DEF PermitInv, Joined
<1> QED
  BY <1>6, <1>10, <1>11, <1>12, <1>13 DEF PermitInv

(* With its permit: fewer permits are left than there might be.            *)
LEMMA AcceptFailsInvariant ==
  ASSUME PermitInv, NEW l \in Listeners, AcceptFails(l)
  PROVE  PermitInv'
<1>1. TypeOK'
  BY DEF PermitInv, TypeOK, AcceptFails
<1>2. Accepting' = Accepting \ {l} /\ l \in Accepting
  BY DEF PermitInv, TypeOK, AcceptFails, Accepting
<1>3. Cardinality(Accepting') = Cardinality(Accepting) - 1
  BY <1>2, Counts, FS_RemoveElement DEF CountsFinite
<1>4. PermitsKept'
  BY <1>3, Counts, SameCounts DEF CountsFinite, PermitInv, TypeOK, AcceptFails
<1>5. ListsOwn'
  BY DEF PermitInv, TypeOK, ListsOwn, Busy, AcceptFails
<1>6. \A k \in Listeners : Cardinality(Survivors(k)') <= Permits'
  BY SameCounts DEF PermitInv, AcceptFails
<1>7. Joined'
  BY DEF PermitInv, TypeOK, Joined, AcceptFails
<1> QED
  BY <1>1, <1>4, <1>5, <1>6, <1>7 DEF PermitInv

(* A turn of the cleanup loop: what is kept ran before, what is removed has*)
(* exited, so no more survive.                                             *)
LEMMA VisitInvariant ==
  ASSUME PermitInv, NEW l \in Listeners, Visit(l)
  PROVE  PermitInv'
<1>1. PICK c \in toVisit[l] :
        /\ toVisit' = [toVisit EXCEPT ![l] = @ \ {c}]
        /\ Keep(l, c) \/ Remove(l, c)
  BY DEF Visit
<1>2. listener[l] = "cleaning" /\ UNCHANGED <<listener, thread, port, hungUp, permits, main>>
  BY DEF Visit
<1>3. c \in list[l] /\ c \in Conns
  BY <1>1 DEF PermitInv, TypeOK, ListsOwn
<1>4. TypeOK'
  BY <1>1, <1>2 DEF PermitInv, TypeOK, Keep, Remove
<1>5. Accepting' = Accepting /\ Busy' = Busy /\ Exited' = Exited
  BY <1>2 DEF Accepting, Busy, Exited
<1>6. PermitsKept'
  BY <1>2, <1>5, Counts DEF CountsFinite, PermitInv
<1>7. /\ list'[l] = list[l] \/ (list'[l] = list[l] \ {c} /\ c \notin Busy)
      /\ toVisit'[l] = toVisit[l] \ {c}
      /\ \A k \in Listeners \ {l} : list'[k] = list[k] /\ toVisit'[k] = toVisit[k]
  BY <1>1 DEF PermitInv, TypeOK, Keep, Remove, Busy
<1>8. ListsOwn'
  <2>1. \A k \in Listeners : \A d \in list'[k] : port'[d] = k /\ thread'[d] # "none"
    BY <1>2, <1>7 DEF PermitInv, ListsOwn
  <2>2. \A d \in Busy' : port'[d] \in Listeners /\ d \in list'[port'[d]]
    BY <1>2, <1>5, <1>7 DEF PermitInv, ListsOwn
  <2>3. \A k \in Listeners : /\ toVisit'[k] \subseteq list'[k]
                             /\ listener'[k] # "cleaning" => toVisit'[k] = {}
    BY <1>2, <1>7 DEF PermitInv, ListsOwn
  <2> QED
    BY <2>1, <2>2, <2>3 DEF ListsOwn
<1>9. ASSUME NEW k \in Listeners PROVE Cardinality(Survivors(k)') <= Permits'
  <2>1. Survivors(k)' \subseteq Survivors(k)
    <3>1. CASE k # l
      BY <1>5, <1>7, <3>1 DEF Survivors
    <3>2. CASE k = l /\ Keep(l, c)
      <4>1. c \in Busy /\ list'[l] = list[l]
        BY <1>3, <3>2 DEF Keep, Busy
      <4> QED
        BY <1>3, <1>5, <1>7, <3>2, <4>1 DEF Survivors
    <3>3. CASE k = l /\ Remove(l, c)
      <4>1. list'[l] = list[l] \ {c}
        BY <3>3 DEF Remove, PermitInv, TypeOK
      <4> QED
        BY <1>5, <1>7, <3>3, <4>1 DEF Survivors
    <3> QED
      BY <1>1, <3>1, <3>2, <3>3
  <2>2. Cardinality(Survivors(k)') <= Cardinality(Survivors(k))
    BY <2>1, Counts, PartOf DEF CountsFinite, PermitInv
  <2>3. /\ Cardinality(Survivors(k)) \in Nat /\ Cardinality(Survivors(k)') \in Nat
        /\ Permits \in Nat /\ Permits' = Permits
    BY <1>4, <1>5, Counts DEF CountsFinite, PermitInv
  <2> QED
    BY <2>2, <2>3 DEF PermitInv
<1>10. Joined'
  <2>1. ASSUME main = "over", NEW k \in Listeners PROVE listener[k] = "ended"
    BY <2>1 DEF PermitInv, Joined
  <2> QED
    BY <1>2, <2>1 DEF PermitInv, Joined
<1> QED
  BY <1>4, <1>6, <1>8, <1>9, <1>10 DEF PermitInv

(* The cleanup leaves at most as many threads as there are permits.        *)
LEMMA CleanedInvariant ==
  ASSUME PermitInv, NEW l \in Listeners, Cleaned(l)
  PROVE  PermitInv'
<1>1. TypeOK'
  BY DEF PermitInv, TypeOK, Cleaned
<1>2. Accepting' = Accepting
  BY DEF PermitInv, TypeOK, Cleaned, Accepting
<1>3. PermitsKept'
  BY <1>2, Counts, SameCounts DEF CountsFinite, PermitInv, Cleaned
<1>4. ListsOwn'
  BY DEF PermitInv, TypeOK, ListsOwn, Busy, Cleaned
<1>5. \A k \in Listeners : Cardinality(Survivors(k)') <= Permits'
  BY SameCounts DEF PermitInv, Cleaned
<1>6. Joined'
  BY DEF PermitInv, TypeOK, Joined, Cleaned
<1> QED
  BY <1>1, <1>3, <1>4, <1>5, <1>6 DEF PermitInv
-----------------------------------------------------------------------------
(***************************************************************************)
(* The responder threads.                                                  *)
(***************************************************************************)

(* A thread that has finished holds its permit until it posts.             *)
LEMMA FinishInvariant ==
  ASSUME PermitInv, NEW r \in Responders, Finish(r)
  PROVE  PermitInv'
<1>1. TypeOK'
  BY DEF PermitInv, TypeOK, Finish
<1>2. Accepting' = Accepting /\ Busy' = Busy /\ Exited' = Exited
  BY DEF PermitInv, TypeOK, Finish, Accepting, Busy, Exited, Responders
<1>3. PermitsKept'
  BY <1>2, Counts DEF CountsFinite, PermitInv, Finish
<1>4. ListsOwn'
  BY <1>2 DEF PermitInv, TypeOK, ListsOwn, Finish, Responders
<1>5. ASSUME NEW k \in Listeners PROVE Cardinality(Survivors(k)') <= Permits'
  <2>1. Survivors(k)' = Survivors(k)
    BY <1>2 DEF Survivors, Finish
  <2> QED
    BY <1>2, <2>1, Counts DEF CountsFinite, PermitInv
<1>6. Joined'
  BY DEF PermitInv, TypeOK, Joined, Finish, Responders
<1> QED
  BY <1>1, <1>3, <1>4, <1>5, <1>6 DEF PermitInv

(* A connection's thread gives its permit back; a stateless thread makes   *)
(* one more.                                                               *)
LEMMA PostInvariant ==
  ASSUME PermitInv, NEW r \in Responders, Post(r)
  PROVE  PermitInv'
<1>1. /\ thread[r] = "finished" /\ permits' = permits + 1
      /\ thread'[r] = "exited" /\ \A q \in Responders \ {r} : thread'[q] = thread[q]
      /\ UNCHANGED <<listener, list, toVisit, port, hungUp, main>>
  BY DEF PermitInv, TypeOK, Post
<1>2. TypeOK'
  BY DEF PermitInv, TypeOK, Post
<1>3. Accepting' = Accepting
  BY <1>1 DEF Accepting
<1>4. PermitsKept' /\ Busy' \subseteq Busy /\ Permits <= Permits'
  <2>1. CASE r \in Conns
    <3>1. Busy' = Busy \ {r} /\ r \in Busy
      BY <1>1, <2>1 DEF Busy, Responders
    <3>2. Exited' = Exited
      BY <1>1, <2>1, Constants DEF Exited, Responders
    <3>3. Cardinality(Busy') = Cardinality(Busy) - 1
      BY <3>1, Counts, FS_RemoveElement DEF CountsFinite
    <3>4. Permits' = Permits
      BY <3>2, Counts DEF CountsFinite
    <3>5. PermitsKept'
      BY <1>1, <1>3, <3>3, <3>4, Counts DEF CountsFinite, PermitInv, TypeOK
    <3> QED
      BY <3>1, <3>4, <3>5, Counts DEF CountsFinite
  <2>2. CASE r \in Workers
    <3>1. Busy' = Busy
      BY <1>1, <2>2, Constants DEF Busy, Responders
    <3>2. Exited' = Exited \cup {r} /\ r \notin Exited
      BY <1>1, <2>2 DEF Exited, Responders
    <3>3. Cardinality(Exited') = Cardinality(Exited) + 1
      BY <3>2, Counts, FS_AddElement DEF CountsFinite
    <3>4. Permits' = Permits + 1
      BY <3>3, Counts, Constants DEF CountsFinite
    <3>5. PermitsKept'
      BY <1>1, <1>3, <3>1, <3>4, Counts DEF CountsFinite, PermitInv, TypeOK
    <3> QED
      BY <3>1, <3>4, <3>5, Counts DEF CountsFinite
  <2> QED
    BY <2>1, <2>2 DEF Responders
<1>5. ListsOwn'
  BY <1>1, <1>4 DEF PermitInv, TypeOK, ListsOwn, Responders
<1>6. ASSUME NEW k \in Listeners PROVE Cardinality(Survivors(k)') <= Permits'
  <2>1. Survivors(k)' \subseteq Survivors(k)
    BY <1>1, <1>4 DEF Survivors
  <2>2. Cardinality(Survivors(k)') <= Cardinality(Survivors(k))
    BY <2>1, Counts, PartOf DEF CountsFinite, PermitInv
  <2>3. /\ Cardinality(Survivors(k)) \in Nat /\ Cardinality(Survivors(k)') \in Nat
        /\ Permits \in Nat /\ Permits' \in Nat
    BY <1>2, Counts DEF CountsFinite, PermitInv
  <2> QED
    BY <1>4, <2>2, <2>3 DEF PermitInv
<1>7. Joined'
  BY <1>1 DEF PermitInv, TypeOK, Joined, Responders
<1> QED
  BY <1>2, <1>4, <1>5, <1>6, <1>7 DEF PermitInv
-----------------------------------------------------------------------------
(***************************************************************************)
(* The clients, and the end of the process.                                *)
(***************************************************************************)

(* Only a connection nobody has asked for is queued: its thread is not     *)
(* there yet, so it is in no list.                                         *)
LEMMA ConnectInvariant ==
  ASSUME PermitInv, NEW c \in Conns, NEW l \in Listeners, Connect(c, l)
  PROVE  PermitInv'
<1>1. /\ port[c] = Nobody /\ port'[c] = l
      /\ \A d \in Conns \ {c} : port'[d] = port[d]
      /\ UNCHANGED <<listener, list, toVisit, thread, hungUp, permits, main>>
  BY DEF PermitInv, TypeOK, Connect
<1>2. TypeOK'
  BY DEF PermitInv, TypeOK, Connect
<1>3. Accepting' = Accepting
  BY <1>1 DEF Accepting
<1>4. PermitsKept'
  BY <1>1, <1>3, SameCounts, Counts DEF CountsFinite, PermitInv
<1>5. ListsOwn'
  <2>1. c \notin Busy /\ \A k \in Listeners : c \notin list[k]
    BY <1>1, Constants DEF PermitInv, ListsOwn
  <2>2. \A k \in Listeners : \A d \in list'[k] : port'[d] = k /\ thread'[d] # "none"
    BY <1>1, <2>1 DEF PermitInv, TypeOK, ListsOwn
  <2>3. \A d \in Busy' : port'[d] \in Listeners /\ d \in list'[port'[d]]
    BY <1>1, <2>1 DEF PermitInv, ListsOwn, Busy
  <2> QED
    BY <1>1, <2>2, <2>3 DEF PermitInv, ListsOwn
<1>6. \A k \in Listeners : Cardinality(Survivors(k)') <= Permits'
  BY <1>1, SameCounts DEF PermitInv
<1>7. Joined'
  BY <1>1 DEF PermitInv, Joined
<1> QED
  BY <1>2, <1>4, <1>5, <1>6, <1>7 DEF PermitInv

(* The steps that touch none of what the bounds and the lists speak of.    *)
LEMMA OtherInvariant ==
  ASSUME PermitInv, UNCHANGED <<listener, list, toVisit, thread, port, permits>>,
         TypeOK', Joined'
  PROVE  PermitInv'
<1>1. Accepting' = Accepting
  BY DEF Accepting
<1>2. PermitsKept'
  BY <1>1, SameCounts, Counts DEF CountsFinite, PermitInv
<1>3. ListsOwn'
  BY DEF PermitInv, ListsOwn, Busy
<1>4. \A k \in Listeners : Cardinality(Survivors(k)') <= Permits'
  BY SameCounts DEF PermitInv
<1> QED
  BY <1>2, <1>3, <1>4 DEF PermitInv

(* Every step keeps the invariant.                                         *)
LEMMA NextInvariant == PermitInv /\ [Next]_vars => PermitInv'
<1> SUFFICES ASSUME PermitInv, [Next]_vars PROVE PermitInv'
  OBVIOUS
<1>1. ASSUME NEW l \in Listeners, Listening(l) \/ AcceptFails(l) PROVE PermitInv'
  BY <1>1, ListenInvariant, TakePermitInvariant, AcceptInvariant, VisitInvariant,
     CleanedInvariant, AcceptFailsInvariant DEF Listening
<1>2. ASSUME NEW r \in Responders, Finish(r) \/ Post(r) PROVE PermitInv'
  BY <1>2, FinishInvariant, PostInvariant
<1>3. ASSUME NEW c \in Conns, HangUp(c) PROVE PermitInv'
  <2>1. TypeOK' /\ Joined'
    BY <1>3 DEF PermitInv, TypeOK, Joined, HangUp
  <2> QED
    BY <1>3, <2>1, OtherInvariant DEF HangUp
<1>4. ASSUME NEW c \in Conns, NEW l \in Listeners, Connect(c, l) PROVE PermitInv'
  BY <1>4, ConnectInvariant
<1>5. ASSUME JoinWorkers PROVE PermitInv'
  <2>1. TypeOK' /\ Joined'
    BY <1>5 DEF PermitInv, TypeOK, Joined, JoinWorkers
  <2> QED
    BY <1>5, <2>1, OtherInvariant DEF JoinWorkers
<1>6. ASSUME JoinServers PROVE PermitInv'
  <2>1. TypeOK' /\ Joined'
    BY <1>6 DEF PermitInv, TypeOK, Joined, JoinServers
  <2> QED
    BY <1>6, <2>1, OtherInvariant DEF JoinServers
<1>7. ASSUME UNCHANGED vars PROVE PermitInv'
  <2>1. TypeOK' /\ Joined'
    BY <1>7 DEF PermitInv, TypeOK, Joined, vars
  <2> QED
    BY <1>7, <2>1, OtherInvariant DEF vars
<1> QED
  BY <1>1, <1>2, <1>3, <1>4, <1>5, <1>6, <1>7 DEF Next, Main, Over

(* The types, permits, lists and destructors of the server side stay       *)
(* consistent, whatever servers, threads and connections there are.        *)
THEOREM Invariant == Spec => []PermitInv
BY InitInvariant, NextInvariant, PTL DEF Spec
-----------------------------------------------------------------------------
(* The semaphore bounds the threads: at no time do more responder threads  *)
(* for connections run than Limit and one for each stateless thread that   *)
(* has ended (serverstateful.cpp:55).                                      *)
THEOREM ThreadsBounded == Spec => []BusyBounded
<1>1. PermitInv => BusyBounded
  BY Counts DEF CountsFinite, PermitInv, TypeOK, BusyBounded
<1> QED
  BY <1>1, Invariant, PTL

(* A stateless thread that has ended stays so: there are never fewer       *)
(* permits than before.                                                    *)
LEMMA PermitsGrow == PermitInv /\ [Next]_vars => Permits <= Permits'
<1> SUFFICES ASSUME PermitInv, [Next]_vars PROVE Permits <= Permits'
  OBVIOUS
<1>1. ASSUME NEW w \in Workers, thread[w] = "exited" PROVE thread'[w] = "exited"
  <2>1. ASSUME NEW l \in Listeners, Listening(l) \/ AcceptFails(l) PROVE thread'[w] = "exited"
    <3>1. CASE Accept(l)
      BY <1>1, <3>1, Constants DEF PermitInv, TypeOK, Accept, Pending, Responders
    <3>2. CASE ~Accept(l)
      BY <1>1, <2>1, <3>2 DEF Listening, Listen, TakePermit, Visit, Cleaned, AcceptFails
    <3> QED
      BY <3>1, <3>2
  <2>2. ASSUME NEW r \in Responders, Finish(r) \/ Post(r) PROVE thread'[w] = "exited"
    BY <1>1, <2>2 DEF PermitInv, TypeOK, Responders, Finish, Post
  <2>3. ASSUME NEW c \in Conns, HangUp(c) \/ \E l \in Listeners : Connect(c, l)
        PROVE  thread'[w] = "exited"
    BY <1>1, <2>3 DEF HangUp, Connect
  <2>4. ASSUME Main \/ UNCHANGED vars PROVE thread'[w] = "exited"
    BY <1>1, <2>4 DEF Main, JoinWorkers, JoinServers, vars
  <2> QED
    BY <2>1, <2>2, <2>3, <2>4 DEF Next, Over
<1>2. Exited \subseteq Exited'
  BY <1>1 DEF Exited
<1>3. Cardinality(Exited) <= Cardinality(Exited')
  BY <1>2, Counts, PartOf DEF CountsFinite
<1> QED
  BY <1>3, Counts, Constants DEF CountsFinite

(* A list only grows, by one, at an accept.                                *)
LEMMA ListGrows ==
  ASSUME PermitInv, [Next]_vars, NEW k \in Listeners, listener'[k] = "cleaning"
  PROVE  \/ listener[k] = "cleaning" /\ list'[k] \subseteq list[k]
         \/ listener[k] # "cleaning" /\ \E c : list'[k] = list[k] \cup {c}
<1> DEFINE Goal == \/ listener[k] = "cleaning" /\ list'[k] \subseteq list[k]
                   \/ listener[k] # "cleaning" /\ \E c : list'[k] = list[k] \cup {c}
<1> SUFFICES Goal
  OBVIOUS
<1>1. ASSUME NEW l \in Listeners, Accept(l) PROVE Goal
  <2>1. CASE k = l
    <3>1. listener[k] # "cleaning" /\ \E c : list'[k] = list[k] \cup {c}
      BY <1>1, <2>1 DEF PermitInv, TypeOK, Accept
    <3> QED
      BY <3>1
  <2>2. CASE k # l
    <3>1. listener[k] = listener'[k] /\ list'[k] = list[k]
      BY <1>1, <2>2 DEF PermitInv, TypeOK, Accept
    <3> QED
      BY <3>1
  <2> QED
    BY <2>1, <2>2
<1>2. ASSUME NEW l \in Listeners, Visit(l) PROVE Goal
  <2>1. listener' = listener /\ list'[k] \subseteq list[k]
    BY <1>2 DEF PermitInv, TypeOK, Visit, Keep, Remove
  <2> QED
    BY <2>1
<1>3. ASSUME NEW l \in Listeners, Listen(l) \/ TakePermit(l) \/ Cleaned(l) \/ AcceptFails(l)
      PROVE  Goal
  <2>1. listener'[k] = listener[k] /\ list' = list
    BY <1>3 DEF PermitInv, TypeOK, Listen, TakePermit, Cleaned, AcceptFails
  <2> QED
    BY <2>1
<1>4. ASSUME UNCHANGED <<listener, list>> PROVE Goal
  BY <1>4
<1>5. ASSUME NEW l \in Listeners, Listening(l) \/ AcceptFails(l) PROVE Goal
  BY <1>1, <1>2, <1>3, <1>5 DEF Listening
<1>6. ASSUME NEW r \in Responders, Finish(r) \/ Post(r) PROVE Goal
  BY <1>4, <1>6 DEF Finish, Post
<1>7. ASSUME NEW c \in Conns, HangUp(c) \/ \E l \in Listeners : Connect(c, l) PROVE Goal
  BY <1>4, <1>7 DEF HangUp, Connect
<1>8. ASSUME Main \/ UNCHANGED vars PROVE Goal
  BY <1>4, <1>8 DEF Main, JoinWorkers, JoinServers, vars
<1> HIDE DEF Goal
<1> QED
  BY <1>5, <1>6, <1>7, <1>8 DEF Next, Over

(* A list grows by one only when a thread begins, and then it is cleaned   *)
(* up.                                                                     *)
LEMMA ListBoundedStep == PermitInv /\ PermitInv' /\ ListBounded /\ [Next]_vars => ListBounded'
<1> SUFFICES ASSUME PermitInv, PermitInv', ListBounded, [Next]_vars, NEW k \in Listeners
             PROVE  Cardinality(list'[k])
                      <= Permits' + (IF listener'[k] = "cleaning" THEN 1 ELSE 0)
  BY DEF ListBounded
<1>1. Permits \in Nat /\ Permits' \in Nat /\ Permits <= Permits'
  BY PermitsGrow, Counts DEF CountsFinite
<1>2. IsFiniteSet(list[k]) /\ IsFiniteSet(list'[k]) /\ Cardinality(list[k]) \in Nat
  BY Constants, PartOf DEF PermitInv, TypeOK
<1>3. CASE listener'[k] # "cleaning"
  <2>1. list'[k] = Survivors(k)'
    BY <1>3 DEF PermitInv, ListsOwn, Survivors
  <2>2. Cardinality(list'[k]) <= Permits'
    BY <2>1 DEF PermitInv
  <2> QED
    BY <1>1, <1>3, <2>2
<1>4. CASE listener'[k] = "cleaning" /\ listener[k] = "cleaning"
  <2>1. list'[k] \subseteq list[k]
    BY <1>4, ListGrows
  <2>2. Cardinality(list'[k]) <= Cardinality(list[k]) /\ Cardinality(list'[k]) \in Nat
    BY <1>2, <2>1, PartOf
  <2>3. Cardinality(list[k]) <= Permits + 1
    BY <1>4 DEF ListBounded
  <2> QED
    BY <1>1, <1>2, <1>4, <2>2, <2>3
<1>5. CASE listener'[k] = "cleaning" /\ listener[k] # "cleaning"
  <2>1. PICK c : list'[k] = list[k] \cup {c}
    BY <1>5, ListGrows
  <2>2. Cardinality(list'[k]) \in {Cardinality(list[k]), Cardinality(list[k]) + 1}
    BY <1>2, <2>1, FS_AddElement
  <2>3. Cardinality(list[k]) <= Permits
    BY <1>1, <1>5 DEF ListBounded
  <2> QED
    BY <1>1, <1>2, <1>5, <2>2, <2>3
<1> QED
  BY <1>3, <1>4, <1>5

(* A server's list of threads does not grow with its connections, though   *)
(* it is only cleaned up when the next one is accepted: the cleanup leaves *)
(* those that still hold a permit (serverstateful.cpp:67).                 *)
THEOREM ListsBounded == Spec => []ListBounded
<1>1. Init => ListBounded
  <2> SUFFICES ASSUME Init, NEW l \in Listeners
               PROVE  Cardinality(list[l])
                        <= Permits + (IF listener[l] = "cleaning" THEN 1 ELSE 0)
    BY DEF ListBounded
  <2>1. Cardinality(list[l]) = 0 /\ listener[l] = "starting"
    BY FS_EmptySet DEF Init
  <2> QED
    BY <2>1, Counts DEF CountsFinite
<1> QED
  BY <1>1, ListBoundedStep, Invariant, PTL DEF Spec

(* No responder thread is lost: one that may still run is in the list of   *)
(* exactly one server, whose destructor joins it (serverstateful.cpp:34).  *)
THEOREM ThreadsKept == Spec => []NoThreadLost
<1>1. ASSUME PermitInv PROVE NoThreadLost
  <2> SUFFICES ASSUME NEW c \in Busy
               PROVE  \E l \in Listeners : /\ c \in list[l]
                                           /\ \A k \in Listeners \ {l} : c \notin list[k]
    BY DEF NoThreadLost
  <2>1. port[c] \in Listeners /\ c \in list[port[c]]
    BY <1>1 DEF PermitInv, ListsOwn
  <2>2. \A k \in Listeners \ {port[c]} : c \notin list[k]
    BY <1>1 DEF PermitInv, ListsOwn
  <2> QED
    BY <2>1, <2>2
<1> QED
  BY <1>1, Invariant, PTL

(* No thread posts to the semaphore when it is destroyed: the destructors  *)
(* of both kinds of servers have waited for all of them.                   *)
THEOREM SemaphoreKept == Spec => []SemaphoreOutlives
<1>1. ASSUME PermitInv, main = "over", NEW r \in Responders PROVE thread[r] \in {"none", "exited"}
  <2>1. CASE r \in Workers
    BY <1>1, <2>1 DEF PermitInv, Joined
  <2>2. CASE r \in Conns
    <3>1. r \notin Busy
      BY <1>1 DEF PermitInv, ListsOwn, Joined, Busy
    <3> QED
      BY <1>1, <2>2, <3>1 DEF PermitInv, TypeOK, Busy
  <2> QED
    BY <2>1, <2>2 DEF Responders
<1>2. PermitInv => SemaphoreOutlives
  BY <1>1 DEF SemaphoreOutlives
<1> QED
  BY <1>2, Invariant, PTL
=============================================================================
