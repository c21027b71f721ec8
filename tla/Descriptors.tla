---------------------------- MODULE Descriptors ----------------------------
(***************************************************************************)
(* The life of a socket's descriptor.  A cSocket owns a cHandle; cHandles  *)
(* of one descriptor are counted, by its number, in m_fdRefs under m_lock, *)
(* and the last one closes it.  Client threads open sockets of their own,  *)
(* a listener gives each accepted one away to a responder thread, and the  *)
(* constructor of the stateless server gives clones of one socket to many. *)
(* The kernel hands out a number again as soon as it is closed.            *)
(*                                                                         *)
(* A handle of the model is one value on its way: a move leaves the source *)
(* with -1, which counts for nothing, and the target with the value.       *)
(***************************************************************************)
EXTENDS Integers, FiniteSets

CONSTANTS
  Threads,    (* threads; the name of one that has ended is used again     *)
  Fds,        (* numbers of descriptors                                    *)
  Handles,    (* cHandle objects that can exist at a time                  *)
  Sockets,    (* the sockets the kernel ever creates                       *)
  None        (* no socket, no thread, no handle                           *)

ASSUME DescriptorsAssumption ==
  /\ IsFiniteSet(Handles)
  /\ None \notin Threads \cup Handles \cup Sockets \cup Fds

VARIABLES
  kernel,     (* the socket each number denotes                            *)
  opened,     (* the sockets there have been                               *)
  refs,       (* m_fdRefs                                                  *)
  fd,         (* m_handle of each handle                                   *)
  socket,     (* the socket it was made for                                *)
  owner,      (* the thread whose object it is                             *)
  stage,      (* where it is in its constructor, its life, its destructor  *)
  seen        (* the count a handle has read and is about to write         *)

vars == <<kernel, opened, refs, fd, socket, owner, stage, seen>>

Live == {h \in Handles : stage[h] = "live"}

(* The handle in whose con- or destructor m_lock is held.                  *)
Locking == {h \in Handles : stage[h] \in {"counting", "uncounting"}}

(* A thread is in no con- or destructor of a handle.                       *)
Idle(t) == \A h \in Handles : owner[h] = t => stage[h] = "live"

(* m_handle (handle): the object has its number, which is not counted yet. *)
Make(h, t, f, s) ==
  /\ stage[h] = "none"
  /\ fd'     = [fd EXCEPT ![h] = f]
  /\ socket' = [socket EXCEPT ![h] = s]
  /\ owner'  = [owner EXCEPT ![h] = t]
  /\ stage'  = [stage EXCEPT ![h] = "made"]

(* The object is gone.                                                     *)
Forget(h) ==
  /\ fd'     = [fd EXCEPT ![h] = None]
  /\ socket' = [socket EXCEPT ![h] = None]
  /\ owner'  = [owner EXCEPT ![h] = None]
  /\ stage'  = [stage EXCEPT ![h] = "none"]
-----------------------------------------------------------------------------
(* socket or accept gives a thread the number of a new socket.             *)
Open(t) ==
  /\ Idle(t)
  /\ \E f \in Fds, s \in Sockets \ opened, h \in Handles :
       /\ kernel[f] = None
       /\ kernel' = [kernel EXCEPT ![f] = s]
       /\ opened' = opened \cup {s}
       /\ Make(h, t, f, s)
  /\ UNCHANGED <<refs, seen>>

(* cSocket::clone makes a second handle of a number.                       *)
Clone(t) ==
  /\ Idle(t)
  /\ \E g \in Live, h \in Handles :
       /\ owner[g] = t
       /\ Make(h, t, fd[g], socket[g])
  /\ UNCHANGED <<kernel, opened, refs, seen>>

(* Mutation: the source of a move keeps its number.                        *)
HandOverCopies(t, u) ==
  /\ Idle(t)
  /\ \A h \in Handles : owner[h] # u
  /\ \E g \in Live, h \in Handles :
       /\ owner[g] = t /\ stage[h] = "none"
       /\ fd'     = [fd EXCEPT ![h] = fd[g]]
       /\ socket' = [socket EXCEPT ![h] = socket[g]]
       /\ owner'  = [owner EXCEPT ![h] = u]
       /\ stage'  = [stage EXCEPT ![h] = "live"]
  /\ UNCHANGED <<kernel, opened, refs, seen>>

(* A socket is moved, through the parameters of cResponderThread and of    *)
(* its std::thread, into the thread it is for.                             *)
HandOver(t, u) ==
  /\ Idle(t)
  /\ \A h \in Handles : owner[h] # u
  /\ \E h \in Live : owner[h] = t /\ owner' = [owner EXCEPT ![h] = u]
  /\ UNCHANGED <<kernel, opened, refs, fd, socket, stage, seen>>

(* The destructor of a handle begins: connect failed, the jobs are over,   *)
(* an exception unwinds, or the listener has given its clones away.        *)
Destroy(t) ==
  /\ Idle(t)
  /\ \E h \in Live : owner[h] = t /\ stage' = [stage EXCEPT ![h] = "dying"]
  /\ UNCHANGED <<kernel, opened, refs, fd, socket, owner, seen>>
-----------------------------------------------------------------------------
(* Mutation: m_lock is not taken.                                          *)
LockUnguarded(h) ==
  /\ stage[h] \in {"made", "dying"}
  /\ stage' = [stage EXCEPT ![h] = IF @ = "made" THEN "counting" ELSE "uncounting"]
  /\ seen'  = [seen EXCEPT ![h] = refs[fd[h]]]
  /\ UNCHANGED <<kernel, opened, refs, fd, socket, owner>>

(* m_lock.lock, and the read of the count.                                 *)
Lock(h) ==
  /\ stage[h] \in {"made", "dying"}
  /\ Locking = {}
  /\ stage' = [stage EXCEPT ![h] = IF @ = "made" THEN "counting" ELSE "uncounting"]
  /\ seen'  = [seen EXCEPT ![h] = refs[fd[h]]]
  /\ UNCHANGED <<kernel, opened, refs, fd, socket, owner>>

(* ++m_fdRefs and unlock.                                                  *)
Count(h) ==
  /\ stage[h] = "counting"
  /\ refs'  = [refs EXCEPT ![fd[h]] = seen[h] + 1]
  /\ stage' = [stage EXCEPT ![h] = "live"]
  /\ UNCHANGED <<kernel, opened, fd, socket, owner, seen>>

(* --m_fdRefs, close when nothing is left, and unlock.                     *)
Uncount(h) ==
  /\ stage[h] = "uncounting"
  /\ refs'   = [refs EXCEPT ![fd[h]] = seen[h] - 1]
  /\ kernel' = IF seen[h] = 1 THEN [kernel EXCEPT ![fd[h]] = None] ELSE kernel
  /\ Forget(h)
  /\ UNCHANGED <<opened, seen>>

(* All sockets have been there and nobody is left.                         *)
Over ==
  /\ opened = Sockets
  /\ \A h \in Handles : stage[h] = "none"
  /\ UNCHANGED vars
-----------------------------------------------------------------------------
Init ==
  /\ kernel = [f \in Fds |-> None]
  /\ opened = {}
  /\ refs   = [f \in Fds |-> 0]
  /\ fd     = [h \in Handles |-> None]
  /\ socket = [h \in Handles |-> None]
  /\ owner  = [h \in Handles |-> None]
  /\ stage  = [h \in Handles |-> "none"]
  /\ seen   = [h \in Handles |-> 0]

Next ==
  \/ \E t \in Threads : Open(t) \/ Clone(t) \/ Destroy(t) \/ \E u \in Threads : HandOver(t, u)
  \/ \E h \in Handles : Lock(h) \/ Count(h) \/ Uncount(h)
  \/ Over

Spec == Init /\ [][Next]_vars
-----------------------------------------------------------------------------
(***************************************************************************)
(* Properties.                                                             *)
(***************************************************************************)

TypeOK ==
  /\ kernel \in [Fds -> Sockets \cup {None}] /\ opened \subseteq Sockets
  /\ refs \in [Fds -> Nat] /\ seen \in [Handles -> Nat]
  /\ fd \in [Handles -> Fds \cup {None}]
  /\ socket \in [Handles -> Sockets \cup {None}]
  /\ owner \in [Handles -> Threads \cup {None}]
  /\ stage \in [Handles -> {"none", "made", "counting", "live", "dying", "uncounting"}]

Exists(h) == stage[h] # "none"

(* The handles that m_fdRefs counts for a number.                          *)
Counted(f) == {h \in Handles : stage[h] \in {"live", "dying", "uncounting"} /\ fd[h] = f}

(* The count of every number is the number of its handles, while threads   *)
(* create, clone, move and destroy them, and a number is open exactly as   *)
(* long as there is a handle of it: none leaks, none is closed twice.      *)
RefsExact ==
  \A f \in Fds :
    /\ refs[f] = Cardinality(Counted(f))
    /\ kernel[f] # None <=> \E h \in Handles : Exists(h) /\ fd[h] = f

(* A thread's descriptor denotes the socket the thread was given: it never *)
(* reads the bytes of another connection, though numbers are used again    *)
(* the moment they are closed.                                             *)
OwnSocket == \A h \in Handles : Exists(h) => kernel[fd[h]] = socket[h]

(* What a handle has read under m_lock is still the count.                 *)
LockKept ==
  \A h \in Locking : seen[h] = refs[fd[h]] /\ Locking = {h}

(* A handle that is not counted yet is the only one of its number, or the  *)
(* clone of one its thread holds on to: no other can close the number.     *)
CloneHeld ==
  \A h \in Handles :
    stage[h] \in {"made", "counting"} =>
      \/ \A g \in Handles \ {h} : fd[g] # fd[h]
      \/ \E g \in Live : fd[g] = fd[h] /\ owner[g] = owner[h]

(* The inductive invariant: types, counts, and who holds the lock.         *)
CountInv ==
  /\ TypeOK
  /\ RefsExact
  /\ OwnSocket
  /\ LockKept
  /\ CloneHeld
  /\ \A h \in Handles :
       IF Exists(h) THEN fd[h] \in Fds /\ socket[h] \in opened /\ owner[h] \in Threads
                    ELSE fd[h] = None /\ socket[h] = None /\ owner[h] = None
=============================================================================
