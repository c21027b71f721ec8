------------------------- MODULE ReceiveCallProofs --------------------------
(***************************************************************************)
(* cSocket::recv keeps the promise cBabblerProtocol::receive relies on, for*)
(* every length and minimum it is called with: ReceiveCall implements      *)
(* ReceiveContract, step by step.                                          *)
(***************************************************************************)
EXTENDS ReceiveCall, TLAPS

(* What a call asks for: at most as much as fits into the buffer.          *)
LEMMA CallType ==
  ASSUME NEW c \in Calls
  PROVE  /\ c.len \in Nat /\ c.len > 0 /\ c.atleast \in Nat /\ c.atleast <= c.len
BY ReceiveCallAssumption

(* At first nothing has come.                                              *)
LEMMA InitInvariant == Init => CallInv
<1> SUFFICES ASSUME Init PROVE CallInv
  OBVIOUS
<1>1. call.len \in Nat
  BY CallType DEF Init
<1>2. TypeOK
  BY DEF Init, TypeOK
<1>3. /\ taken <= arrived /\ delivered <= taken /\ taken = delivered + received
      /\ received <= call.len
  BY <1>1 DEF Init
<1> QED
  BY <1>2, <1>3 DEF Init, CallInv, InCall

(* The end of a turn in which the call has n bytes, all of them taken.     *)
LEMMA GoOnInvariant ==
  ASSUME CallInv, pc = "turn", NEW n \in Nat, n <= call.len, GoOn(n),
         taken' = delivered + n, taken' \in Nat, taken' <= arrived, again' \in BOOLEAN,
         revents' = {}, UNCHANGED <<call, envVars>>
  PROVE  CallInv'
<1>1. /\ call.len \in Nat /\ call.atleast \in Nat /\ delivered \in Nat
      /\ UNCHANGED <<call, arrived, eof, broken, cancel>>
  BY CallType DEF CallInv, TypeOK, envVars
<1>2. CASE "event" \in revents
  <2>1. pc' = "over" /\ received' = 0 /\ delivered' = delivered
    BY <1>2 DEF GoOn
  <2>2. TypeOK'
    BY <1>1, <2>1 DEF CallInv, TypeOK
  <2>3. delivered' <= taken'
    BY <1>1, <2>1
  <2> QED
    BY <1>1, <2>1, <2>2, <2>3 DEF CallInv, InCall
<1>3. CASE "event" \notin revents /\ n < call.atleast
  <2>1. pc' = "poll" /\ received' = n /\ delivered' = delivered
    BY <1>3 DEF GoOn
  <2>2. TypeOK'
    BY <1>1, <2>1 DEF CallInv, TypeOK
  <2> QED
    BY <1>1, <1>3, <2>1, <2>2 DEF CallInv, InCall
<1>4. CASE "event" \notin revents /\ ~(n < call.atleast)
  <2>1. pc' = "idle" /\ received' = 0 /\ delivered' = delivered + n
    BY <1>4 DEF GoOn
  <2>2. TypeOK'
    BY <1>1, <2>1 DEF CallInv, TypeOK
  <2>3. taken' = delivered' + received'
    BY <1>1, <2>1
  <2> QED
    BY <1>1, <2>1, <2>2, <2>3 DEF CallInv, InCall
<1> QED
  BY <1>2, <1>3, <1>4

(* An exception ends the thread: what the call had stored counts no more.  *)
LEMMA ThrowInvariant ==
  ASSUME CallInv, pc = "turn", Throw, revents' = {}, UNCHANGED <<call, envVars>>
  PROVE  CallInv'
<1>1. /\ pc' = "over" /\ received' = 0 /\ UNCHANGED <<taken, again, delivered>>
      /\ UNCHANGED <<call, arrived, eof, broken, cancel>>
  BY DEF Throw, envVars
<1>2. TypeOK'
  BY <1>1 DEF CallInv, TypeOK
<1>3. delivered' <= taken'
  BY <1>1 DEF CallInv, TypeOK
<1>4. call.len \in Nat
  BY CallType DEF CallInv, TypeOK
<1> QED
  BY <1>1, <1>2, <1>3, <1>4 DEF CallInv, InCall

(* What a turn that takes bytes makes of them: they fit, and are no more   *)
(* than have arrived.                                                      *)
LEMMA TakeExact ==
  ASSUME CallInv, pc = "turn", Take
  PROVE  \E n \in Nat : /\ received < n /\ n <= call.len /\ GoOn(n)
                        /\ taken' = delivered + n /\ taken' \in Nat /\ taken' <= arrived
<1>1. PICK m \in 1 .. Lesser(call.len - received, Unread) :
        taken' = taken + m /\ GoOn(received + m)
  BY DEF Take
<1>2. /\ call.len \in Nat /\ received \in Nat /\ taken \in Nat /\ arrived \in Nat
      /\ delivered \in Nat /\ taken <= arrived /\ received <= call.len
      /\ taken = delivered + received
  BY CallType DEF CallInv, TypeOK
<1>3. m \in Nat /\ m > 0 /\ m <= call.len - received /\ m <= arrived - taken
  <2>1. Unread \in Int /\ call.len - received \in Int
    BY <1>2 DEF Unread
  <2>2. /\ Lesser(call.len - received, Unread) \in Int
        /\ Lesser(call.len - received, Unread) <= call.len - received
        /\ Lesser(call.len - received, Unread) <= Unread
    BY <2>1 DEF Lesser
  <2> QED
    BY <1>2, <2>1, <2>2 DEF Unread
<1>4. received + m \in Nat /\ received < received + m /\ received + m <= call.len
  BY <1>2, <1>3
<1>5. taken' = delivered + (received + m) /\ taken' \in Nat /\ taken' <= arrived
  BY <1>1, <1>2, <1>3
<1> QED
  BY <1>1, <1>4, <1>5

(* What the rest of a turn can be: the call goes on or returns with all    *)
(* that was taken, or it throws: at a reset, or at the end of the stream   *)
(* with nothing left unread.                                               *)
TurnGoesOn ==
  \E n \in Nat : /\ n <= call.len /\ GoOn(n)
                 /\ taken' = delivered + n /\ taken' \in Nat /\ taken' <= arrived
TurnThrows == Throw /\ (broken \/ (eof /\ Unread = 0))

(* What one turn of the loop can do.                                       *)
LEMMA TurnCases ==
  ASSUME CallInv, Turn
  PROVE  /\ pc = "turn" /\ revents' = {} /\ UNCHANGED <<call, envVars>>
         /\ again' \in BOOLEAN
         /\ TurnGoesOn \/ TurnThrows
<1> DEFINE Same == GoOn(received) /\ UNCHANGED taken
<1>1. pc = "turn" /\ revents' = {} /\ UNCHANGED <<call, envVars>>
  BY DEF Turn
<1>2. again \in BOOLEAN
  BY DEF CallInv, TypeOK
<1>3. ASSUME Same PROVE TurnGoesOn
  <2>1. /\ received \in Nat /\ received <= call.len /\ taken = delivered + received
        /\ taken \in Nat /\ taken <= arrived
    BY <1>1 DEF CallInv, TypeOK
  <2> QED
    BY <1>3, <2>1 DEF TurnGoesOn
<1>4. CASE "err" \in revents /\ Throw
  <2>1. broken
    BY <1>4 DEF CallInv
  <2> QED
    BY <1>1, <1>2, <1>4, <2>1 DEF TurnThrows, Throw
<1>5. CASE Take
  <2>1. TurnGoesOn
    BY <1>1, <1>5, TakeExact DEF TurnGoesOn
  <2> QED
    BY <1>1, <1>2, <1>5, <2>1 DEF Take
<1>6. CASE WouldBlock
  BY <1>1, <1>3, <1>6 DEF WouldBlock
<1>7. CASE AtEnd
  BY <1>1, <1>2, <1>3, <1>7 DEF AtEnd, TurnThrows, Throw
<1>8. CASE broken /\ Throw
  BY <1>1, <1>2, <1>8 DEF TurnThrows, Throw
<1>9. CASE GoOn(received) /\ UNCHANGED <<taken, again>>
  BY <1>1, <1>2, <1>3, <1>9
<1> QED
  BY <1>4, <1>5, <1>6, <1>7, <1>8, <1>9 DEF Turn

(* Every step keeps the invariant.                                         *)
LEMMA NextInvariant == CallInv /\ [Next]_vars => CallInv'
<1> SUFFICES ASSUME CallInv, [Next]_vars PROVE CallInv'
  OBVIOUS
<1>1. CASE Enter
  <2>1. /\ call' \in Calls /\ pc = "idle" /\ pc' = "poll"
        /\ UNCHANGED <<received, taken, revents, again, delivered, arrived, eof, broken, cancel>>
    BY <1>1 DEF Enter, envVars
  <2>2. call'.len \in Nat
    BY <2>1, CallType
  <2>3. received = 0
    BY <2>1 DEF CallInv, InCall
  <2>4. TypeOK'
    BY <2>1 DEF CallInv, TypeOK
  <2> QED
    BY <2>1, <2>2, <2>3, <2>4 DEF CallInv, InCall
<1>2. CASE Poll
  <2>1. /\ pc = "poll" /\ pc' = "turn" /\ revents' # {} /\ revents' \subseteq {"in", "err", "event"}
        /\ "err" \in revents' => broken
        /\ "event" \in revents' => cancel
        /\ UNCHANGED <<call, received, taken, again, delivered, arrived, eof, broken, cancel>>
    BY <1>2 DEF Poll, envVars
  <2>2. TypeOK'
    BY <2>1 DEF CallInv, TypeOK
  <2> QED
    BY <2>1, <2>2 DEF CallInv, InCall
<1>3. CASE Turn
  <2>1. CASE TurnGoesOn
    BY <1>3, <2>1, TurnCases, GoOnInvariant DEF TurnGoesOn
  <2>2. CASE TurnThrows
    BY <1>3, <2>2, TurnCases, ThrowInvariant DEF TurnThrows
  <2> QED
    BY <1>3, <2>1, <2>2, TurnCases
<1>4. CASE Arrive
  <2>1. TypeOK' /\ taken' <= arrived'
    BY <1>4 DEF CallInv, TypeOK, Arrive, callVars
  <2> QED
    BY <1>4, <2>1 DEF CallInv, InCall, Arrive, callVars
<1>5. CASE Close \/ Break \/ Cancel
  <2>1. TypeOK'
    BY <1>5 DEF CallInv, TypeOK, Close, Break, Cancel, callVars
  <2> QED
    BY <1>5, <2>1 DEF CallInv, InCall, Close, Break, Cancel, callVars
<1>6. CASE UNCHANGED vars
  <2>1. TypeOK'
    BY <1>6 DEF CallInv, TypeOK, vars, envVars
  <2> QED
    BY <1>6, <2>1 DEF CallInv, InCall, vars, envVars
<1> QED
  BY <1>1, <1>2, <1>3, <1>4, <1>5, <1>6 DEF Next, Over

(* recv never writes behind its buffer and accounts for every byte it took,*)
(* whatever it was asked for (socket.cpp:215).                             *)
THEOREM Invariant == Spec => []CallInv
BY InitInvariant, NextInvariant, PTL DEF Spec
-----------------------------------------------------------------------------
(***************************************************************************)
(* The refinement: a turn is a step of the contract when the call ends in  *)
(* it, and stutters otherwise.                                             *)
(***************************************************************************)

(* A first state of recv is one of the contract ...                        *)
LEMMA InitImplements == Init => Contract!Init
BY DEF Init, Contract!Init, InCall

(* The call returns only what it was asked for, and gives up only for the  *)
(* cancel event.                                                           *)
LEMMA GoOnImplements ==
  ASSUME CallInv, pc = "turn", NEW n \in Nat, n <= call.len, GoOn(n),
         taken' = delivered + n, taken' \in Nat, taken' <= arrived, UNCHANGED <<call, envVars>>
  PROVE  [Contract!Next]_(Contract!vars)
<1>1. /\ call.len \in Nat /\ call.atleast \in Nat /\ delivered \in Nat
      /\ UNCHANGED <<call, arrived, eof, broken, cancel>>
  BY CallType DEF CallInv, TypeOK, envVars
<1>2. CASE "event" \in revents
  <2>1. pc' = "over" /\ delivered' = delivered /\ cancel
    BY <1>2 DEF GoOn, CallInv
  <2>2. Contract!GiveUp
    BY <1>1, <2>1 DEF Contract!GiveUp, Contract!envVars, InCall
  <2> QED
    BY <2>2 DEF Contract!Next
<1>3. CASE "event" \notin revents /\ n < call.atleast
  <2>1. pc' = "poll" /\ delivered' = delivered
    BY <1>3 DEF GoOn
  <2> QED
    BY <1>1, <2>1 DEF Contract!vars, InCall
<1>4. CASE "event" \notin revents /\ ~(n < call.atleast)
  <2>1. pc' = "idle" /\ delivered' = delivered + n
    BY <1>4 DEF GoOn
  <2>2. n \in call.atleast .. call.len /\ delivered + n <= arrived
    BY <1>1, <1>4
  <2>3. Contract!Return
    BY <1>1, <2>1, <2>2 DEF Contract!Return, Contract!envVars, InCall
  <2> QED
    BY <2>3 DEF Contract!Next
<1> QED
  BY <1>2, <1>3, <1>4

(* The call fails only when the connection was reset or the stream is at   *)
(* its end and holds less than was asked for.                              *)
LEMMA ThrowImplements ==
  ASSUME CallInv, pc = "turn", TurnThrows, UNCHANGED <<call, envVars>>
  PROVE  Contract!Next
<1>1. pc' = "over" /\ UNCHANGED <<delivered, call, arrived, eof, broken, cancel>>
  BY DEF TurnThrows, Throw, envVars
<1>2. ASSUME eof, Unread = 0 PROVE arrived - delivered < Contract!Due(call)
  <2>1. /\ call.len \in Nat /\ call.atleast \in Nat /\ received \in Nat /\ taken \in Nat
        /\ arrived \in Nat /\ delivered \in Nat /\ taken = delivered + received
    BY CallType DEF CallInv, TypeOK
  <2>2. arrived - delivered = received
    BY <1>2, <2>1 DEF Unread
  <2>3. received < call.atleast \/ received = 0
    BY DEF CallInv, InCall
  <2> QED
    BY <2>1, <2>2, <2>3 DEF Contract!Due
<1>3. broken \/ (eof /\ arrived - delivered < Contract!Due(call))
  BY <1>2 DEF TurnThrows
<1>4. Contract!Fail
  BY <1>1, <1>3 DEF Contract!Fail, Contract!envVars, InCall
<1> QED
  BY <1>4 DEF Contract!Next

(* ... and every step is one of the contract or none.                      *)
LEMMA NextImplements == CallInv /\ [Next]_vars => [Contract!Next]_(Contract!vars)
<1> SUFFICES ASSUME CallInv, [Next]_vars PROVE [Contract!Next]_(Contract!vars)
  OBVIOUS
<1>1. CASE Enter
  <2>1. Contract!Enter
    BY <1>1 DEF Enter, envVars, Contract!Enter, Contract!envVars, InCall
  <2> QED
    BY <2>1 DEF Contract!Next
<1>2. CASE Poll
  BY <1>2 DEF Poll, envVars, Contract!vars, InCall
<1>3. CASE Turn
  <2>1. CASE TurnGoesOn
    BY <1>3, <2>1, TurnCases, GoOnImplements DEF TurnGoesOn
  <2>2. CASE TurnThrows
    BY <1>3, <2>2, TurnCases, ThrowImplements
  <2> QED
    BY <1>3, <2>1, <2>2, TurnCases
<1>4. CASE Arrive
  <2>1. Contract!Arrive
    BY <1>4 DEF Arrive, callVars, Contract!Arrive, InCall
  <2> QED
    BY <2>1 DEF Contract!Next, Contract!Environment
<1>5. CASE Close
  <2>1. Contract!Close
    BY <1>5 DEF Close, callVars, Contract!Close, InCall
  <2> QED
    BY <2>1 DEF Contract!Next, Contract!Environment
<1>6. CASE Break
  <2>1. Contract!Break
    BY <1>6 DEF Break, callVars, Contract!Break, InCall
  <2> QED
    BY <2>1 DEF Contract!Next, Contract!Environment
<1>7. CASE Cancel
  <2>1. Contract!Cancel
    BY <1>7 DEF Cancel, callVars, Contract!Cancel, InCall
  <2> QED
    BY <2>1 DEF Contract!Next, Contract!Environment
<1>8. CASE UNCHANGED vars
  BY <1>8 DEF vars, envVars, Contract!vars, InCall
<1> QED
  BY <1>1, <1>2, <1>3, <1>4, <1>5, <1>6, <1>7, <1>8 DEF Next, Over

(* recv returns what receive() relies on, for every length and minimum:    *)
(* the loop of poll and recvfrom implements the contract (socket.cpp:215). *)
THEOREM Refinement == Spec => ImplementsContract
BY InitImplements, NextImplements, Invariant, PTL DEF Spec, ImplementsContract, Contract!Spec
=============================================================================
