-------------------------- MODULE PortForwardProofs --------------------------
(***************************************************************************)
(* Proofs about module PortForward, for any number of concurrent calls,    *)
(* ports and attempts.                                                     *)
(***************************************************************************)
EXTENDS PortForward, TLAPS

\* Attempts are begun within the bound, and the forwarders of those to come are not
\* there yet.
AttemptInv ==
  \A c \in Callers :
    /\ at[c] = "begin" => attempt[c] = 0
    /\ at[c] = "loop" => attempt[c] < MaxRetries
    /\ at[c] \in {"select", "pause", "ok"} => attempt[c] \in Attempts
    /\ \A a \in Attempts : a > attempt[c] => forwarder[c][a] = "none"

\* No two goroutines listen on one port.
ListenInv ==
  \A c, d \in Callers : \A a, b \in Attempts :
    (forwarder[c][a] = "listening" /\ forwarder[d][b] = "listening" /\ localPort[c] = localPort[d])
      => c = d /\ a = b

\* A call that has succeeded has done so with a forwarder that was ready.
ReadyInv ==
  \A c \in Callers : at[c] = "ok" => forwarder[c][attempt[c]] \in {"listening", "lost"}

\* The attempt of call c that is behind it.
Behind(c, a) == a < attempt[c] \/ (a = attempt[c] /\ at[c] \in {"pause", "loop", "error"})

\* What is left of an attempt that is behind was given up by the timer.
LeakInv ==
  \A c \in Callers, a \in Attempts :
    Behind(c, a) /\ forwarder[c][a] \in {"dialing", "listening", "failed", "lost"}
      => <<c, a>> \in timedOut

ForwardInv == TypeOK /\ AttemptInv /\ ListenInv /\ ReadyInv /\ LeakInv

-----------------------------------------------------------------------------

\* No call has begun.
LEMMA ForwardInit == Init => ForwardInv
<1> SUFFICES ASSUME Init PROVE ForwardInv
  OBVIOUS
<1> USE ForwardAssumption DEF Init, Attempts
<1>1. TypeOK
  <2>1. [a \in Attempts |-> "none"] \in
          [Attempts -> {"none", "dialing", "listening", "lost", "failed", "ended"}]
    OBVIOUS
  <2>2. forwarder \in
          [Callers -> [Attempts -> {"none", "dialing", "listening", "lost", "failed", "ended"}]]
    BY <2>1
  <2>3. attempt \in [Callers -> 0..MaxRetries]
    OBVIOUS
  <2> QED BY <2>2, <2>3 DEF TypeOK
<1>2. \A c \in Callers : /\ at[c] = "begin" /\ attempt[c] = 0
                         /\ \A a \in Attempts : forwarder[c][a] = "none"
  OBVIOUS
<1>3. AttemptInv
  BY <1>2 DEF AttemptInv
<1>4. ListenInv /\ ReadyInv /\ LeakInv
  BY <1>2 DEF ListenInv, ReadyInv, LeakInv
<1> QED BY <1>1, <1>3, <1>4 DEF ForwardInv

\* PortForwardTCP, and the select of PortForwardPod
LEMMA CallInv ==
  ASSUME ForwardInv, NEW c \in Callers, PortForwardTCP(c)
  PROVE  ForwardInv'
<1> USE ForwardAssumption DEF ForwardInv
<1>1. CASE getFreePortTCP(c)
  <2>1. PICK p \in LocalPorts :
          ~InUse(p) /\ localPort' = [localPort EXCEPT ![c] = p]
    BY <1>1 DEF getFreePortTCP
  <2>2. /\ at[c] = "begin" /\ at' = [at EXCEPT ![c] = "loop"]
        /\ UNCHANGED <<attempt, forwarder, timedOut, cancelled>>
    BY <1>1 DEF getFreePortTCP, Goto
  <2>3. attempt[c] = 0 /\ \A a \in Attempts : forwarder[c][a] = "none"
    BY <2>2 DEF AttemptInv, Attempts
  <2>4. TypeOK' /\ AttemptInv'
    BY <2>1, <2>2, <2>3 DEF TypeOK, AttemptInv
  <2>5. ListenInv' /\ ReadyInv' /\ LeakInv'
    BY <2>1, <2>2, <2>3 DEF TypeOK, ListenInv, ReadyInv, LeakInv, Behind, Attempts
  <2> QED BY <2>4, <2>5
<1>2. CASE NoFreePort(c)
  BY <1>2 DEF NoFreePort, Goto, TypeOK, AttemptInv, ListenInv, ReadyInv, LeakInv, Behind, Attempts
<1>3. CASE BeginAttempt(c)
  <2>1. /\ at[c] = "loop" /\ attempt[c] < MaxRetries /\ attempt[c] \in Nat
        /\ attempt' = [attempt EXCEPT ![c] = attempt[c] + 1]
        /\ UNCHANGED <<localPort, timedOut, cancelled>>
    BY <1>3 DEF BeginAttempt, AttemptInv, TypeOK
  <2>2. attempt'[c] = attempt[c] + 1 /\ attempt'[c] \in Attempts
    BY <2>1 DEF TypeOK, Attempts
  <2>3. CASE Goto(c, "select") /\ SetForwarder(c, attempt'[c], "dialing")
    <3>1. TypeOK'
      BY <2>1, <2>2, <2>3 DEF Goto, SetForwarder, TypeOK, Attempts
    <3>2. AttemptInv'
      BY <2>1, <2>2, <2>3 DEF Goto, SetForwarder, TypeOK, AttemptInv, Attempts
    <3>3. ListenInv' /\ ReadyInv'
      BY <2>1, <2>2, <2>3 DEF Goto, SetForwarder, TypeOK, ListenInv, ReadyInv, Attempts
    <3>4. LeakInv'
      BY <2>1, <2>2, <2>3 DEF Goto, SetForwarder, TypeOK, LeakInv, Behind, Attempts
    <3> QED BY <3>1, <3>2, <3>3, <3>4
  <2>4. CASE Goto(c, "pause") /\ UNCHANGED forwarder
    <3>1. forwarder[c][attempt'[c]] = "none"
      BY <2>1, <2>2 DEF AttemptInv, Attempts
    <3>2. TypeOK' /\ AttemptInv'
      BY <2>1, <2>2, <2>4 DEF Goto, TypeOK, AttemptInv, Attempts
    <3>3. ListenInv' /\ ReadyInv' /\ LeakInv'
      BY <2>1, <2>2, <2>4, <3>1 DEF Goto, TypeOK, ListenInv, ReadyInv, LeakInv, Behind, Attempts
    <3> QED BY <3>2, <3>3
  <2> QED BY <1>3, <2>3, <2>4 DEF BeginAttempt
<1>4. CASE SelectReady(c)
  BY <1>4 DEF SelectReady, ReadyChan, Goto, TypeOK, AttemptInv, ListenInv, ReadyInv, LeakInv,
     Behind, Attempts
<1>5. CASE SelectError(c)
  <2>1. attempt[c] \in Attempts
    BY <1>5 DEF SelectError, AttemptInv
  <2>2. TypeOK' /\ AttemptInv'
    BY <1>5, <2>1 DEF SelectError, SetForwarder, Goto, TypeOK, AttemptInv, Attempts
  <2>3. ListenInv' /\ ReadyInv'
    BY <1>5, <2>1 DEF SelectError, SetForwarder, Goto, TypeOK, ListenInv, ReadyInv, Attempts
  <2>4. LeakInv'
    BY <1>5, <2>1 DEF SelectError, SetForwarder, Goto, TypeOK, LeakInv, Behind, Attempts
  <2> QED BY <2>2, <2>3, <2>4
<1>6. CASE SelectTimeout(c)
  <2>1. attempt[c] \in Attempts
    BY <1>6 DEF SelectTimeout, AttemptInv
  <2>2. TypeOK' /\ AttemptInv' /\ ListenInv' /\ ReadyInv'
    BY <1>6, <2>1 DEF SelectTimeout, Goto, TypeOK, AttemptInv, ListenInv, ReadyInv, Attempts
  <2>3. LeakInv'
    BY <1>6, <2>1 DEF SelectTimeout, Goto, TypeOK, LeakInv, Behind, Attempts
  <2> QED BY <2>2, <2>3
<1>7. CASE Pause(c)
  <2>1. TypeOK' /\ AttemptInv'
    BY <1>7 DEF Pause, Goto, TypeOK, AttemptInv, Attempts
  <2>2. ListenInv' /\ ReadyInv' /\ LeakInv'
    BY <1>7 DEF Pause, Goto, TypeOK, ListenInv, ReadyInv, LeakInv, Behind, Attempts
  <2> QED BY <2>1, <2>2
<1> QED BY <1>1, <1>2, <1>3, <1>4, <1>5, <1>6, <1>7 DEF PortForwardTCP

\* The goroutine of an attempt, which may run on after the attempt was given up.
LEMMA ForwarderInv ==
  ASSUME ForwardInv, NEW c \in Callers, NEW a \in Attempts, ForwardPorts(c, a)
  PROVE  ForwardInv'
<1> USE ForwardAssumption DEF ForwardInv
<1>1. PICK st \in {"listening", "failed", "lost"} :
        /\ SetForwarder(c, a, st)
        /\ st = "listening" => forwarder[c][a] = "dialing" /\ ~InUse(localPort[c])
        /\ st = "failed" => forwarder[c][a] = "dialing"
        /\ st = "lost" => forwarder[c][a] = "listening"
  BY DEF ForwardPorts
<1>2. UNCHANGED <<at, localPort, attempt, timedOut, cancelled>>
  BY DEF ForwardPorts
<1>3. TypeOK'
  BY <1>1, <1>2 DEF SetForwarder, TypeOK
<1>4. AttemptInv' /\ ReadyInv' /\ LeakInv'
  BY <1>1, <1>2 DEF SetForwarder, TypeOK, AttemptInv, ReadyInv, LeakInv, Behind, Attempts
<1>5. ListenInv'
  BY <1>1, <1>2 DEF SetForwarder, TypeOK, ListenInv, InUse
<1> QED BY <1>3, <1>4, <1>5

\* Every step of every call and of every forwarding goroutine keeps the invariant.
LEMMA ForwardStep == ForwardInv /\ [Next]_vars => ForwardInv'
<1> SUFFICES ASSUME ForwardInv, [Next]_vars PROVE ForwardInv'
  OBVIOUS
<1>1. CASE Cancel
  BY <1>1 DEF Cancel, ForwardInv, TypeOK, AttemptInv, ListenInv, ReadyInv, LeakInv, Behind
<1>2. CASE UNCHANGED vars
  BY <1>2 DEF vars, ForwardInv, TypeOK, AttemptInv, ListenInv, ReadyInv, LeakInv, Behind
<1> QED BY <1>1, <1>2, CallInv, ForwarderInv DEF Next

\* The invariant holds in every behaviour.
LEMMA ForwardInvHolds == Spec => []ForwardInv
BY ForwardInit, ForwardStep, PTL DEF Spec

\* PortForwardTCP makes at most maxRetries attempts, and everything keeps its type.
THEOREM ForwardTypeCorrect == Spec => []TypeOK
<1>1. ForwardInv => TypeOK
  BY DEF ForwardInv
<1> QED BY <1>1, ForwardInvHolds, PTL

\* getFreePortTCP gives back the port it has found before it is used; nevertheless the
\* ports of any two calls that have succeeded differ, until a connection is lost.
THEOREM PortsDiffer == Spec => []ReturnedPortsDiffer
<1>1. ForwardInv => ReturnedPortsDiffer
  <2> SUFFICES ASSUME ForwardInv, NEW c \in Callers, NEW d \in Callers,
                      c # d, at[c] = "ok", at[d] = "ok", localPort[c] = localPort[d]
               PROVE  \E e \in {c, d} : forwarder[e][attempt[e]] = "lost"
    BY DEF ReturnedPortsDiffer
  <2>1. attempt[c] \in Attempts /\ attempt[d] \in Attempts
    BY DEF ForwardInv, AttemptInv
  <2> QED BY <2>1 DEF ForwardInv, ReadyInv, ListenInv
<1> QED BY <1>1, ForwardInvHolds, PTL

\* The select of PortForwardPod: a goroutine that outlives a call is that of the attempt
\* it has succeeded with, or one whose attempt the timer has given up.
THEOREM LeaksAreTimeouts == Spec => []LeakNeedsTimeout
<1>1. ForwardInv => LeakNeedsTimeout
  <2> SUFFICES ASSUME ForwardInv, NEW c \in Callers, NEW a \in Attempts,
                      at[c] \in {"ok", "error"} \/ a < attempt[c],
                      forwarder[c][a] \in {"dialing", "listening", "failed", "lost"}
               PROVE  \/ <<c, a>> \in timedOut
                      \/ at[c] = "ok" /\ a = attempt[c] /\ forwarder[c][a] \in {"listening", "lost"}
    BY DEF LeakNeedsTimeout
  <2>1. ~(a > attempt[c])
    BY DEF ForwardInv, AttemptInv
  <2>2. CASE Behind(c, a)
    BY <2>2 DEF ForwardInv, LeakInv
  <2>3. CASE ~Behind(c, a)
    <3>1. at[c] = "ok" /\ a = attempt[c]
      BY <2>1, <2>3, ForwardAssumption DEF ForwardInv, TypeOK, Attempts, Behind
    <3> QED BY <3>1 DEF ForwardInv, ReadyInv
  <2> QED BY <2>2, <2>3
<1> QED BY <1>1, ForwardInvHolds, PTL
=============================================================================
