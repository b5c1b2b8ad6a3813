----------------------------- MODULE PortForward -----------------------------
(***************************************************************************)
(* PortForwardTCP (pkg/instance/network.go) and PortForwardPod             *)
(* (pkg/k8s/pod.go): a free local port is looked for once, and up to       *)
(* MaxRetries attempts are made to forward it.  The goroutine of an        *)
(* attempt dials the pod, listens on the port and closes readyChan; an     *)
(* error it sends on errChan, where it blocks until somebody reads it.     *)
(* An attempt that times out is given up and its goroutine is not stopped, *)
(* so that the next attempt may meet it on the same port.  Several calls   *)
(* run concurrently and compete for the ports.                             *)
(***************************************************************************)
EXTENDS Naturals, FiniteSets

CONSTANTS
  Callers,     \* concurrent calls of PortForwardTCP
  LocalPorts,  \* the ports of the host
  MaxRetries   \* maxRetries

ASSUME ForwardAssumption == LocalPorts # {} /\ MaxRetries \in Nat \ {0}

Attempts == 1..MaxRetries

VARIABLES
  at,         \* at[c]: where call c is
  localPort,  \* localPort[c]: the port it has found
  attempt,    \* attempt[c]: the number of attempts begun
  forwarder,  \* forwarder[c][a]: the goroutine of the a-th attempt
  timedOut,   \* history: the attempts <<c, a>> that were given up by the timer
  cancelled   \* the context is done

vars == <<at, localPort, attempt, forwarder, timedOut, cancelled>>

TypeOK ==
  /\ at \in [Callers -> {"begin", "loop", "select", "pause", "ok", "error"}]
  /\ localPort \in [Callers -> LocalPorts]
  /\ attempt \in [Callers -> 0..MaxRetries]
  /\ forwarder \in [Callers -> [Attempts -> {"none", "dialing", "listening", "lost", "failed", "ended"}]]
  /\ timedOut \subseteq Callers \X Attempts
  /\ cancelled \in BOOLEAN

Init ==
  /\ at = [c \in Callers |-> "begin"]
  /\ localPort \in [Callers -> LocalPorts]
  /\ attempt = [c \in Callers |-> 0]
  /\ forwarder = [c \in Callers |-> [a \in Attempts |-> "none"]]
  /\ timedOut = {}
  /\ cancelled = FALSE

Goto(c, place) == at' = [at EXCEPT ![c] = place]

SetForwarder(c, a, st) == forwarder' = [forwarder EXCEPT ![c][a] = st]

\* Somebody listens on port p.
InUse(p) ==
  \E c \in Callers, a \in Attempts : localPort[c] = p /\ forwarder[c][a] = "listening"

-----------------------------------------------------------------------------

\* The port is free now, and is not kept: the listener that found it is closed.
getFreePortTCP(c) ==
  /\ at[c] = "begin"
  /\ \E p \in LocalPorts :
       /\ ~InUse(p)
       /\ localPort' = [localPort EXCEPT ![c] = p]
  /\ Goto(c, "loop")
  /\ UNCHANGED <<attempt, forwarder, timedOut, cancelled>>

\* The host has no port left, in use by these calls or by other programs.
NoFreePort(c) ==
  /\ at[c] = "begin"
  /\ Goto(c, "error")
  /\ UNCHANGED <<localPort, attempt, forwarder, timedOut, cancelled>>

\* An attempt fails before its goroutine is started (the pod is gone), or starts it.
BeginAttempt(c) ==
  /\ at[c] = "loop"
  /\ attempt' = [attempt EXCEPT ![c] = @ + 1]
  /\ \/ Goto(c, "select") /\ SetForwarder(c, attempt'[c], "dialing")
     \/ Goto(c, "pause") /\ UNCHANGED forwarder
  /\ UNCHANGED <<localPort, timedOut, cancelled>>

\* ForwardPorts of the library: it fails when the port is in use, and may fail, or
\* lose its connection, at any time.
ForwardPorts(c, a) ==
  /\ \/ forwarder[c][a] = "dialing" /\ ~InUse(localPort[c]) /\ SetForwarder(c, a, "listening")
     \/ forwarder[c][a] = "dialing" /\ SetForwarder(c, a, "failed")
     \/ forwarder[c][a] = "listening" /\ SetForwarder(c, a, "lost")
  /\ UNCHANGED <<at, localPort, attempt, timedOut, cancelled>>

\* Mutant: a timeout is not an error.
ReadyOrTimeout(c) == forwarder[c][attempt[c]] \in {"dialing", "listening", "lost"}

\* readyChan is closed, and stays so.
ReadyChan(c) == forwarder[c][attempt[c]] \in {"listening", "lost"}

\* The select of PortForwardPod.
SelectReady(c) ==
  /\ at[c] = "select"
  /\ ReadyChan(c)
  /\ Goto(c, "ok")
  /\ UNCHANGED <<localPort, attempt, forwarder, timedOut, cancelled>>

SelectError(c) ==
  /\ at[c] = "select"
  /\ forwarder[c][attempt[c]] \in {"failed", "lost"}
  /\ SetForwarder(c, attempt[c], "ended")
  /\ Goto(c, "pause")
  /\ UNCHANGED <<localPort, attempt, timedOut, cancelled>>

\* Mutant: there is no timer, the context is waited for.
SelectContext(c) ==
  /\ at[c] = "select"
  /\ cancelled
  /\ timedOut' = timedOut \cup {<<c, attempt[c]>>}
  /\ Goto(c, "pause")
  /\ UNCHANGED <<localPort, attempt, forwarder, cancelled>>

\* Mutant: the context is waited for as well as the timer.
SelectEither(c) ==
  /\ at[c] = "select"
  /\ timedOut' = IF cancelled THEN timedOut ELSE timedOut \cup {<<c, attempt[c]>>}
  /\ Goto(c, "pause")
  /\ UNCHANGED <<localPort, attempt, forwarder, cancelled>>

\* The timer: nobody will read errChan, and stopChan is not closed.
SelectTimeout(c) ==
  /\ at[c] = "select"
  /\ timedOut' = timedOut \cup {<<c, attempt[c]>>}
  /\ Goto(c, "pause")
  /\ UNCHANGED <<localPort, attempt, forwarder, cancelled>>

\* Mutant: an attempt too many is made.
PauseOnceMore(c) ==
  /\ at[c] = "pause"
  /\ \/ (cancelled \/ attempt[c] > MaxRetries) /\ Goto(c, "error")
     \/ attempt[c] <= MaxRetries /\ Goto(c, "loop")
  /\ UNCHANGED <<localPort, attempt, forwarder, timedOut, cancelled>>

\* After a failed attempt: the context is done, or this was the last one.
Pause(c) ==
  /\ at[c] = "pause"
  /\ \/ (cancelled \/ attempt[c] = MaxRetries) /\ Goto(c, "error")
     \/ attempt[c] < MaxRetries /\ Goto(c, "loop")
  /\ UNCHANGED <<localPort, attempt, forwarder, timedOut, cancelled>>

Cancel ==
  /\ ~cancelled
  /\ cancelled' = TRUE
  /\ UNCHANGED <<at, localPort, attempt, forwarder, timedOut>>

PortForwardTCP(c) ==
  \/ getFreePortTCP(c) \/ NoFreePort(c) \/ BeginAttempt(c)
  \/ SelectReady(c) \/ SelectError(c) \/ SelectTimeout(c) \/ Pause(c)

Next ==
  \/ Cancel
  \/ \E c \in Callers : PortForwardTCP(c) \/ \E a \in Attempts : ForwardPorts(c, a)

\* The timer fires, and a goroutine that can go on does.  Nothing is assumed of the
\* connections, which may hang for ever, nor of the context.
Fairness == \A c \in Callers : WF_vars(PortForwardTCP(c))

Spec == Init /\ [][Next]_vars /\ Fairness

-----------------------------------------------------------------------------

\* PortForwardTCP returns, although dials hang and the context has no deadline.
ForwardReturns == \A c \in Callers : at[c] = "begin" ~> at[c] \in {"ok", "error"}

\* Two calls that have succeeded hold two ports: the port a call has returned is
\* forwarded by the attempt it has returned for, not by one that was given up nor by
\* the other call, until the connection of that attempt is lost.
ReturnedPortsDiffer ==
  \A c, d \in Callers :
    (c # d /\ at[c] = "ok" /\ at[d] = "ok" /\ localPort[c] = localPort[d])
      => \E e \in {c, d} : forwarder[e][attempt[e]] = "lost"

\* A goroutine that outlives a call, dialing, listening on the port or blocked on
\* errChan, belongs to an attempt that the timer has given up, or is the one the call
\* has succeeded with (which blocks too, once its connection is lost): a call can fail,
\* or be refused its own port, because of an earlier attempt only after a timeout.
LeakNeedsTimeout ==
  \A c \in Callers, a \in Attempts :
    /\ at[c] \in {"ok", "error"} \/ a < attempt[c]
    /\ forwarder[c][a] \in {"dialing", "listening", "failed", "lost"}
    => \/ <<c, a>> \in timedOut
       \/ at[c] = "ok" /\ a = attempt[c] /\ forwarder[c][a] \in {"listening", "lost"}
=============================================================================
