------------------------------ MODULE Lifecycle ------------------------------
(***************************************************************************)
(* What an instance promises to the test that drives it, without the       *)
(* cluster: the states of pkg/instance/state.go and the only moves between *)
(* them.  An instance and its sidecars are started, stopped and destroyed  *)
(* as one; 'Destroyed' is final, and is reached from 'Started' only.       *)
(* Module Instance is shown to implement this specification.               *)
(***************************************************************************)
EXTENDS Naturals, Sequences

CONSTANTS Mains,     \* instances the test creates itself
          Sidecars   \* instances created by Sidecars().Add

VARIABLES state,     \* state[i]: the instance's state
          sidecars   \* sidecars[i]: the sidecars added to i, in order

lifecycleVars == <<state, sidecars>>

Members == Mains \cup Sidecars

\* Instance m and the sidecars that run in its pod.
FamilyOf(m) == {m} \cup {sidecars[m][q] : q \in 1..Len(sidecars[m])}

\* All of S moves to st.
Become(S, st) ==
  /\ state' = [i \in Members |-> IF i \in S THEN st ELSE state[i]]
  /\ UNCHANGED sidecars

-----------------------------------------------------------------------------

LInit ==
  /\ state = [i \in Members |-> "None"]
  /\ sidecars = [i \in Members |-> <<>>]

\* SetImage or SetGitRepo
Prepare(i) == state[i] \in {"None", "Preparing", "Stopped"} /\ Become({i}, "Preparing")

\* Commit
Seal(i) == state[i] = "Preparing" /\ Become({i}, "Committed")

\* Sidecars().Add: the sidecar is created committed; only a main instance keeps it
Attach(i, s) ==
  /\ state[i] \in {"Preparing", "Committed", "Stopped"}
  /\ state[s] = "None"
  /\ state' = [state EXCEPT ![s] = "Committed"]
  /\ \/ i \in Mains /\ sidecars' = [sidecars EXCEPT ![i] = Append(@, s)]
     \/ UNCHANGED sidecars

\* Start: the whole family must be ready for it
Run(m) ==
  /\ \A i \in FamilyOf(m) : state[i] \in {"Committed", "Stopped"}
  /\ Become(FamilyOf(m), "Started")

\* Stop and Destroy: the whole family is up when it goes down
Halt(m) ==
  /\ \A i \in FamilyOf(m) : state[i] = "Started"
  /\ \E st \in {"Stopped", "Destroyed"} : Become(FamilyOf(m), st)

LNext ==
  \/ \E i \in Members : Prepare(i) \/ Seal(i)
  \/ \E i \in Members, s \in Sidecars : Attach(i, s)
  \/ \E m \in Mains : Run(m) \/ Halt(m)

LSpec == LInit /\ [][LNext]_lifecycleVars
=============================================================================
