--------------------------- MODULE DependencyCall ---------------------------
(***************************************************************************)
(* What a bounded transport promises its callers, with no word about       *)
(* threads, queues or clocks.                                              *)
(*                                                                         *)
(* At most Capacity calls are at work at a time.  The dependency applies a *)
(* write at most once, whenever it likes once the call is at work.  The    *)
(* caller is told one of three things, once: "ok" of a write that was      *)
(* applied, "failed" of one that was not and from then on never will be,   *)
(* and "unknown" of any.  A caller may be told before the work has ended.  *)
(***************************************************************************)
EXTENDS Integers, FiniteSets

CONSTANTS Calls, Writes, Capacity

VARIABLES
    stage,     \* "new", "working" or "finished"
    told,      \* what the caller of the call was told, "nothing" at first
    committed  \* the dependency has carried out the write

depVars == <<stage, told, committed>>

Working == {c \in Calls : stage[c] = "working"}

DepInit ==
    /\ stage = [c \in Calls |-> "new"]
    /\ told = [c \in Calls |-> "nothing"]
    /\ committed = [c \in Calls |-> FALSE]

Begin(c) ==
    /\ stage[c] = "new"
    /\ told[c] = "nothing"
    /\ Cardinality(Working) < Capacity
    /\ stage' = [stage EXCEPT ![c] = "working"]
    /\ UNCHANGED <<told, committed>>

\* A call that is turned away is told so before it begins.
TurnAway(c) ==
    /\ stage[c] = "new"
    /\ told[c] = "nothing"
    /\ told' = [told EXCEPT ![c] = "failed"]
    /\ UNCHANGED <<stage, committed>>

Commit(c) ==
    /\ c \in Writes
    /\ stage[c] # "new"
    /\ told[c] # "failed"
    /\ ~committed[c]
    /\ committed' = [committed EXCEPT ![c] = TRUE]
    /\ UNCHANGED <<stage, told>>

Truthful(c, what) ==
    c \in Writes => /\ what = "ok" => committed[c]
                    /\ what = "failed" => ~committed[c]

Tell(c) ==
    /\ stage[c] # "new"
    /\ told[c] = "nothing"
    /\ \E what \in {"ok", "failed", "unknown"} :
          /\ Truthful(c, what)
          /\ told' = [told EXCEPT ![c] = what]
    /\ UNCHANGED <<stage, committed>>

Finish(c) ==
    /\ stage[c] = "working"
    /\ stage' = [stage EXCEPT ![c] = "finished"]
    /\ UNCHANGED <<told, committed>>

DepNext ==
    \E c \in Calls : Begin(c) \/ TurnAway(c) \/ Commit(c) \/ Tell(c) \/ Finish(c)

DepSpec == DepInit /\ [][DepNext]_depVars
=============================================================================
