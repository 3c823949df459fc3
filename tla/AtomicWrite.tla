---------------------------- MODULE AtomicWrite ----------------------------
(***************************************************************************)
(* What an audited write promises its caller: the write and its audit      *)
(* record are in the store together or not at all; who is told "ok" finds  *)
(* them there; who is told "error" never will.  Where commits can go       *)
(* unanswered, the exception of a commit is "doubt" and promises neither.  *)
(* A caller that is gone is told nothing, and the store may have them or   *)
(* not.                                                                    *)
(***************************************************************************)
CONSTANTS
    Writes,
    Doubtful  \* whether commits can go unanswered

VARIABLES
    done,  \* writes that are in the store, each with its record
    told   \* what the caller of each was told, "nothing" at first

atomicVars == <<done, told>>

Answers == {"ok", "error"} \cup (IF Doubtful THEN {"doubt"} ELSE {})

AtomicInit ==
    /\ done = {}
    /\ told = [w \in Writes |-> "nothing"]

Commit(w) ==
    /\ told[w] \in {"nothing", "doubt"}
    /\ done' = done \cup {w}
    /\ UNCHANGED told

Tell(w, what) ==
    /\ told[w] = "nothing"
    /\ what = "ok" => w \in done
    /\ what = "error" => w \notin done
    /\ told' = [told EXCEPT ![w] = what]
    /\ UNCHANGED done

AtomicNext == \E w \in Writes : Commit(w) \/ \E what \in Answers : Tell(w, what)

AtomicSpec == AtomicInit /\ [][AtomicNext]_atomicVars
=============================================================================
