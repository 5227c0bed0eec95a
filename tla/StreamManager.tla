---------------------------- MODULE StreamManager ---------------------------
(***************************************************************************)
(* internal/pipeline's SessionManager: the ffmpeg processes that feed HLS  *)
(* streams, the table of those it knows and the idle reaper over it. The   *)
(* table is guarded by one mutex; starting and killing a process happens   *)
(* outside it, so each is a step of its own. The steps are operators: the  *)
(* handlers and the reaper loop of PlaySessions take them.                 *)
(***************************************************************************)
EXTENDS Integers

CONSTANTS
    Sessions,   \* the session ids rand.Read can mint; none is minted twice
    MaxIdle,    \* sessionIdleTimeout, in ticks of the clock
    None

ASSUME MaxIdleAssumption == MaxIdle \in Nat /\ None \notin Int

VARIABLES
    procs,      \* ids whose ffmpeg process is running
    streams,    \* the manager's table: id -> ticks since the last fetch, or None
    reaper      \* [at, ids]: where the reaper loop is, the ids it has to stop

streamVars == <<procs, streams, reaper>>

ReaperState ==
    [at : {"asleep", "stopping", "killing", "sweeping"},
     ids : SUBSET Sessions, id : Sessions \cup {None}]

StreamTypeOK ==
    /\ procs \subseteq Sessions
    /\ streams \in [Sessions -> 0 .. MaxIdle + 1 \cup {None}]
    /\ reaper \in ReaperState

StreamInit ==
    /\ procs = {}
    /\ streams = [s \in Sessions |-> None]
    /\ reaper = [at |-> "asleep", ids |-> {}, id |-> None]

Live(s) == streams[s] # None

(* Create starts ffmpeg before it takes the lock to enter it in the table. *)
StartProcess(s) == procs' = procs \cup {s} /\ UNCHANGED <<streams, reaper>>
Enter(s) == streams' = [streams EXCEPT ![s] = 0] /\ UNCHANGED <<procs, reaper>>

(* Stop removes the entry under the lock and kills the process after it.   *)
Remove(s) == streams' = [streams EXCEPT ![s] = None]
Kill(s) == procs' = procs \ {s}

(* ffmpeg ends on its own: the file is done, or it failed. The entry stays. *)
Exit(s) ==
    /\ s \in procs
    /\ Kill(s)
    /\ UNCHANGED <<streams, reaper>>

(* A fetch inside a session's directory counts as the client being there.  *)
Touch(s) == streams' = [streams EXCEPT ![s] = IF @ = None THEN None ELSE 0]

(* Ages stop growing once a session counts as idle.                        *)
Aged(age, limit) == IF age = None \/ age > limit THEN age ELSE age + 1
AgeStreams == streams' = [s \in Sessions |-> Aged(streams[s], MaxIdle)]

-----------------------------------------------------------------------------
(* ReapIdle collects the idle ids under the lock and stops each after      *)
(* releasing it. The sweep over the session rows follows.                  *)
ReapCollect ==
    /\ reaper.at = "asleep"
    /\ reaper' = [at |-> "stopping", id |-> None,
                  ids |-> {s \in Sessions : Live(s) /\ streams[s] > MaxIdle}]
    /\ UNCHANGED <<procs, streams>>

ReapStop(s) ==
    /\ reaper.at = "stopping" /\ s \in reaper.ids
    /\ Remove(s)
    /\ reaper' = [at |-> IF Live(s) THEN "killing" ELSE "stopping",
                  ids |-> reaper.ids \ {s},
                  id |-> IF Live(s) THEN s ELSE None]
    /\ UNCHANGED procs

ReapKill ==
    /\ reaper.at = "killing"
    /\ Kill(reaper.id)
    /\ reaper' = [reaper EXCEPT !.at = "stopping", !.id = None]
    /\ UNCHANGED streams

ReapDone ==
    /\ reaper.at = "stopping" /\ reaper.ids = {}
    /\ reaper' = [reaper EXCEPT !.at = "sweeping"]
    /\ UNCHANGED <<procs, streams>>
=============================================================================
