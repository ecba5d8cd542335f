------------------------------ MODULE MCTasks ------------------------------
(***************************************************************************)
(* Three ranks, of which the first may be made daily and the second may    *)
(* take its place, and a task behind a link that admins turn from one kind *)
(* into another; one member claims in two windows, and progress is reset   *)
(* once.  A behaviour goes on with the mission or with edits of the ranks  *)
(* (MissionOrRanks).                                                       *)
(***************************************************************************)
EXTENDS Tasks, TLC

McTask == [t \in TaskIds |->
    [status |-> "PUBLISHED", kind |-> IF t = "mission" THEN "MANUAL" ELSE "CYCLES",
     target |-> 1, daily |-> FALSE, link |-> t = "mission", reward |-> 1, version |-> 0,
     rank |-> CASE t = "rise" -> 1 [] t = "warrior" -> 2 [] t = "knight" -> 3 [] OTHER -> 0]]
Enter(kind, daily, rank) == [kind |-> kind, daily |-> daily, reward |-> 2, rank |-> rank]
McInputs == [t \in TaskIds |->
    CASE t = "rise" -> {Enter("CYCLES", TRUE, 1), Enter("CYCLES", FALSE, 0)}
      [] t = "warrior" -> {Enter("CYCLES", FALSE, 1)}
      [] t = "knight" -> {}
      [] t = "mission" -> {Enter(k, d, 0) : k \in {"MANUAL", "CHANNEL", "XP"}, d \in BOOLEAN}]
McEdits == [t \in TaskIds |-> IF t = "knight" THEN 0 ELSE 1]
Ranks == {"rise", "warrior", "knight"}
Asked(t) == \E s \in Windows : request[s] # None /\ request[s].task = t
MissionOnly ==
    /\ \A t \in Ranks : task[t].version = 0
    /\ ~Asked("knight")
    /\ \A u \in Members, k \in ClaimKeys : claim[u]["knight"][k] = None
RanksOnly ==
    /\ task["mission"].version = 0 /\ opened = {} /\ joined = {} /\ boosted = {}
    /\ ~Asked("mission")
    /\ \A u \in Members, k \in ClaimKeys : claim[u]["mission"][k] = None
MissionOrRanks == MissionOnly \/ RanksOnly
TwoWindows == Permutations(Windows)
=============================================================================
