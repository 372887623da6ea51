----------------------------- MODULE MCLiveView -----------------------------
(***************************************************************************)
(* Small instances of LiveView for TLC.  A behaviour has the happenings of *)
(* one of the sets in Mixes; the others it has no room for.                *)
(***************************************************************************)
EXTENDS LiveView

CONSTANTS r1, r2, s1, s2, Mixes

VARIABLE mix

mixVars == <<viewVars, mix>>

\* The first run is under way, or there is none yet for the user to create.  Without a
\* second run of the effect there is one socket at a time.
MixInit ==
    /\ LiveInit
    /\ mix \in Mixes
    /\ runState[r2] = "none"
    /\ "create" \in mix <=> runState[r1] = "none"
    /\ "resume" \in mix <=> runState[r1] = "PAUSED"
    /\ taskState[r1] # "QUEUED"
    /\ wsRef = s1

Within(name, counter) == counter' # counter => name \in mix

MixNext ==
    /\ LiveNext
    /\ Within("remount", mounts) /\ ("remount" \notin mix => wsRef' # s2)
    /\ Within("outage", outages)
    /\ Within("select", spent.selections)
    /\ Within("failure", spent.failures)
    /\ Within("moves", spent.moves)
    /\ Within(command'.name, spent.commands)
    /\ UNCHANGED mix

MixSpec == MixInit /\ [][MixNext]_mixVars /\ LiveFairness

SocketsPollsAndCommands ==
    {{"remount", "outage", "moves"}, {"outage", "failure", "moves"},
     {"outage", "select", "moves"}, {"select", "cancel", "failure"}, {"select", "resume", "moves"},
     {"create", "failure"}}

=============================================================================
