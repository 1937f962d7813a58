------------------------------- MODULE FlowFiles -------------------------------
(***************************************************************************)
(* The two files a data sender and its host's MRC daemon share: the sent   *)
(* counts (SentCounters, sender to daemon) and the weight snapshot         *)
(* (daemon to sender).  The daemon's snapshot thread writes the table's    *)
(* weights to a temporary file and moves it into place                     *)
(* (srv6_mrc/mrc/daemon.py); in the sender's process a refresh thread      *)
(* polls the file's mtime and swaps the grid that the sender loop picks    *)
(* EVs from (MrcSnapshot in srv6_mrc/policy.py), with a cache of CDFs      *)
(* keyed by the grid's id().                                               *)
(*                                                                         *)
(* A grid is a number: Cold is the uniform one a policy starts with,       *)
(* Earlier one that a former run left in the file, First and up the        *)
(* successive weights of this daemon's table.  Of the mtimes only their    *)
(* order matters: newer says that the file's exceeds the last one loaded.  *)
(***************************************************************************)
EXTENDS SentCounters

CONSTANTS
    IDs,            \* what id() may return for a grid; reused once it is freed
    MaxGrids,       \* bound: the last weights of the table
    MaxGlitches     \* bound: failed reads and writes, and mtimes not advanced

Cold == 0
Earlier == 1
First == 2

ASSUME FilesAssumption ==
    /\ MaxGrids \in Nat /\ MaxGrids >= First
    /\ MaxGlitches \in Nat
    /\ None \notin Nat \cup IDs \cup [grid : Nat, id : IDs]
    /\ IDs # {}

VARIABLES
    table,      \* the weights of the daemon's EVStateTable
    daemon,     \* its snapshot thread: "up", "stopping" (it is to end the publish
                \* under way), "last" (one more publish), "down"
    pub,        \* the grid being written to the temporary file, or None
    snap,       \* the grid in the snapshot file, or None
    newer,      \* os.stat would give an mtime above _last_mtime
    moved,      \* the file was replaced since the refresh thread's stat
    glitches,   \* failures so far
    refresh,    \* the refresh thread: "idle", "statted", "swapped"
    ready,      \* the constructor's own refresh is done
    wgrid,      \* the policy's grid and its id
    cache,      \* id -> the grid whose CDF is cached under it, or None
    held        \* the grid a pick captured, or None

daemonVars == <<table, daemon, pub>>
fileVars == <<snap, newer, moved, glitches>>
policyVars == <<refresh, ready, wgrid, cache, held>>
filesVars == <<vars, daemonVars, fileVars, policyVars>>

NoCDFs == [i \in IDs |-> None]

\* MrcSnapshot.__init__(): a uniform grid, whatever its id.
NewGrid == [grid |-> Cold, id |-> CHOOSE i \in IDs : TRUE]

FilesInit ==
    /\ Init
    /\ table = First /\ daemon = "up" /\ pub = None
    /\ snap = IF before = Zero THEN None ELSE Earlier
    /\ newer = FALSE /\ moved = FALSE /\ glitches = 0
    /\ refresh = "idle" /\ ready = FALSE
    /\ wgrid = NewGrid /\ cache = NoCDFs /\ held = None

\* One more failure.
Glitch == glitches < MaxGlitches /\ glitches' = glitches + 1

-----------------------------------------------------------------------------
(***************************************************************************)
(* The daemon                                                              *)
(***************************************************************************)

\* Probes and loss reports change the weights (see EVState).
Reweigh ==
    /\ daemon # "down" /\ table < MaxGrids
    /\ table' = table + 1
    /\ UNCHANGED <<vars, daemon, pub, fileVars, policyVars>>

\* _publish_all_snapshots(): table.snapshot(), then the temporary file.
Snapshot ==
    /\ daemon # "down" /\ pub = None
    /\ pub' = table
    /\ UNCHANGED <<vars, table, daemon, fileVars, policyVars>>

\* The loop waits for its next round; if stop() came during the publish it falls
\* through to the last one, after which the thread ends.
NextRound ==
    CASE daemon = "up"       -> "up"
      [] daemon = "stopping" -> "last"
      [] OTHER               -> "down"

Published ==
    /\ pub # None /\ pub' = None
    /\ daemon' = NextRound

\* Moving the file into place advances its mtime, save for two files within one
\* tick of the file system and for a clock that is set back.
PublishSnapshot ==
    /\ Published
    /\ snap' = pub
    /\ \/ newer' = TRUE /\ moved' = (refresh = "statted")
          /\ UNCHANGED glitches
       \/ Glitch /\ UNCHANGED <<newer, moved>>
    /\ UNCHANGED <<vars, table, policyVars>>

\* An OSError leaves the old file.
PublishFails ==
    /\ Published
    /\ Glitch
    /\ UNCHANGED <<vars, table, snap, newer, moved, policyVars>>

\* stop(): a loop that waits returns at once, without a last publish; one that
\* publishes ends that and publishes once more, as does one that has published
\* and not yet looked at the event.  The orchestrator stops a daemon when a sender
\* of its host has ended, or could not be started.
DaemonStop ==
    /\ daemon = "up" /\ writer = "off"
    /\ daemon' \in IF pub = None THEN {"down", "last"} ELSE {"stopping"}
    /\ UNCHANGED <<vars, table, pub, fileVars, policyVars>>

-----------------------------------------------------------------------------
(***************************************************************************)
(* The policy in the sender's process                                      *)
(***************************************************************************)

\* Mutant: what was there before the policy is taken as seen.
UnseenAtStart_SinceNow == FALSE

\* _last_mtime begins as 0.
UnseenAtStart == snap # None

\* A new process: no mtime seen yet.  The orchestrator starts a run's senders
\* when its daemons are up, and stops those after them.
StartSender ==
    /\ Start
    /\ daemon = "up"
    /\ newer' = UnseenAtStart
    /\ UNCHANGED <<daemonVars, snap, moved, glitches, policyVars>>

Alive == writer # "off"

\* _refresh_once(): no file, or none that is newer; the first call ends the
\* constructor.
RefreshNothing ==
    /\ Alive /\ refresh = "idle" /\ ~newer
    /\ ~ready /\ ready' = TRUE
    /\ UNCHANGED <<vars, daemonVars, fileVars, refresh, wgrid, cache, held>>

RefreshStat ==
    /\ Alive /\ refresh = "idle" /\ newer
    /\ refresh' = "statted"
    /\ UNCHANGED <<vars, daemonVars, fileVars, ready, wgrid, cache, held>>

\* _last_mtime becomes the mtime of the stat, so a file moved into place since
\* then is read again.
StillNewer == moved

\* The file is read, turned into a grid, whose id is none in use, and swapped in.
\* (What falls between the read and the swap might as well come after both.)
RefreshSwap ==
    /\ Alive /\ refresh = "statted"
    /\ refresh' = "swapped"
    /\ \E i \in IDs \ ({wgrid.id} \cup IF held = None THEN {} ELSE {held.id}) :
           wgrid' = [grid |-> snap, id |-> i]
    /\ newer' = StillNewer /\ moved' = FALSE
    /\ UNCHANGED <<vars, daemonVars, snap, glitches, ready, cache, held>>

\* A failed read keeps the grid and the mtime.
Kept == wgrid

\* Mutant: the error is none of those caught, and ends the thread.
AfterError_Dead == "dead"

AfterError == "idle"

RefreshFails ==
    /\ Alive /\ refresh = "statted"
    /\ Glitch
    /\ refresh' = AfterError /\ ready' = TRUE
    /\ wgrid' = Kept /\ moved' = FALSE
    /\ UNCHANGED <<vars, daemonVars, snap, newer, cache, held>>

\* Mutant: the CDFs of former grids are kept.
Cleared_Never == cache

Cleared == NoCDFs

RefreshClear ==
    /\ Alive /\ refresh = "swapped"
    /\ refresh' = "idle" /\ ready' = TRUE
    /\ cache' = Cleared
    /\ UNCHANGED <<vars, daemonVars, fileVars, wgrid, held>>

\* pick_ev(): reads the grid once,
Capture ==
    /\ writer = "up" /\ ready /\ held = None
    /\ held' = wgrid
    /\ UNCHANGED <<vars, daemonVars, fileVars, refresh, ready, wgrid, cache>>

\* and looks its CDF up or builds and stores it; the packet goes out on the EV
\* drawn from it.
Lookup ==
    /\ writer = "up" /\ held # None /\ held' = None
    /\ cache' = [cache EXCEPT ![held.id] = IF @ = None THEN held.grid ELSE @]
    /\ UNCHANGED <<vars, daemonVars, fileVars, refresh, ready, wgrid>>

\* progress_cb counts a packet that has gone out; of those beyond MaxSent the
\* picks go on.
Send(e) ==
    /\ ready /\ Record(e)
    /\ UNCHANGED <<daemonVars, fileVars, policyVars>>

\* The counting side of the process, and the daemon's reads.
Counting ==
    /\ Copy \/ Stop \/ (daemon # "down" /\ Read)
    /\ UNCHANGED <<daemonVars, fileVars, policyVars>>

\* The policy ends with its process.
Ending ==
    /\ Replace \/ Kill
    /\ IF writer' = "off"
         THEN /\ refresh' = "idle" /\ ready' = FALSE
              /\ moved' = FALSE
              /\ wgrid' = NewGrid /\ cache' = NoCDFs /\ held' = None
         ELSE UNCHANGED <<policyVars, moved>>
    /\ UNCHANGED <<daemonVars, snap, newer, glitches>>

-----------------------------------------------------------------------------
Publish == Snapshot \/ PublishSnapshot \/ PublishFails

Refresh ==
    \/ RefreshNothing \/ RefreshStat
    \/ RefreshFails \/ RefreshSwap \/ RefreshClear

FilesNext ==
    \/ Reweigh \/ Publish \/ DaemonStop
    \/ StartSender \/ Refresh
    \/ Capture \/ Lookup \/ \E e \in EV : Send(e)
    \/ Counting \/ Ending

FilesSpec ==
    FilesInit /\ [][FilesNext]_filesVars
              /\ WF_filesVars(Publish) /\ WF_filesVars(Refresh)

-----------------------------------------------------------------------------
\* "A cache hit guarantees the CDF matches the current weights"
\* (policy.py:627-629), save in the moment between the swap of a grid and the
\* clearing of the cache: a pick overtaken by a refresh may store the CDF of a
\* freed grid, whose id a later grid may be given.
CacheFresh ==
    refresh # "swapped" => cache[wgrid.id] \in {None, wgrid.grid}

\* No publish is missed: when the file's mtime is not above the last one loaded,
\* and every publish so far advanced it, the sender's weights are the file's, even
\* if a publish landed between the stat and the swap of a refresh.
NoneMissed ==
    Alive /\ ready /\ refresh = "idle" /\ ~newer /\ glitches = 0 =>
        wgrid.grid = IF snap = None THEN Cold ELSE snap

\* While the daemon and the sender live, the sender ends up spraying by the
\* table's weights: neither a failed write, nor a file that cannot be read, nor an
\* mtime that did not advance keeps them away for good.
WeightsArrive ==
    <>[](writer = "up" /\ daemon = "up") => <>[](wgrid.grid = table)
=============================================================================
