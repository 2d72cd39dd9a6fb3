---------------------------- MODULE AddressLinks ----------------------------
(***************************************************************************)
(* AddressLinks of explorer/links.py: the snapshot `address_links' that     *)
(* names the owners of addresses, kept by the indexer thread after each     *)
(* tick and rebuilt by HTTP threads when there is no snapshot yet or when   *)
(* the relay's list of platform addresses has just been loaded.             *)
(*                                                                          *)
(* The snapshot is modelled by what it was computed from: a set of pairs    *)
(* <<block, part>>, where the part "spend" is what the inputs of the block  *)
(* say and "change" what its outputs say, and the blocks along which the    *)
(* paths of owner tokens were followed.  Labels for change are made only    *)
(* once the relay's list is known; paths are followed by full rebuilds      *)
(* only.  Heights count from one; `built' is -1 when nothing was built.     *)
(* What a label says, wallet links, which like the paths are left to full   *)
(* rebuilds, and transactions of the mempool are left out.                  *)
(***************************************************************************)
EXTENDS Integers, Sequences, SequencesExt

CONSTANTS
    Http,       \* the HTTP threads
    Nobody,     \* holder of the lock when it is free
    Batch,      \* batch_size: blocks a tick indexes
    Depth,      \* blocks a rewind drops
    MaxBlocks,  \* bound on the blocks ever indexed
    MaxRewinds, \* bound on the rewinds
    Faults,     \* the faults that may happen: subset of {"tick", "refresh", "http"}
    MaxFaults   \* bound on their number

ASSUME LinksAssumption ==
    /\ Nobody \notin Http
    /\ Batch \in Nat \ {0} /\ Depth \in Nat \ {0}
    /\ MaxBlocks \in Nat /\ MaxRewinds \in Nat /\ MaxFaults \in Nat
    /\ Faults \subseteq {"tick", "refresh", "http"}

VARIABLES
    chain,      \* the committed blocks, oldest first, numbered as they come
    indexed,    \* blocks indexed so far, the dropped ones included
    links,      \* table address_links: spend and change labels
    paths,      \* table address_links: the blocks its owner paths follow
    built,      \* _built_height
    dirty,      \* _dirty
    due,        \* REFRESH_SECONDS have passed since _built_at
    listed,     \* _relay_platform_ok
    lock,       \* holder of _lock
    ipc, after, \* the indexer thread: its place, and `built' as it read it
    owed,       \* the blocks a rewind dropped, which the node has others for
    hpc, buf,   \* the HTTP threads: their places, and what they have collected,
    trail,      \* for links and for paths
    rewinds, faults,
    rewound     \* history: since the last full rebuild by the indexer there was
                \* no rewind, one, or one and growth that was absorbed

snapshot == <<links, paths, built, dirty, due>>
index == <<chain, indexed, rewinds>>
indexer == <<ipc, after, owed, rewound>>
http == <<hpc, buf, trail>>
vars == <<index, snapshot, listed, lock, indexer, http, faults>>

Height == Len(chain)
Parts == IF listed THEN {"spend", "change"} ELSE {"spend"}

Init ==
    /\ chain = <<>> /\ indexed = 0 /\ rewinds = 0 /\ faults = 0
    /\ links = {} /\ paths = {} /\ built = -1 /\ dirty = TRUE /\ due = FALSE
    /\ listed = FALSE
    /\ lock = Nobody
    /\ ipc = "sleep" /\ after = 0 /\ owed = 0 /\ rewound = "no"
    /\ hpc = [h \in Http |-> "idle"]
    /\ buf = [h \in Http |-> {}] /\ trail = [h \in Http |-> {}]

Fault(f) == f \in Faults /\ faults < MaxFaults /\ faults' = faults + 1

-------------------------------------------------------------------------------
(* The indexer thread.                                                     *)

\* tick finds its last block off the node's chain: _rewind, which commits.  The
\* node answered for the height of that block, so it has as many blocks again.
TickRewinds ==
    LET drop == IF Height > Depth THEN Depth ELSE Height IN
    /\ ipc = "sleep" /\ Height > 0
    /\ rewinds < MaxRewinds /\ indexed + Batch <= MaxBlocks
    /\ chain' = SubSeq(chain, 1, Height - drop)
    /\ rewinds' = rewinds + 1
    /\ owed' = IF drop < Batch THEN drop ELSE Batch
    /\ rewound' = IF rewound = "no" THEN "yes" ELSE rewound
    /\ ipc' = "batch"
    /\ UNCHANGED <<indexed, snapshot, listed, lock, after, http, faults>>

\* The n blocks of a tick.
AddBlocks(n) ==
    /\ ipc \in {"sleep", "batch"}
    /\ indexed + n <= MaxBlocks
    /\ chain' = chain \o [i \in 1 .. n |-> indexed + i]
    /\ indexed' = indexed + n
    /\ owed' = 0
    /\ UNCHANGED <<rewinds, snapshot, listed, lock, after, rewound, http>>

\* The batch of a tick, committed; with nothing to index invalidate is left out.
TickIndexes(n) ==
    /\ AddBlocks(n)
    /\ n >= owed
    /\ ipc' = IF n > 0 THEN "invalidate" ELSE "decide"
    /\ UNCHANGED faults

\* A call to the node fails within the batch: the loop sleeps without the
\* refresh, and the next tick commits the blocks of the batch.
TickFails(n) ==
    /\ AddBlocks(n)
    /\ Fault("tick")
    /\ ipc' = "sleep"

\* invalidate
Invalidate ==
    /\ ipc = "invalidate"
    /\ lock = Nobody
    /\ dirty' = TRUE
    /\ ipc' = "decide"
    /\ UNCHANGED <<index, links, paths, built, due, listed, lock, after, owed, rewound, http, faults>>

\* Mistakes: the timer is not looked at, or a rewritten height is not.
NeedsFullNoTimer == built < 0 \/ ~listed \/ Height < built \/ (dirty /\ Height <= built)
NeedsFullNotDirty == built < 0 \/ ~listed \/ Height < built \/ due

\* refresh_index, the tests for a full rebuild.
NeedsFull ==
    \/ built < 0
    \/ ~listed
    \/ Height < built
    \/ due
    \/ dirty /\ Height <= built

\* refresh_index, the decision; it reads the fields under the lock and lets go
\* of it.
Decide ==
    /\ ipc = "decide"
    /\ lock = Nobody
    /\ after' = built
    /\ ipc' = IF NeedsFull THEN "full" ELSE IF Height > built THEN "absorb" ELSE "sleep"
    /\ UNCHANGED <<index, snapshot, listed, lock, owed, rewound, http, faults>>

\* The relay answers with a list of platform addresses, or does not.
RelayAnswers == listed' \in {listed, TRUE}

\* rebuild in the indexer thread.  The blocks stand still meanwhile, since this
\* thread is the one that writes them, and the lock keeps other threads away
\* from the snapshot: one step.
Rebuild ==
    /\ ipc = "full"
    /\ lock = Nobody
    /\ RelayAnswers
    /\ links' = ToSet(chain) \X (IF listed' THEN {"spend", "change"} ELSE {"spend"})
    /\ paths' = ToSet(chain)
    /\ built' = Height /\ dirty' = FALSE /\ due' = FALSE
    /\ rewound' = "no"
    /\ ipc' = "sleep"
    /\ UNCHANGED <<index, lock, after, owed, http, faults>>

\* What _absorb_new adds: the spend and change labels of the blocks above
\* `after_height'.  Owner paths it leaves to the next full rebuild.
NewParts == {chain[i] : i \in {j \in 1 .. Height : j > after}} \X Parts

\* _absorb_new; one step for the same reason.
Absorb ==
    /\ ipc = "absorb"
    /\ lock = Nobody
    /\ links' = links \cup NewParts
    /\ built' = Height /\ dirty' = FALSE
    /\ rewound' = IF rewound = "no" THEN "no" ELSE "absorbed"
    /\ ipc' = "sleep"
    /\ UNCHANGED <<index, paths, due, listed, lock, after, owed, http, faults>>

\* The refresh raises (the database is locked, for one): tick rolls it back.
RefreshFails ==
    /\ ipc \in {"full", "absorb"}
    /\ lock = Nobody
    /\ Fault("refresh")
    /\ listed' \in IF ipc = "full" THEN {listed, TRUE} ELSE {listed}
    /\ ipc' = "sleep"
    /\ UNCHANGED <<index, snapshot, lock, after, owed, rewound, http>>

-------------------------------------------------------------------------------
(* The HTTP threads.                                                       *)

At(h, place) == hpc' = [hpc EXCEPT ![h] = place]

\* Mistake: the rebuild after the list has loaded is not forced.
EnsureFreshUnforced(h) ==
    /\ hpc[h] = "idle"
    /\ ~(built >= 0 /\ listed)
    /\ IF built >= 0 THEN RelayAnswers ELSE UNCHANGED listed
    /\ At(h, IF built < 0 \/ listed' THEN "enter" ELSE "idle")
    /\ UNCHANGED <<index, snapshot, lock, indexer, buf, trail, faults>>

\* ensure_fresh, which takes no lock: with a snapshot but no list it asks the
\* relay, and rebuilds for good when that answers.
EnsureFresh(h) ==
    /\ hpc[h] = "idle"
    /\ ~(built >= 0 /\ listed)
    /\ IF built >= 0 THEN RelayAnswers ELSE UNCHANGED listed
    /\ At(h, IF built < 0 THEN "enter" ELSE IF listed' THEN "force" ELSE "idle")
    /\ UNCHANGED <<index, snapshot, lock, indexer, buf, trail, faults>>

\* rebuild, when another thread has done it meanwhile.
SkipRebuild(h) ==
    /\ hpc[h] = "enter" /\ lock = Nobody
    /\ ~dirty /\ built = Height /\ listed
    /\ At(h, "idle")
    /\ UNCHANGED <<index, snapshot, listed, lock, indexer, buf, trail, faults>>

\* rebuild takes the lock and asks the relay.
EnterRebuild(h) ==
    /\ lock = Nobody
    /\ \/ hpc[h] = "enter" /\ ~(~dirty /\ built = Height /\ listed)
       \/ hpc[h] = "force"
    /\ lock' = h
    /\ RelayAnswers
    /\ At(h, "paths")
    /\ UNCHANGED <<index, snapshot, indexer, buf, trail, faults>>

\* It follows the owner tokens, reads the inputs, the outputs, and the inputs
\* again: statements of their own, and the indexer may commit between them.
ReadPaths(h) ==
    /\ hpc[h] = "paths"
    /\ trail' = [trail EXCEPT ![h] = ToSet(chain)]
    /\ At(h, "spends")
    /\ UNCHANGED <<index, snapshot, listed, lock, indexer, buf, faults>>
ReadSpends(h) ==
    /\ hpc[h] = "spends"
    /\ buf' = [buf EXCEPT ![h] = ToSet(chain) \X {"spend"}]
    /\ At(h, "changes")
    /\ UNCHANGED <<index, snapshot, listed, lock, indexer, trail, faults>>
ReadChanges(h) ==
    /\ hpc[h] = "changes"
    /\ buf' = [buf EXCEPT ![h] = @ \cup ToSet(chain) \X (Parts \ {"spend"})]
    /\ At(h, "again")
    /\ UNCHANGED <<index, snapshot, listed, lock, indexer, trail, faults>>
ReadAgain(h) ==
    /\ hpc[h] = "again"
    /\ buf' = [buf EXCEPT ![h] = @ \cup ToSet(chain) \X {"spend"}]
    /\ At(h, "write")
    /\ UNCHANGED <<index, snapshot, listed, lock, indexer, trail, faults>>

\* It replaces the table and commits; then it reads the height again.
Write(h) ==
    /\ hpc[h] = "write"
    /\ links' = buf[h] /\ paths' = trail[h]
    /\ buf' = [buf EXCEPT ![h] = {}] /\ trail' = [trail EXCEPT ![h] = {}]
    /\ At(h, "finish")
    /\ UNCHANGED <<index, built, dirty, due, listed, lock, indexer, faults>>
Finish(h) ==
    /\ hpc[h] = "finish"
    /\ built' = Height /\ dirty' = FALSE /\ due' = FALSE
    /\ lock' = Nobody
    /\ At(h, "idle")
    /\ UNCHANGED <<index, links, paths, listed, indexer, buf, trail, faults>>

\* The rebuild raises before its commit (the database is locked: the indexer
\* holds it for longer than the timeout).
RebuildFails(h) ==
    /\ hpc[h] \in {"paths", "spends", "changes", "again", "write"}
    /\ Fault("http")
    /\ buf' = [buf EXCEPT ![h] = {}] /\ trail' = [trail EXCEPT ![h] = {}]
    /\ lock' = Nobody
    /\ At(h, "idle")
    /\ UNCHANGED <<index, snapshot, listed, indexer>>

-------------------------------------------------------------------------------

\* REFRESH_SECONDS pass.
Timer ==
    /\ built >= 0 /\ ~due
    /\ due' = TRUE
    /\ UNCHANGED <<index, links, paths, built, dirty, listed, lock, indexer, http, faults>>

Refresh == Invalidate \/ Decide \/ Rebuild \/ Absorb
Tick == TickRewinds \/ \E n \in 0 .. Batch : TickIndexes(n) \/ TickFails(n)
Reads(h) == ReadPaths(h) \/ ReadSpends(h) \/ ReadChanges(h) \/ ReadAgain(h)
Serve(h) == SkipRebuild(h) \/ EnterRebuild(h) \/ Reads(h) \/ Write(h) \/ Finish(h)

Next ==
    \/ Tick \/ Refresh \/ RefreshFails \/ Timer
    \/ \E h \in Http : EnsureFresh(h) \/ Serve(h) \/ RebuildFails(h)

Spec == Init /\ [][Next]_vars

\* The threads run, the loop comes back to tick, and time passes.  Which of the
\* waiting threads gets the lock is left open.
FairSpec ==
    /\ Spec
    /\ WF_vars(Refresh) /\ WF_vars(\E n \in 0 .. Batch : TickIndexes(n))
    /\ WF_vars(Timer)
    /\ \A h \in Http : WF_vars(Reads(h) \/ Write(h) \/ Finish(h))

-------------------------------------------------------------------------------

\* The labels of the blocks as they are, and along no other blocks.
Exact == links = ToSet(chain) \X Parts /\ paths \subseteq ToSet(chain)

\* Between ticks and with no rebuild under way a snapshot that was built has the
\* spend and change labels of the indexed blocks, and no owner path along a block
\* that was dropped, whatever the order in which the indexer's commit, invalidate
\* and refresh_index fell among the steps of a page's rebuild.  Two things break
\* it until the timer: a fault, and growth that follows a rewind within one tick,
\* see NoDropped.  Owner paths along new blocks wait for the timer at all times.
Settled == ipc = "sleep" /\ built >= 0 /\ \A h \in Http : hpc[h] = "idle"
SettledExact == Settled /\ faults = 0 /\ rewound # "absorbed" => Exact

\* "The first build after the relay list finally loads, still walk the chain so
\* change labels can use the list": once the list is there, no block's outputs
\* stay out of the snapshot.
ListUsed == Settled /\ faults = 0 /\ listed =>
    \A b \in ToSet(chain) : <<b, "spend">> \in links => <<b, "change">> \in links

\* refresh_index: "Full rebuild when ... the chain rewound ... or the same height
\* was rewritten": no dropped block is left in the snapshot.
NoDropped == Settled => \A p \in links : p[1] \in ToSet(chain)

\* Whatever goes wrong or was left to it, the timer repairs: once blocks and
\* faults end, the snapshot becomes and stays that of all blocks, paths included.
EventuallyExact == <>[](Exact /\ paths = ToSet(chain))
===============================================================================
