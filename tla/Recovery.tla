------------------------------ MODULE Recovery ------------------------------
(***************************************************************************)
(* How a node commits a block and how it finds its way back after a crash: *)
(* finalizeCommit of internal/consensus/state.go, ApplyBlock and           *)
(* pruneBlocks of internal/state/execution.go, and the handshake of        *)
(* internal/consensus/replay.go, over the block store, the state store and *)
(* the application, and how consensus gets back into the height it was in  *)
(* with the WAL.  Each action is the code between two durable effects; a   *)
(* crash may come between any two.  A crash stops the process and not the  *)
(* machine: what was written to a file stays.                              *)
(***************************************************************************)
EXTENDS BlockStore, StateStore, WAL

CONSTANTS Chains,     \* the chains considered: the initial height, which blocks
                      \* change what and which get an empty response, what an
                      \* operator rolls back, whether the application persists
                      \* promptly and keeps all blocks, and as bounds the last
                      \* height, the messages consensus gets and the WAL's files
          MaxCrashes, \* bound: the number of crashes and rollbacks
          Batch       \* keys per pruning batch (1000 in the code)

ASSUME RecoveryAssumption ==
    /\ MaxCrashes \in Nat
    /\ Batch \in Nat \ {0}
    /\ Chains \subseteq [initial : Nat \ {0}, validators : SUBSET Nat,
                         params : SUBSET Nat, empty : SUBSET Nat,
                         rollback : {"never", "state", "block"},
                         prompt : BOOLEAN, height : Nat, messages : Nat, files : Nat]

VARIABLES chain,  \* the chain, one of Chains, fixed
          bs,     \* the block store
          ss,     \* the state store
          wal,    \* the WAL
          cs,     \* consensus in its current height: the messages it handled and
                  \* those it had handled when it last signed; the messages ever
                  \* received; the heights whose end it marked in the WAL; whether
                  \* the WAL was never written to behind a cut record
          app,    \* the application
          proc,   \* where the node is in its code
          crashes \* crashes and rollbacks so far

vars == <<chain, bs, ss, wal, cs, app, proc, crashes>>

InitialHeight == chain.initial

\* What FinalizeBlock answers for a height; an application is deterministic.  Its
\* hash may be empty, and then the whole answer may be.
AppHashAt(height) == IF height \in chain.empty THEN 0 ELSE height

Response(height) == [validators |-> height \in chain.validators,
                     params     |-> height \in chain.params,
                     appHash    |-> AppHashAt(height)]

\* The chain's own history, independent of what the stores hold.
ValidatorsAt(height) ==
    [version    |-> Max({InitialHeight} \union
                        {h + 2 : h \in {k \in chain.validators : k + 2 <= height}}),
     increments |-> height - InitialHeight]

ConsensusParamsAt(height) ==
    Max({InitialHeight} \union {h + 1 : h \in {k \in chain.params : k + 1 <= height}})

At(pc, height) == [pc |-> pc, height |-> height, mock |-> FALSE, retain |-> 0,
                   consensus |-> FALSE]

Failed == At("failed", 0)

\* The handshake is over; the block sync reactor runs until consensus starts.
Syncing == At("syncing", 0)

InConsensus(pc, height) == [At(pc, height) EXCEPT !.consensus = TRUE]

Running == InConsensus("running", 0)

Init ==
    /\ chain \in Chains
    /\ bs = NewBlockStore
    /\ ss = NewStore(InitialHeight)
    /\ wal = NewWAL
    /\ cs = [handled |-> <<>>, signed |-> <<>>, received |-> 0, marked |-> {0}, whole |-> TRUE]
    /\ app = [height |-> 0, persisted |-> 0, finalized |-> 0]
    /\ proc = At("down", 0)
    /\ crashes = 0

-----------------------------------------------------------------------------
\* buildLastCommitInfo panics without the validators of the previous height, or
\* when they are not the ones that signed the last commit.
HasLastCommitInfo(height) ==
    \/ height = InitialHeight
    \/ LET set == LoadValidators(ss, height - 1)
       IN  set # Nil /\ set.version = ValidatorsAt(height - 1).version

\* The application commits what it executed.  It persists now or later.
AppCommit ==
    \E persisted \in {app.finalized} \union (IF chain.prompt THEN {} ELSE {app.persisted}) :
        app' = [height |-> app.finalized, persisted |-> persisted, finalized |-> 0]

\* The block after the application's, or the first one of the chain.
firstBlock == IF app.height = 0 THEN InitialHeight ELSE app.height + 1

\* Mutant: a block that the application committed already is run by it again.
ReplayBlocksRealApp ==
    LET state == ss.state.LastBlockHeight
    IN  IF Height(bs) > 0 /\ Height(bs) = state + 1 /\ app.height \in {state, Height(bs)}
        THEN At("finalize", Height(bs))
        ELSE IF AppHashAt(app.height) = ss.state.AppHash THEN Syncing
        ELSE At("replay", firstBlock)

\* The switch of ReplayBlocks on the heights of the application, the block
\* store and the state, as the place the node goes to.
ReplayBlocks ==
    LET storeBase == Base(bs)
        store     == Height(bs)
        state     == ss.state.LastBlockHeight
        sameHash  == IF AppHashAt(app.height) = ss.state.AppHash THEN Syncing ELSE Failed
    IN  CASE store = 0 -> sameHash
          [] store > 0 /\ \/ app.height = 0 /\ InitialHeight < storeBase
                          \/ app.height > 0 /\ app.height < storeBase - 1
                          \/ store < app.height
                          \/ store < state
                          \/ store > state + 1 -> Failed
          [] store > 0 /\ store = state /\ app.height = store -> sameHash
          [] store > 0 /\ store = state + 1 /\ app.height = state -> At("finalize", store)
          [] store > 0 /\ store = state + 1 /\ app.height = store ->
                 IF store \in DOMAIN ss.responses
                 THEN [At("finalize", store) EXCEPT !.mock = TRUE]
                 ELSE Failed
          [] OTHER -> At("replay", firstBlock)

\* Handshake: InitChain for an application without state, then the switch.
Handshake ==
    /\ proc.pc = "down"
    /\ app' = IF app.height = 0 THEN [app EXCEPT !.finalized = 0] ELSE app
    /\ ss' = IF app.height = 0 /\ ss.state.LastBlockHeight = 0 THEN Save(ss, ss.state) ELSE ss
    /\ proc' = ReplayBlocks
    /\ UNCHANGED <<chain, bs, wal, cs, crashes>>

\* ExecCommitBlock, first half: the block is executed, the state is not touched.
ReplayFinalize ==
    /\ proc.pc = "replay"
    /\ IF HasBlock(bs, proc.height) /\ HasLastCommitInfo(proc.height)
       THEN /\ app' = [app EXCEPT !.finalized = proc.height]
            /\ proc' = [proc EXCEPT !.pc = "replayCommit"]
       ELSE proc' = Failed /\ UNCHANGED app
    /\ UNCHANGED <<chain, bs, ss, wal, cs, crashes>>

\* Where replayBlocks goes after a block: to the next one, to replayBlock for a
\* block that the state lacks, or to the comparison of hashes.
afterReplayed(height) ==
    IF height < ss.state.LastBlockHeight THEN At("replay", height + 1)
    ELSE IF height < Height(bs) THEN At("finalize", height + 1)
    ELSE IF AppHashAt(height) = ss.state.AppHash THEN Syncing ELSE Failed

\* ExecCommitBlock, second half.
ReplayCommit ==
    /\ proc.pc = "replayCommit"
    /\ AppCommit
    /\ proc' = afterReplayed(proc.height)
    /\ UNCHANGED <<chain, bs, ss, wal, cs, crashes>>

-----------------------------------------------------------------------------
\* finalizeCommit up to the block store.
CommitBlock ==
    LET height == NextHeight(ss.state)
    IN  /\ proc.pc = "running"
        /\ height <= chain.height
        /\ IF CanSaveBlock(bs, height)
           THEN bs' = SaveBlock(bs, height) /\ proc' = InConsensus("endHeight", height)
           ELSE UNCHANGED bs /\ proc' = Failed
        /\ UNCHANGED <<chain, ss, wal, cs, app, crashes>>

\* The end-height marker is fsynced before the block is applied.
WriteEndHeight ==
    /\ proc.pc = "endHeight"
    /\ wal' = WriteSync(wal, EndHeight(proc.height))
    /\ cs' = [cs EXCEPT !.marked = @ \union {proc.height}]
    /\ proc' = InConsensus("finalize", proc.height)
    /\ UNCHANGED <<chain, bs, ss, app, crashes>>

\* The block sync reactor saves a block and applies it without a marker.
SyncBlock ==
    LET height == NextHeight(ss.state)
    IN  /\ proc.pc = "syncing"
        /\ height <= chain.height
        /\ IF CanSaveBlock(bs, height)
           THEN bs' = SaveBlock(bs, height) /\ proc' = At("finalize", height)
           ELSE UNCHANGED bs /\ proc' = Failed
        /\ UNCHANGED <<chain, ss, wal, cs, app, crashes>>

\* Mutant: the application may commit before its response is saved.
FinalizeUnsaved ==
    /\ proc.pc = "finalize"
    /\ app' = IF proc.mock THEN app ELSE [app EXCEPT !.finalized = proc.height]
    /\ proc' = [proc EXCEPT !.pc = "commit"]
    /\ UNCHANGED <<chain, bs, ss, wal, cs, crashes>>

\* ApplyBlock: the block is validated against the state and executed by the
\* application, or by the mock that answers with the saved response.
Finalize ==
    /\ proc.pc = "finalize"
    /\ IF /\ HasBlock(bs, proc.height)
          /\ proc.height = NextHeight(ss.state)
          /\ HasLastCommitInfo(proc.height)
       THEN /\ app' = IF proc.mock THEN app ELSE [app EXCEPT !.finalized = proc.height]
            /\ proc' = [proc EXCEPT !.pc = "responses"]
       ELSE proc' = Failed /\ UNCHANGED app
    /\ UNCHANGED <<chain, bs, ss, wal, cs, crashes>>

\* The response is saved before the application commits.  That an empty one is
\* not saved is no error here.
SaveResponses ==
    /\ proc.pc = "responses"
    /\ ss' = SaveFinalizeBlockResponses(ss, proc.height, Response(proc.height))
    /\ proc' = [proc EXCEPT !.pc = "commit"]
    /\ UNCHANGED <<chain, bs, wal, cs, app, crashes>>

\* The application commits and names a height to retain, at most the height
\* that it would restart from.
Commit ==
    /\ proc.pc = "commit"
    /\ IF proc.mock
       THEN UNCHANGED app /\ proc' = [proc EXCEPT !.pc = "save"]
       ELSE /\ AppCommit
            /\ \E retain \in IF chain.prompt THEN {0} ELSE 0 .. app'.persisted :
                   proc' = [proc EXCEPT !.pc = "save", !.retain = retain]
    /\ UNCHANGED <<chain, bs, ss, wal, cs, crashes>>

\* Where ApplyBlock returns to: consensus, or the handshake and block sync.
Applied == IF proc.consensus THEN Running ELSE Syncing

\* The state is saved and consensus enters the next height; pruneBlocks comes
\* between when it has something to prune.
SaveState ==
    /\ proc.pc = "save"
    /\ LET res == IF proc.mock THEN ss.responses[proc.height] ELSE Response(proc.height)
       IN  ss' = Save(ss, Update(ss.state, proc.height, res))
    /\ proc' = IF proc.retain > Base(bs) THEN [proc EXCEPT !.pc = "prune"] ELSE Applied
    /\ cs' = [cs EXCEPT !.handled = <<>>, !.signed = <<>>]
    /\ UNCHANGED <<chain, bs, wal, app, crashes>>

\* One batch of PruneBlocks.
PruneBlocks ==
    /\ proc.pc = "prune"
    /\ IF Unpruned(bs, proc.retain)
       THEN bs' = PruneBatch(bs, proc.retain, Batch) /\ UNCHANGED proc
       ELSE proc' = [proc EXCEPT !.pc = "pruneStates"] /\ UNCHANGED bs
    /\ UNCHANGED <<chain, ss, wal, cs, app, crashes>>

\* One batch of PruneStates.
PruneStates ==
    /\ proc.pc = "pruneStates"
    /\ IF UnprunedStates(ss, proc.retain)
       THEN ss' = PruneStatesBatch(ss, proc.retain, Batch) /\ UNCHANGED proc
       ELSE proc' = Applied /\ UNCHANGED ss
    /\ UNCHANGED <<chain, bs, wal, cs, app, crashes>>

-----------------------------------------------------------------------------
\* Where the replay of a height starts: behind the marker of the height before.
\* Without that marker, or with one of the height itself, nothing is replayed.
catchupReplay(log, height) ==
    IF SearchForEndHeight(log, height) # 0 THEN Len(log.records)
    ELSE LET marker == SearchForEndHeight(log, IF height = InitialHeight THEN 0 ELSE height - 1)
         IN  IF marker = 0 THEN Len(log.records) ELSE marker

\* State.OnStart: the messages of the height are replayed.  A WAL with an error is
\* repaired once and replayed again, on top of what was handled before the error;
\* a message that consensus has already changes nothing.
StartConsensus ==
    /\ proc.pc \in {"syncing", "repaired"}
    /\ \E opened \in {OpenWAL(wal)} : \E start \in {catchupReplay(opened, NextHeight(ss.state))} :
        LET failed  == CorruptedAfter(opened, start) # 0
            repairs == failed /\ proc.pc = "syncing"
        IN  /\ wal' = IF repairs THEN beginRepair(opened) ELSE opened
            /\ cs' = [cs EXCEPT
                         !.handled = @ \o SelectSeq(Replayed(opened, start),
                                                    LAMBDA m : ~Contains(cs.handled, m)),
                         !.whole = @ /\ (failed \/ ~IsDamaged(opened))]
            /\ proc' = IF ~failed THEN Running
                       ELSE IF repairs THEN At("repair", 0) ELSE Failed
    /\ UNCHANGED <<chain, bs, ss, app, crashes>>

\* The rest of the repair.
RepairWAL ==
    /\ proc.pc = "repair"
    /\ wal' = repairWalFile(wal)
    /\ proc' = At("repaired", 0)
    /\ UNCHANGED <<chain, bs, ss, cs, app, crashes>>

\* Mutant: a vote is signed before the WAL is flushed.
HandleMessageUnflushed ==
    LET handled == Append(cs.handled, cs.received + 1)
    IN  /\ proc.pc = "running"
        /\ cs.received < chain.messages
        /\ wal' = Write(wal, Message(cs.received + 1))
        /\ \E signs \in BOOLEAN :
               cs' = [cs EXCEPT !.received = @ + 1, !.handled = handled,
                                !.signed = IF signs THEN handled ELSE @]
        /\ UNCHANGED <<chain, bs, ss, app, proc, crashes>>

\* receiveRoutine writes a message to the WAL and handles it.  When that makes the
\* node vote or propose, it flushes the WAL before it signs.
HandleMessage ==
    LET written == Write(wal, Message(cs.received + 1))
        handled == Append(cs.handled, cs.received + 1)
    IN  /\ proc.pc = "running"
        /\ cs.received < chain.messages
        /\ \E signs \in BOOLEAN :
               /\ wal' = IF signs THEN FlushAndSync(written) ELSE written
               /\ cs' = [cs EXCEPT !.received = @ + 1, !.handled = handled,
                                   !.signed = IF signs THEN handled ELSE @]
        /\ UNCHANGED <<chain, bs, ss, app, proc, crashes>>

\* processFlushTicks.
FlushTick ==
    /\ proc.consensus
    /\ wal.buf # <<>>
    /\ wal' = FlushAndSync(wal)
    /\ UNCHANGED <<chain, bs, ss, cs, app, proc, crashes>>

\* checkHeadSizeLimit finds a full head.
RotateWAL ==
    /\ proc.consensus
    /\ head(wal) # <<>>
    /\ Len(wal.files) < chain.files
    /\ wal' = rotateFile(wal)
    /\ UNCHANGED <<chain, bs, ss, cs, app, proc, crashes>>

-----------------------------------------------------------------------------
\* The node stops anywhere; the application may stop with it and lose what it
\* had not persisted.
Crash ==
    /\ proc.pc \notin {"down", "failed"}
    /\ crashes < MaxCrashes
    /\ crashes' = crashes + 1
    /\ proc' = At("down", 0)
    /\ app' \in {app, [app EXCEPT !.height = app.persisted, !.finalized = 0]}
    /\ wal' \in IF proc.pc = "repair" THEN StoppedInRepair(wal) ELSE Stopped(wal)
    /\ cs' = [cs EXCEPT !.handled = <<>>, !.whole = @ /\ proc.pc # "repair"]
    /\ UNCHANGED <<chain, bs, ss>>

\* The rollback command, run on a stopped node: a block that the state lacks is
\* dropped, else the state goes back by a block, which is dropped too if asked.
\* The operator rolls the application back to the same height.
Rollback ==
    LET state   == ss.state.LastBlockHeight
        pending == Height(bs) = state + 1
        back    == IF pending THEN state ELSE state - 1
    IN  /\ proc.pc = "down"
        /\ chain.rollback # "never"
        /\ crashes < MaxCrashes
        /\ crashes' = crashes + 1
        /\ ~pending => {back, state} \subseteq bs.metas /\ CanRollback(ss)
        /\ ss' = IF pending THEN ss ELSE Save(ss, RolledBack(ss, AppHashAt(back)))
        /\ bs' = IF chain.rollback = "block" THEN DeleteLatestBlock(bs) ELSE bs
        /\ app' = [height |-> Min({back, app.height}), persisted |-> Min({back, app.persisted}),
                   finalized |-> 0]
        /\ UNCHANGED <<chain, wal, cs, proc>>

Step == \/ Handshake \/ ReplayFinalize \/ ReplayCommit
        \/ SyncBlock \/ StartConsensus \/ RepairWAL
        \/ CommitBlock \/ WriteEndHeight
        \/ Finalize \/ SaveResponses \/ Commit \/ SaveState
        \/ PruneBlocks \/ PruneStates

Next == Step \/ HandleMessage \/ FlushTick \/ RotateWAL \/ Crash \/ Rollback

Spec == Init /\ [][Next]_vars

\* The node's code runs on while it is up.
FairSpec == Spec /\ WF_vars(Step)

-----------------------------------------------------------------------------
\* The application executes the blocks one after the other: a block is given to
\* it only on top of the one it committed last, never a second time and never
\* with one left out, across crashes of either side ("we don't want to call
\* Commit() twice for the same block", replay_stubs.go).
ExecutesInOrder ==
    [][app'.finalized # app.finalized /\ app'.finalized # 0
           => app'.finalized = firstBlock]_vars

\* The three places in which the code leaves a node that cannot start again: the
\* application committed a block and the state was not saved, and the response of
\* that block was empty and so not stored (ReplayBlocks does not find it); the first
\* block of a chain whose initial height is above 1 was saved and its state was not
\* (it is more than one ahead of height 0); and a record cut within its first four
\* bytes, which reads as the end of the log, is in a file that is not the head
\* (the repair rewrites only the head).
Unrecoverable ==
    \/ /\ Height(bs) \in chain.empty
       /\ Height(bs) = NextHeight(ss.state)
       /\ app.height = Height(bs)
    \/ InitialHeight > 1 /\ ss.state.LastBlockHeight = 0 /\ Height(bs) = InitialHeight
    \/ \E record \in Range(SubSeq(wal.records, 1, Last(wal.files) - 1)) :
           record.type = "torn" /\ record.cut = "checksum"

\* Wherever the node and the application stop, except in the three places above,
\* the handshake (replay.go) brings them back: none of its error returns, none of
\* the panics of buildLastCommitInfo, SaveBlock and ValidateBlock and no refusal of
\* a repaired WAL is reached.  When the handshake or ApplyBlock is over, the application, the block store and the state are at
\* the same height and the state is the one that the chain prescribes for it.
\* The WAL has no end-height marker of the height that consensus then runs, so
\* catchupReplay never gives up with "wal should not contain #ENDHEIGHT": the
\* marker is written after the block is saved and the handshake applies every
\* saved block, unless an operator has removed it again.
HandshakeRecovers ==
    LET height == ss.state.LastBlockHeight
        next   == NextHeight(ss.state)
    IN  /\ proc.pc = "failed" => Unrecoverable
        /\ proc.pc \in {"syncing", "running"} =>
            /\ chain.rollback # "block" => next \notin cs.marked
            /\ app.height = height
            /\ Height(bs) = height
            /\ ss.state.AppHash = AppHashAt(height)
            /\ height > 0 => ss.state.LastValidators = ValidatorsAt(height)
            /\ ss.state.Validators = ValidatorsAt(next)
            /\ ss.state.NextValidators = ValidatorsAt(next + 1)
            /\ ss.state.ConsensusParams = ConsensusParamsAt(next)

\* A node that signed is brought back by catchupReplay to where it signed: the
\* messages it had handled by then are handled again, first and in order, before
\* anything new ("Otherwise, we may not recompute the same vote to sign",
\* signVote).  This needs the end of the height before to be marked, which a node
\* that synced it or stopped before the marker lacks; no writes behind a cut
\* record; and in the first height, where marker 0 begins every file, one file.
SignedIsReplayed ==
    LET last == NextHeight(ss.state) - 1
    IN  /\ proc.pc = "running"
        /\ cs.whole
        /\ IF last < InitialHeight THEN Len(wal.files) = 1 ELSE last \in cs.marked
        => IsPrefix(cs.signed, cs.handled)

\* The validators and params of every height that the block store still has,
\* and of the heights to come that are already fixed, can be loaded and are the
\* ones of the chain, whatever was pruned and wherever pruning was interrupted.
HistoryLoadable ==
    LET next == NextHeight(ss.state)
        from == IF bs.metas = {} THEN next ELSE Base(bs)
    IN  DOMAIN ss.validators # {} =>
            /\ \A h \in from .. next + 1 : LoadValidators(ss, h) = ValidatorsAt(h)
            /\ \A h \in from .. next : LoadConsensusParams(ss, h) = ConsensusParamsAt(h)

\* Every crash is recovered from and the chain goes on to its last height, unless
\* the node stopped for good in one of the three places named above.
ChainGoesOn == <>(\/ proc.pc = "running" /\ ss.state.LastBlockHeight = chain.height
                  \/ proc.pc = "failed" /\ Unrecoverable)
=============================================================================
