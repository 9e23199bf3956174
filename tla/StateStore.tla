----------------------------- MODULE StateStore -----------------------------
(***************************************************************************)
(* The state store, internal/state/store.go, and State.Update of           *)
(* internal/state/execution.go, as values.  A validator set is known by    *)
(* the height at which its members took effect and by how often its        *)
(* proposer priorities were incremented; consensus params are known by the *)
(* height at which they took effect; the hash of the application by the    *)
(* height it was computed at, 0 for the empty one.                         *)
(***************************************************************************)
EXTENDS Integers, FiniteSets, FiniteSetsExt, Functions, TLC

CONSTANTS valSetCheckpointInterval, \* a set is stored in full at its multiples
          Nil                       \* an absent set or absent params

ASSUME StoreAssumption == valSetCheckpointInterval \in Nat \ {0}

ValidatorSet == [version : Nat, increments : Nat]

IncrementProposerPriority(set, times) == [set EXCEPT !.increments = @ + times]

\* MakeGenesisState.
GenesisState(initialHeight) ==
    LET validators == [version |-> initialHeight, increments |-> 0]
    IN  [InitialHeight                    |-> initialHeight,
         LastBlockHeight                  |-> 0,
         LastValidators                   |-> Nil,
         Validators                       |-> validators,
         NextValidators                   |-> IncrementProposerPriority(validators, 1),
         LastHeightValidatorsChanged      |-> initialHeight,
         ConsensusParams                  |-> initialHeight,
         LastHeightConsensusParamsChanged |-> initialHeight,
         AppHash                          |-> 0]

\* The height of the block that the state is waiting for.
NextHeight(state) ==
    IF state.LastBlockHeight = 0 THEN state.InitialHeight ELSE state.LastBlockHeight + 1

\* State.Update: a change of validators made by block h applies from h + 2, a
\* change of params from h + 1.  ApplyBlock fills in the AppHash before Save.
Update(state, height, res) ==
    [InitialHeight                    |-> state.InitialHeight,
     LastBlockHeight                  |-> height,
     LastValidators                   |-> state.Validators,
     Validators                       |-> state.NextValidators,
     NextValidators                   |->
         IncrementProposerPriority(
             IF res.validators THEN [state.NextValidators EXCEPT !.version = height + 2]
                               ELSE state.NextValidators, 1),
     LastHeightValidatorsChanged      |->
         IF res.validators THEN height + 2 ELSE state.LastHeightValidatorsChanged,
     ConsensusParams                  |->
         IF res.params THEN height + 1 ELSE state.ConsensusParams,
     LastHeightConsensusParamsChanged |->
         IF res.params THEN height + 1 ELSE state.LastHeightConsensusParamsChanged,
     AppHash                          |-> res.appHash]

-----------------------------------------------------------------------------
\* The database: the state under its key, and three tables keyed by height.
NewStore(initialHeight) == [state |-> GenesisState(initialHeight),
                            validators |-> <<>>, params |-> <<>>, responses |-> <<>>]

isCheckpoint(height) == height % valSetCheckpointInterval = 0

validatorsInfo(height, changed, set) ==
    height :> [LastHeightChanged |-> changed,
               ValidatorSet |-> IF height = changed \/ isCheckpoint(height) THEN set ELSE Nil]

consensusParamsInfo(height, changed, params) ==
    height :> [LastHeightChanged |-> changed,
               ConsensusParams   |-> IF height = changed THEN params ELSE Nil]

\* save writes the tables and the state in one batch.
Save(store, state) ==
    LET next  == NextHeight(state)
        first == IF state.LastBlockHeight = 0
                 THEN validatorsInfo(next, next, state.Validators)
                 ELSE <<>>
    IN  [store EXCEPT
          !.state = state,
          !.validators = validatorsInfo(next + 1, state.LastHeightValidatorsChanged,
                                        state.NextValidators) @@ first @@ @,
          !.params = consensusParamsInfo(next, state.LastHeightConsensusParamsChanged,
                                         state.ConsensusParams) @@ @]

\* An answer to FinalizeBlock that encodes to nothing at all.
IsEmpty(res) == ~res.validators /\ ~res.params /\ res.appHash = 0

\* SaveFinalizeBlockResponses: an empty answer is refused, and nothing is stored.
SaveFinalizeBlockResponses(store, height, res) ==
    IF IsEmpty(res) THEN store ELSE [store EXCEPT !.responses = (height :> res) @@ @]

lastStoredHeightFor(height, lastHeightChanged) ==
    Max({height - (height % valSetCheckpointInterval), lastHeightChanged})

\* LoadValidators; Nil stands for its errors.
LoadValidators(store, height) ==
    LET infos == store.validators
        at    == lastStoredHeightFor(height, infos[height].LastHeightChanged)
    IN  IF height \notin DOMAIN infos THEN Nil
        ELSE IF infos[height].ValidatorSet # Nil THEN infos[height].ValidatorSet
        ELSE IF at \notin DOMAIN infos \/ infos[at].ValidatorSet = Nil THEN Nil
        ELSE IncrementProposerPriority(infos[at].ValidatorSet, height - at)

LoadConsensusParams(store, height) ==
    LET infos == store.params
        at    == infos[height].LastHeightChanged
    IN  IF height \notin DOMAIN infos THEN Nil
        ELSE IF infos[height].ConsensusParams # Nil THEN infos[height].ConsensusParams
        ELSE IF at \notin DOMAIN infos THEN Nil
        ELSE infos[at].ConsensusParams

-----------------------------------------------------------------------------
\* Rollback: the state at the height before, put together from the latest state
\* and the history, with the hash that the header of its last block has.  It is
\* only possible while that history can be loaded.
CanRollback(store) ==
    LET back == store.state.LastBlockHeight - 1
    IN  LoadValidators(store, back) # Nil /\ LoadConsensusParams(store, back + 1) # Nil

RolledBack(store, appHash) ==
    LET latest == store.state
        back   == latest.LastBlockHeight - 1
    IN  [InitialHeight                    |-> latest.InitialHeight,
         LastBlockHeight                  |-> back,
         LastValidators                   |-> LoadValidators(store, back),
         Validators                       |-> latest.LastValidators,
         NextValidators                   |-> latest.Validators,
         LastHeightValidatorsChanged      |->
             Min({latest.LastHeightValidatorsChanged, back + 1}),
         ConsensusParams                  |-> LoadConsensusParams(store, back + 1),
         LastHeightConsensusParamsChanged |->
             Min({latest.LastHeightConsensusParamsChanged, back + 1}),
         AppHash                          |-> appHash]

-----------------------------------------------------------------------------
\* The keys of each table that PruneStates(retain) deletes.  The entry that the
\* entry at the retain height refers to stays.  PruneStates gives up, and keeps
\* this table and the later ones, when it cannot resolve the entry at retain.
prunableParams(store, retain) ==
    IF LoadConsensusParams(store, retain) = Nil THEN {}
    ELSE {h \in DOMAIN store.params :
             h < retain /\ h # store.params[retain].LastHeightChanged}

resolved(store, retain) ==
    LoadConsensusParams(store, retain) # Nil /\ LoadValidators(store, retain) # Nil

\* Mutant: the checkpoint that the retain height refers to is pruned.
prunableValidatorsNoCheckpoint(store, retain) ==
    IF ~resolved(store, retain) THEN {}
    ELSE {h \in DOMAIN store.validators :
             h < retain /\ h # store.validators[retain].LastHeightChanged}

prunableValidators(store, retain) ==
    IF ~resolved(store, retain) THEN {}
    ELSE LET recorded ==
                 lastStoredHeightFor(retain, store.validators[retain].LastHeightChanged)
         IN  {h \in DOMAIN store.validators : h < retain /\ h # recorded}

prunableResponses(store, retain) ==
    IF ~resolved(store, retain) THEN {} ELSE {h \in DOMAIN store.responses : h < retain}

\* The at most n highest of the keys: one batch of pruneRange.
highest(keys, n) == {k \in keys : Cardinality({j \in keys : j >= k}) <= n}

drop(table, keys) == Restrict(table, DOMAIN table \ keys)

UnprunedStates(store, retain) ==
    prunableParams(store, retain) \union prunableValidators(store, retain)
        \union prunableResponses(store, retain) # {}

\* Params go first, then validator sets, then responses, n keys a batch.
PruneStatesBatch(store, retain, n) ==
    LET params     == highest(prunableParams(store, retain), n)
        validators == highest(prunableValidators(store, retain), n)
        responses  == highest(prunableResponses(store, retain), n)
    IN  IF params # {} THEN [store EXCEPT !.params = drop(@, params)]
        ELSE IF validators # {} THEN [store EXCEPT !.validators = drop(@, validators)]
        ELSE [store EXCEPT !.responses = drop(@, responses)]
=============================================================================
