----------------------------- MODULE MCRecovery -----------------------------
(***************************************************************************)
(* Small chains for Recovery: nothing changes and the state may be rolled  *)
(* back, with or without its block; validators and params change once;     *)
(* both change in adjacent blocks; nothing changes and consensus gets      *)
(* messages; a block gets an empty response; the chain starts at height 3. *)
(***************************************************************************)
EXTENDS Recovery

MCChain(validatorsChange, paramsChange, rollback) ==
    [initial |-> 1, empty |-> {}, validators |-> validatorsChange, params |-> paramsChange,
     rollback |-> rollback, prompt |-> FALSE, height |-> 4, messages |-> 0, files |-> 1]

MCMessages(n, files) ==
    [MCChain({}, {}, "never") EXCEPT !.prompt = TRUE, !.height = 2, !.messages = n, !.files = files]

MCChains == {MCChain({}, {2}, "state"), MCChain({1}, {2}, "never"), MCChain({1, 2}, {1, 2}, "never"),
             MCChain({}, {2}, "block"),
             MCMessages(3, 2), MCMessages(2, 3),
             [MCChain({}, {}, "never") EXCEPT !.empty = {2}, !.height = 3],
             [MCChain({3}, {3}, "never") EXCEPT !.initial = 3]}
=============================================================================
