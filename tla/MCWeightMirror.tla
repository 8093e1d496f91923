--------------------------- MODULE MCWeightMirror ---------------------------
(***************************************************************************)
(* One repo with two revisions that share their weights; the second also   *)
(* has a tokenizer.  Going from one to the other adds one blob, orphans    *)
(* one and keeps one, and a first sync at the second transfers two at      *)
(* once.  At most one adapter, which a person may have copied too.         *)
(***************************************************************************)
EXTENDS WeightMirror

CONSTANTS repo, adapters, v1, v2, weights, tokenizer, v1weights, v2weights, v2tokenizer, adapter

MCRepos == {repo}
MCRevs  == {v1, v2}
MCBlobs == {weights, tokenizer}
MCLinks == {v1weights, v2weights, v2tokenizer}
\* The instance for a source that moves under the commands: one revision of
\* two files, so that of the blobs in one transfer one can be right, one wrong.
MCOneRev   == {v2}
MCOneLinks == {v2weights, v2tokenizer}

MCRevOf ==
    [l \in Links |-> IF l = v1weights THEN v1 ELSE v2]
MCTarget ==
    [l \in Links |-> IF l = v2tokenizer THEN tokenizer ELSE weights]
MCGroup ==
    [p \in Blobs \cup Links \cup Revs \cup {repo} \cup Adapters |->
        IF p \in Adapters THEN adapters ELSE repo]

\* "lab mirror sync", and "lab mirror sync <repo>".
MCEverything == {{repo, adapters}}
MCRepoOnly   == {{repo}}
=============================================================================
