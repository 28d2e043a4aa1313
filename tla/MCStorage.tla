----------------------------- MODULE MCStorage -----------------------------
(* The storage layer for TLC: each behaviour exercises one of its parts.    *)
EXTENDS Engines, MergeOps, Codec, TLC

CONSTANT Parts

VARIABLE part

MCMergeBases == {NoMeta, AsString(NoMeta, <<"i", <<6>>>>), [AsString(NoMeta, <<"s", <<11>>>>) EXCEPT !.ttl = 2], Fresh("list", 1)}
MCOperands == {<<"incr", 1>>, <<"incrby", 2>>, <<"decr", 0>>, <<"decrby", 2>>, <<"append", <<11>>>>, <<"setnx", <<2>>>>,
               <<"setnx", <<11>>>>, <<"setxx", <<3>>>>, <<"setxx", <<12>>>>, <<"psetex", <<4>>>>, <<"setrange", <<5>>>>,
               <<"pexpireat", 2>>, <<"pexpireat", 3>>}
MCDatas == {NilData, IntData(-8), IntData(4), IntData(5), IntData(7), FloatData(0), FloatData(4),
            TextData(<<>>), TextData(<<1>>), TextData(<<1, 1>>)}
MCTexts == {<<>>, <<1>>, <<2>>, <<1, 1>>}
MCKeyNames == {<<1>>, <<1, 1>>}
MCScores == {-5, -2, 0, 2, 5}
MCSymmetry == Permutations(Threads) \cup Permutations(Namespaces)

MCInit ==
    /\ part \in Parts
    /\ IF part = "engines" THEN EngInit ELSE EngInit /\ engine = CHOOSE k \in Kinds : TRUE
    /\ IF part = "iterators" THEN IterInit
       ELSE IterInit /\ kind = "lmdb" /\ stored = {} /\ bound = Nothing /\ min_key = Nothing
    /\ IF part = "merge" THEN MergeInit ELSE MergeInit /\ base = NoMeta
    /\ CodecInit

MCNext ==
    /\ part' = part
    /\ \/ part = "engines" /\ EngNext /\ UNCHANGED <<ivars, mvars, cvars>>
       \/ part = "iterators" /\ IterNext /\ UNCHANGED <<evars, mvars, cvars>>
       \/ part = "merge" /\ MergeNext /\ UNCHANGED <<evars, ivars, cvars>>
       \/ part = "codec" /\ CodecNext /\ UNCHANGED <<evars, ivars, mvars>>

MCSpec == MCInit /\ [][MCNext]_<<part, evars, ivars, mvars, cvars>>
=============================================================================
