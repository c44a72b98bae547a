---------------------------- MODULE MCProducers ----------------------------
(***************************************************************************)
(* All producers, each alone, under up to three irregularities at once.    *)
(***************************************************************************)
EXTENDS Producers

MCKinds == DOMAIN Programs
MCEnvs  == {e \in SUBSET AllEnv : Cardinality(e) <= 3}
=============================================================================
