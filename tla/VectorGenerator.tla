--------------------------- MODULE VectorGenerator ---------------------------
(***************************************************************************)
(* vector_generator (vector_generator.cpp): random vectors, drawn from the  *)
(* engine of the generator or from one that is made for a seed.              *)
(*                                                                         *)
(* std::normal_distribution makes two values at a time from the numbers of   *)
(* an engine: it returns one and saves the other for its next call, whatever *)
(* engine that call uses.  The distribution is a member of the generator and *)
(* serves all its engines.                                                  *)
(*                                                                         *)
(* An engine is its seed and how many pairs were made from it; a value is    *)
(* the pair it comes from and its place in that pair.                       *)
(***************************************************************************)
EXTENDS Naturals, Sequences

CONSTANTS
    Dimensions,     \* _dimensions, 2048 in the program
    Seeds,          \* the seeds of the engines
    OwnSeed,        \* the seed of _generator
    NoValue,        \* the distribution has saved nothing
    NoCall          \* no call is running

ASSUME DimensionsAssumption == Dimensions \in Nat \ {0}
ASSUME SeedsAssumption == OwnSeed \in Seeds

Engines == [seed : Seeds, pairs : Nat]
Randoms == [seed : Seeds, pair : Nat, half : {0, 1}]

ASSUME NoValueAssumption == NoValue \notin Randoms
ASSUME NoCallAssumption == NoCall \notin {"own", "seeded"}

VARIABLES
    generator,      \* _generator
    saved,          \* what _distribution has saved, or NoValue
    call,           \* the kind of engine the running call uses, or NoCall
    engine,         \* that engine
    target          \* the elements written so far, or the last vector

generatorVars == <<generator, saved, call, engine, target>>

GeneratorInit ==
    /\ generator = [seed |-> OwnSeed, pairs |-> 0]
    /\ saved = NoValue
    /\ call = NoCall
    /\ engine = generator
    /\ target = <<>>

\* fill_vector(target) and create_vector(): the engine is _generator itself.
BeginOwn ==
    /\ call = NoCall
    /\ call' = "own"
    /\ engine' = generator
    /\ target' = <<>>
    /\ UNCHANGED <<generator, saved>>

\* Mutant: the generator goes on with its own engine.
BeginSeededWithOwn(seed) ==
    /\ call = NoCall
    /\ call' = "seeded"
    /\ engine' = generator
    /\ target' = <<>>
    /\ UNCHANGED <<generator, saved>>

\* fill_vector(target, seed) and create_vector(seed): an engine for this call.
BeginSeeded(seed) ==
    /\ call = NoCall
    /\ call' = "seeded"
    /\ engine' = [seed |-> seed, pairs |-> 0]
    /\ target' = <<>>
    /\ UNCHANGED <<generator, saved>>

Value(e, half) == [seed |-> e.seed, pair |-> e.pairs, half |-> half]

\* _distribution(generator) has a value left from its last call ...
DrawSaved ==
    /\ saved # NoValue
    /\ target' = Append(target, saved)
    /\ saved' = NoValue
    /\ UNCHANGED engine

\* ... or makes two, whose first it returns.
DrawPair ==
    /\ saved = NoValue
    /\ target' = Append(target, Value(engine, 0))
    /\ saved' = Value(engine, 1)
    /\ engine' = [engine EXCEPT !.pairs = @ + 1]

\* One round of the loop over the dimensions.
DrawElement ==
    /\ call # NoCall
    /\ Len(target) < Dimensions
    /\ DrawSaved \/ DrawPair
    /\ UNCHANGED <<generator, call>>

\* The vector is normalised, which is a function of its elements, and returned.
Return ==
    /\ call # NoCall
    /\ Len(target) = Dimensions
    /\ generator' = IF call = "own" THEN engine ELSE generator
    /\ call' = NoCall
    /\ UNCHANGED <<saved, engine, target>>

GeneratorStep == BeginOwn \/ (\E seed \in Seeds : BeginSeeded(seed)) \/ DrawElement \/ Return

GeneratorSpec == GeneratorInit /\ [][GeneratorStep]_generatorVars

-----------------------------------------------------------------------------

GeneratorTypeOK ==
    /\ generator \in Engines
    /\ saved \in Randoms \union {NoValue}
    /\ call \in {"own", "seeded", NoCall}
    /\ engine \in Engines
    /\ target \in Seq(Randoms)
    /\ Len(target) <= Dimensions

\* The first n values an engine gives to a distribution that has saved nothing.
FirstValues(e, n) ==
    [i \in 1..n |-> [seed |-> e.seed, pair |-> e.pairs + ((i - 1) \div 2), half |-> (i - 1) % 2]]

\* With an even number of dimensions, a vector that is made for a seed depends
\* on that seed only, whatever was generated before: this is what makes the
\* query vector of the server and of the benchmark the same in every run.
SeedDeterminesVector ==
    Dimensions % 2 = 0 /\ call = "seeded" /\ Len(target) = Dimensions =>
        target = FirstValues([seed |-> engine.seed, pairs |-> 0], Dimensions)

=============================================================================
