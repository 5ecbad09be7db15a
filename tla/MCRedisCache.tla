---------------------------- MODULE MCRedisCache ----------------------------
(* Small instances of RedisCache for TLC. *)
EXTENDS RedisCache, TLC

\* A second has two ticks, and the clock starts in the middle of the third second,
\* so that no timestamp near the clock is mistaken for an unset one.
MCSecond == 2
MCStart == 5

MCNoOpts == {}
\* One second, and half of one: the latter may be truncated to the past.
MCTtlOnly == {WithTTL(2)}
MCTtls == {NoSetOption, WithTTL(1), WithTTL(2)}
MCLong == {WithTTL(4)}
MCHalf == {WithTTL(1)}
MCMixed == {NoSetOption, WithTTL(2)}

Take == AndDelete(NoGetOptions)
Extend == AndUpdateTTL(NoGetOptions, 3)
\* A removal that comes with another option.
TakeRenew == AndSetTTL(Take, 2)

MCPlainGet == {NoGetOptions}
MCTakeOnly == {Take}
MCConsuming == {TakeRenew}
MCRenewing == {NoGetOptions, AndDefaultTTL(NoGetOptions)}
MCTakeExtend == {TakeRenew, Extend}
MCDefaultGet == {AndDefaultTTL(NoGetOptions)}
MCExtending == {Extend}

\* Neither goroutines, keys nor values are ordered.
Symmetry == Permutations(Procs) \cup Permutations(Keys) \cup Permutations(Values)
=============================================================================
