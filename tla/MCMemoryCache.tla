--------------------------- MODULE MCMemoryCache ---------------------------
(* Small instances of MemoryCache for TLC. *)
EXTENDS MemoryCache, TLC

\* An unset option, a ttl, an expiry that may already have passed.
MCSetOpts == { NoSetOption, WithTTL(1),
               WithTTL(-1), WithValidUntil(0) }

MCFewSetOpts == { NoSetOption, WithTTL(1) }

\* With a clock of two instants: an entry for good, and one for an instant.
MCSoonSetOpts == { NoSetOption, WithTTL(-1) }

TakeOpt == AndDelete(NoGetOptions)

\* Every way a Get may change an expiry: backwards (a negative extension),
\* forwards, to the default, to no expiry at all, and a removal that comes with
\* another option.
MCGetOpts ==
  { TakeOpt,
    AndSetTTL(NoGetOptions, 1),
    AndUpdateTTL(NoGetOptions, 1),
    AndUpdateTTL(NoGetOptions, -1),
    AndDefaultTTL(NoGetOptions),
    AndSetValidUntil(NoGetOptions, Never),
    AndDelete(AndSetTTL(NoGetOptions, 1)) }

MCFewGetOpts == { TakeOpt, AndSetTTL(NoGetOptions, 1), AndDefaultTTL(NoGetOptions) }

\* Gets that leave the expiry alone.
MCTakeOnly == {TakeOpt}

\* Entries that are to expire at once.
MCNegative == { WithTTL(-1) }

\* Entries that always expire, and Gets that set their expiry anew: together
\* they never use the zero time, so that no read of an expiry is torn.
MCTimedSetOpts == { WithTTL(1) }
MCExtendOnly == { AndSetTTL(NoGetOptions, 1) }

\* Gets that take the expiry away.
MCDefaultOnly == { AndDefaultTTL(NoGetOptions) }

\* Neither goroutines, keys nor addresses are ordered.
Symmetry == Permutations(Procs) \cup Permutations(Keys) \cup Permutations(Items)
=============================================================================
